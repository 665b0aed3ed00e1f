---------------------------- MODULE SqlStoreProofs ----------------------------
(***************************************************************************)
(* The SQL store implements the abstract one, keeps its tables small, and  *)
(* with one connection and no failures caches nothing that is out of date, *)
(* for any keys, limits, requests, databases and configurations, whatever  *)
(* is rolled back and whenever the process dies.  In the end, the uptime   *)
(* that it and the memory store make of the same executions.               *)
(***************************************************************************)
EXTENDS SqlStore, Uptime, FiniteSetTheorems, WellFoundedInduction, TLAPS

-----------------------------------------------------------------------------
(* Results and events *)

(***************************************************************************)
(* Newest keeps the type of a sequence, is empty only for an empty one,    *)
(* keeps its last element, and is a contiguous part of it.                 *)
(***************************************************************************)
LEMMA NewestProperties ==
    ASSUME NEW S, NEW seq \in Seq(S), NEW n \in Nat \ {0}
    PROVE  /\ Newest(seq, n) \in Seq(S)
           /\ Newest(seq, n) = <<>> <=> seq = <<>>
           /\ seq # <<>> => LastOf(Newest(seq, n)) = LastOf(seq)
           /\ Len(Newest(seq, n)) \in Nat
           /\ \A m \in 1..Len(Newest(seq, n)) - 1 :
                 \E j \in 1..Len(seq) - 1 :
                    /\ Newest(seq, n)[m] = seq[j]
                    /\ Newest(seq, n)[m + 1] = seq[j + 1]
<1>1. CASE Len(seq) <= n
  BY <1>1 DEF Newest
<1>2. CASE Len(seq) > n
  <2> DEFINE first == Len(seq) - n + 1
             part == SubSeq(seq, first, Len(seq))
  <2>1. Newest(seq, n) = part /\ first \in 2..Len(seq) /\ Len(seq) \in Nat
    BY <1>2 DEF Newest
  <2>2. part \in Seq(S) /\ Len(part) = n /\ Len(part) \in Nat \ {0}
    BY <2>1
  <2>3. \A m \in 1..n : part[m] = seq[first + m - 1]
    BY <2>1
  <2>4. LastOf(part) = LastOf(seq)
    BY <2>1, <2>2, <2>3 DEF LastOf
  <2>5. ASSUME NEW m \in 1..n - 1
        PROVE  \E j \in 1..Len(seq) - 1 : part[m] = seq[j] /\ part[m + 1] = seq[j + 1]
    <3> DEFINE j == first + m - 1
    <3>1. j \in 1..Len(seq) - 1
      BY <2>1
    <3>2. part[m] = seq[j] /\ part[m + 1] = seq[j + 1]
      BY <2>1, <2>3
    <3> QED
      BY <3>1, <3>2
  <2>6. part # <<>> /\ seq # <<>>
    <3>1. Len(<<>>) = 0
      OBVIOUS
    <3>2. Len(part) # 0 /\ Len(seq) # 0
      BY <2>1, <2>2
    <3> HIDE DEF part
    <3> QED
      BY <3>1, <3>2
  <2> HIDE DEF part
  <2> QED
    BY <2>1, <2>2, <2>4, <2>5, <2>6
<1> QED
  BY <1>1, <1>2

(***************************************************************************)
(* A sequence with an element appended is not empty and ends with it.      *)
(***************************************************************************)
LEMMA AppendProperties ==
    ASSUME NEW S, NEW seq \in Seq(S), NEW e \in S
    PROVE  Append(seq, e) \in Seq(S) /\ Append(seq, e) # <<>> /\ LastOf(Append(seq, e)) = e
<1> DEFINE longer == Append(seq, e)
<1>1. longer \in Seq(S) /\ Len(longer) = Len(seq) + 1 /\ longer[Len(seq) + 1] = e
  OBVIOUS
<1>2. Len(<<>>) = 0 /\ Len(seq) \in Nat
  OBVIOUS
<1> HIDE DEF longer
<1>3. longer # <<>>
  BY <1>1, <1>2
<1>4. LastOf(longer) = e
  BY <1>1 DEF LastOf
<1> QED
  BY <1>1, <1>3, <1>4 DEF longer

(***************************************************************************)
(* Newest(seq, n) has the n last elements, or all of them, in their order. *)
(***************************************************************************)
LEMMA NewestElements ==
    ASSUME NEW S, NEW seq \in Seq(S), NEW n \in Nat \ {0}
    PROVE  /\ Len(Newest(seq, n)) = IF Len(seq) <= n THEN Len(seq) ELSE n
           /\ Len(seq) \in Nat
           /\ \A i \in 1..Len(Newest(seq, n)) :
                 Newest(seq, n)[i] = seq[Len(seq) - Len(Newest(seq, n)) + i]
<1>1. CASE Len(seq) <= n
  BY <1>1 DEF Newest
<1>2. CASE Len(seq) > n
  <2> DEFINE first == Len(seq) - n + 1
             part == SubSeq(seq, first, Len(seq))
  <2>1. Newest(seq, n) = part /\ first \in 2..Len(seq) /\ Len(seq) \in Nat
    BY <1>2 DEF Newest
  <2>2. Len(part) = n /\ \A i \in 1..n : part[i] = seq[first + i - 1]
    BY <2>1
  <2> HIDE DEF part
  <2>3. \A i \in 1..n : first + i - 1 = Len(seq) - n + i
    BY <2>1
  <2> QED
    BY <1>2, <2>1, <2>2, <2>3
<1> QED
  BY <1>1, <1>2

(***************************************************************************)
(* Cutting twice is cutting once.                                          *)
(***************************************************************************)
LEMMA NewestTwice ==
    ASSUME NEW S, NEW seq \in Seq(S), NEW n \in Nat \ {0}
    PROVE  Newest(Newest(seq, n), n) = Newest(seq, n)
<1>1. Len(Newest(seq, n)) <= n
  BY NewestElements
<1> QED
  BY <1>1 DEF Newest

(***************************************************************************)
(* What is cut before one more element is appended is not missed after.    *)
(***************************************************************************)
LEMMA NewestAfterAppend ==
    ASSUME NEW S, NEW seq \in Seq(S), NEW e \in S, NEW n \in Nat \ {0}
    PROVE  Newest(Append(Newest(seq, n), e), n) = Newest(Append(seq, e), n)
<1> DEFINE cut == Newest(seq, n)
           less == Append(cut, e)
           more == Append(seq, e)
           a == Newest(less, n)
           b == Newest(more, n)
<1>1. cut \in Seq(S)
  BY NewestProperties
<1>2. /\ Len(seq) \in Nat
      /\ Len(cut) = IF Len(seq) <= n THEN Len(seq) ELSE n
      /\ \A i \in 1..Len(cut) : cut[i] = seq[Len(seq) - Len(cut) + i]
  BY NewestElements
<1> HIDE DEF cut
<1>3. /\ less \in Seq(S) /\ Len(less) = Len(cut) + 1 /\ less[Len(cut) + 1] = e
      /\ \A i \in 1..Len(cut) : less[i] = cut[i]
  BY <1>1
<1>4. /\ more \in Seq(S) /\ Len(more) = Len(seq) + 1 /\ more[Len(seq) + 1] = e
      /\ \A i \in 1..Len(seq) : more[i] = seq[i]
  OBVIOUS
<1> HIDE DEF less, more
<1>5. /\ Len(a) = IF Len(less) <= n THEN Len(less) ELSE n
      /\ \A i \in 1..Len(a) : a[i] = less[Len(less) - Len(a) + i]
  BY <1>3, NewestElements
<1>6. /\ Len(b) = IF Len(more) <= n THEN Len(more) ELSE n
      /\ \A i \in 1..Len(b) : b[i] = more[Len(more) - Len(b) + i]
  BY <1>4, NewestElements
<1>7. a \in Seq(S) /\ b \in Seq(S)
  BY <1>3, <1>4, NewestProperties
<1> HIDE DEF a, b
<1>8. /\ Len(seq) \in Nat /\ Len(cut) \in Nat /\ Len(a) \in 1..n /\ Len(b) = Len(a)
      /\ Len(less) = Len(cut) + 1 /\ Len(more) = Len(seq) + 1
      /\ Len(cut) <= Len(seq) /\ Len(a) <= Len(less)
  BY <1>2, <1>3, <1>4, <1>5, <1>6
<1>9. ASSUME NEW i \in 1..Len(a) PROVE a[i] = b[i]
  <2> DEFINE inLess == Len(less) - Len(a) + i
             inMore == Len(more) - Len(b) + i
  <2>1. a[i] = less[inLess] /\ b[i] = more[inMore]
    BY <1>5, <1>6, <1>8
  <2>2. CASE i = Len(a)
    <3>1. inLess = Len(cut) + 1 /\ inMore = Len(seq) + 1
      BY <2>2, <1>8
    <3> HIDE DEF inLess, inMore
    <3> QED
      BY <2>1, <3>1, <1>3, <1>4
  <2>3. CASE i < Len(a)
    <3>1. /\ inLess \in 1..Len(cut) /\ inMore \in 1..Len(seq)
          /\ Len(seq) - Len(cut) + inLess = inMore
      BY <2>3, <1>8
    <3> HIDE DEF inLess, inMore
    <3>2. less[inLess] = cut[inLess] /\ more[inMore] = seq[inMore]
      BY <3>1, <1>3, <1>4
    <3> QED
      BY <2>1, <3>1, <3>2, <1>2
  <2> QED
    BY <2>2, <2>3, <1>8
<1>10. a = b
  BY <1>7, <1>8, <1>9
<1> QED
  BY <1>10 DEF a, b, cut, less, more

(***************************************************************************)
(* One more result keeps the two lists of a key in step.                   *)
(***************************************************************************)
LEMMA InStepAfterInsert ==
    ASSUME NEW rs \in Seq(BOOLEAN), NEW es \in Seq(EventTypes), NEW success \in BOOLEAN,
           InStep(rs, es)
    PROVE  /\ Append(rs, success) \in Seq(BOOLEAN)
           /\ EventsWith(rs, es, success) \in Seq(EventTypes)
           /\ InStep(Append(rs, success), EventsWith(rs, es, success))
<1> DEFINE longer == Append(rs, success)
           new == EventsWith(rs, es, success)
<1>1. longer \in Seq(BOOLEAN) /\ longer # <<>> /\ LastOf(longer) = success
  BY AppendProperties
<1>2. /\ new \in Seq(EventTypes) /\ new # <<>>
      /\ LastOf(new) = NewEventFromResult(success)
      /\ \A n \in 1..Len(new) - 1 : new[n] # new[n + 1]
  <2> USE DEF LastOf, NewEventFromResult, EventTypes, InStep
  <2>1. CASE rs = <<>>
    BY <2>1 DEF EventsWith
  <2>2. CASE rs # <<>> /\ LastOf(rs) = success
    BY <2>2 DEF EventsWith
  <2>3. CASE rs # <<>> /\ LastOf(rs) # success
    <3>1. new = Append(es, NewEventFromResult(success))
      BY <2>3 DEF EventsWith
    <3>2. LastOf(rs) \in BOOLEAN /\ Len(es) \in Nat \ {0}
      BY <2>3
    <3>3. LastOf(es) # NewEventFromResult(success)
      BY <2>3, <3>2
    <3>4. /\ new \in Seq(EventTypes) /\ Len(new) = Len(es) + 1
          /\ LastOf(new) = NewEventFromResult(success)
      BY <3>1
    <3>5. ASSUME NEW n \in 1..Len(new) - 1 PROVE new[n] # new[n + 1]
      BY <3>1, <3>2, <3>3, <3>4
    <3> QED
      BY <3>4, <3>5, <3>2
  <2> QED
    BY <2>1, <2>2, <2>3
<1> HIDE DEF longer, new
<1>3. InStep(longer, new)
  BY <1>1, <1>2 DEF InStep
<1> QED
  BY <1>1, <1>2, <1>3 DEF longer, new

(***************************************************************************)
(* Two lists that are in step still are when either is cut to its newest   *)
(* elements.                                                               *)
(***************************************************************************)
LEMMA InStepAfterNewest ==
    ASSUME NEW rs \in Seq(BOOLEAN), NEW es \in Seq(EventTypes), InStep(rs, es),
           NEW n \in Nat \ {0}, NEW m \in Nat \ {0},
           NEW a \in {rs, Newest(rs, n)}, NEW b \in {es, Newest(es, m)}
    PROVE  InStep(a, b)
<1>1. (a = <<>> <=> rs = <<>>) /\ (rs # <<>> => LastOf(a) = LastOf(rs))
  BY NewestProperties
<1>2. (b = <<>> <=> es = <<>>) /\ (es # <<>> => LastOf(b) = LastOf(es))
  BY NewestProperties
<1>3. \A i \in 1..Len(b) - 1 : b[i] # b[i + 1]
  <2>1. CASE b = es
    BY <2>1 DEF InStep
  <2>2. CASE b = Newest(es, m)
    <3>1. \A i \in 1..Len(Newest(es, m)) - 1 : \E j \in 1..Len(es) - 1 :
             /\ Newest(es, m)[i] = es[j]
             /\ Newest(es, m)[i + 1] = es[j + 1]
      BY NewestProperties
    <3> QED
      BY <2>2, <3>1 DEF InStep
  <2> QED
    BY <2>1, <2>2
<1> QED
  BY <1>1, <1>2, <1>3 DEF InStep

-----------------------------------------------------------------------------
(* The abstract store *)

Store(results, events) == INSTANCE StatusStore

(***************************************************************************)
(* The store goes by the rules of the lemmas above.                        *)
(***************************************************************************)
LEMMA RulesOfStore ==
    ASSUME NEW VARIABLE results, NEW VARIABLE events
    PROVE  /\ Store(results, events)!EventTypes = EventTypes
           /\ \A seq, n : Store(results, events)!Newest(seq, n) = Newest(seq, n)
           /\ \A rs, es, success :
                 Store(results, events)!EventsWith(rs, es, success) = EventsWith(rs, es, success)
           /\ \A rs, es : Store(results, events)!InStep(rs, es) = InStep(rs, es)
<1>1. /\ \A seq : Store(results, events)!LastOf(seq) = LastOf(seq)
      /\ \A success : Store(results, events)!NewEventFromResult(success)
                        = NewEventFromResult(success)
  BY DEF Store!LastOf, LastOf, Store!NewEventFromResult, NewEventFromResult
<1>2. Store(results, events)!EventTypes = EventTypes
  BY DEF Store!EventTypes, EventTypes
<1>3. \A seq, n : Store(results, events)!Newest(seq, n) = Newest(seq, n)
  BY DEF Store!Newest, Newest
<1>4. \A rs, es, success :
        Store(results, events)!EventsWith(rs, es, success) = EventsWith(rs, es, success)
  BY <1>1 DEF Store!EventsWith, EventsWith
<1>5. \A rs, es : Store(results, events)!InStep(rs, es) = InStep(rs, es)
  BY <1>1 DEF Store!InStep, InStep
<1> QED
  BY <1>2, <1>3, <1>4, <1>5

(***************************************************************************)
(* Results and events keep their types, and stay in step, for every step.  *)
(***************************************************************************)
LEMMA StoreStep ==
    ASSUME NEW VARIABLE results, NEW VARIABLE events,
           Store(results, events)!TypeOK, Store(results, events)!EventsFollowResults,
           [Store(results, events)!Next]_(Store(results, events)!vars)
    PROVE  Store(results, events)!TypeOK' /\ Store(results, events)!EventsFollowResults'
<1> DEFINE Typed == results \in [Keys -> Seq(BOOLEAN)] /\ events \in [Keys -> Seq(EventTypes)]
           Follow == \A k \in Keys : InStep(results[k], events[k])
<1>1. /\ Store(results, events)!TypeOK <=> Typed
      /\ Store(results, events)!EventsFollowResults <=> Follow
  BY RulesOfStore DEF Store!TypeOK, Store!EventsFollowResults
<1>2. /\ Store(results, events)!TypeOK' <=> Typed'
      /\ Store(results, events)!EventsFollowResults' <=> Follow'
  BY RulesOfStore DEF Store!TypeOK, Store!EventsFollowResults, Store!EventTypes,
     EventTypes, Store!InStep, InStep, Store!LastOf, LastOf,
     Store!NewEventFromResult, NewEventFromResult
<1>3. ASSUME NEW k \in Keys, NEW success \in BOOLEAN,
             Store(results, events)!InsertEndpointResult(k, success)
      PROVE  Typed' /\ Follow'
  <2> DEFINE longer == Append(results[k], success)
             new    == EventsWith(results[k], events[k], success)
  <2>1. results[k] \in Seq(BOOLEAN) /\ events[k] \in Seq(EventTypes)
    BY <1>1
  <2>2. /\ longer \in Seq(BOOLEAN) /\ new \in Seq(EventTypes)
        /\ InStep(longer, new)
    BY <1>1, <2>1, InStepAfterInsert
  <2>3. /\ results' = [results EXCEPT ![k] = Newest(longer, MaxResults)]
        /\ events' = [events EXCEPT ![k] = Newest(new, MaxEvents)]
    <3>1. /\ Store(results, events)!Newest(longer, MaxResults) = Newest(longer, MaxResults)
          /\ Store(results, events)!EventsWith(results[k], events[k], success) = new
          /\ Store(results, events)!Newest(new, MaxEvents) = Newest(new, MaxEvents)
      BY RulesOfStore
    <3> QED
      BY <1>3, <3>1 DEF Store!InsertEndpointResult
  <2> HIDE DEF longer, new
  <2>4. /\ Newest(longer, MaxResults) \in Seq(BOOLEAN)
        /\ Newest(new, MaxEvents) \in Seq(EventTypes)
    BY <2>2, NewestProperties, StoreAssumption
  <2>5. InStep(Newest(longer, MaxResults), Newest(new, MaxEvents))
    BY <2>2, InStepAfterNewest, StoreAssumption
  <2>6. Typed'
    BY <1>1, <2>3, <2>4
  <2>7. /\ results'[k] = Newest(longer, MaxResults) /\ events'[k] = Newest(new, MaxEvents)
        /\ \A other \in Keys \ {k} : /\ results'[other] = results[other]
                                     /\ events'[other] = events[other]
    BY <1>1, <2>3
  <2>8. Follow'
    BY <1>1, <2>5, <2>7
  <2> QED
    BY <2>6, <2>8
<1>4. ASSUME NEW keys \in SUBSET Keys,
             Store(results, events)!DeleteAllEndpointStatusesNotInKeys(keys)
      PROVE  Typed' /\ Follow'
  <2>1. /\ results' = [k \in Keys |-> IF k \in keys THEN results[k] ELSE <<>>]
        /\ events' = [k \in Keys |-> IF k \in keys THEN events[k] ELSE <<>>]
    BY <1>4 DEF Store!DeleteAllEndpointStatusesNotInKeys
  <2>2. Typed'
    <3>1. /\ \A k \in Keys : results[k] \in Seq(BOOLEAN) /\ events[k] \in Seq(EventTypes)
          /\ <<>> \in Seq(BOOLEAN) /\ <<>> \in Seq(EventTypes)
      BY <1>1
    <3> QED
      BY <2>1, <3>1
  <2>3. Follow'
    BY <1>1, <2>1 DEF InStep
  <2> QED
    BY <2>2, <2>3
<1>5. ASSUME UNCHANGED Store(results, events)!vars PROVE Typed' /\ Follow'
  BY <1>1, <1>5 DEF Store!vars
<1> HIDE DEF Typed, Follow
<1> QED
  BY <1>2, <1>3, <1>4, <1>5 DEF Store!Next

(***************************************************************************)
(* Whatever is inserted and deleted, and however short the lists are kept, *)
(* the newest event of an endpoint is the outcome of its newest result and *)
(* no event repeats its predecessor.                                       *)
(***************************************************************************)
THEOREM EventsAlwaysFollowResults ==
    ASSUME NEW VARIABLE results, NEW VARIABLE events
    PROVE  Store(results, events)!Spec => []Store(results, events)!EventsFollowResults
<1>1. Store(results, events)!Init
        => Store(results, events)!TypeOK /\ Store(results, events)!EventsFollowResults
  BY DEF Store!Init, Store!TypeOK, Store!EventsFollowResults, Store!InStep
<1>2. /\ Store(results, events)!TypeOK /\ Store(results, events)!EventsFollowResults
      /\ [Store(results, events)!Next]_(Store(results, events)!vars)
      => Store(results, events)!TypeOK' /\ Store(results, events)!EventsFollowResults'
  BY StoreStep
<1> QED
  BY <1>1, <1>2, PTL DEF Store!Spec
-----------------------------------------------------------------------------
(* The committed rows *)

\* Rows that have their types, are in step and are no more than the clean-ups
\* let there be.
GoodStatuses ==
    {status \in Statuses :
        /\ InStep(status.results, status.events)
        /\ Len(status.results) <= MaxResults + Threshold
        /\ Len(status.events) <= MaxEvents + Threshold + 1}

\* What is committed, and what any open transaction may commit, is good.
RowsGood ==
    /\ rows \in [Keys -> GoodStatuses]
    /\ work \in [Keys -> GoodStatuses]

(***************************************************************************)
(* An endpoint without rows is good.                                       *)
(***************************************************************************)
LEMMA NoRowsGood == NoRows \in GoodStatuses
BY StoreAssumption, SqlAssumption DEF NoRows, GoodStatuses, Statuses, InStep

(***************************************************************************)
(* InsertEndpointResult keeps good rows good, with or without clean-ups,   *)
(* which look at the two tables separately and at different moments.       *)
(***************************************************************************)
LEMMA InsertedGood ==
    ASSUME NEW status \in GoodStatuses, NEW success \in BOOLEAN
    PROVE  Inserted(status, success) \in GoodStatuses
<1> DEFINE rs == status.results
           es == status.events
           longer == Append(rs, success)
           new == EventsWith(rs, es, success)
           keptResults == ResultsCleaned(es, longer)
           keptEvents == EventsCleaned(es, new)
<1>0. Threshold \in Nat /\ MaxResults \in Nat \ {0} /\ MaxEvents \in Nat \ {0}
  BY StoreAssumption, SqlAssumption
<1>1. rs \in Seq(BOOLEAN) /\ es \in Seq(EventTypes) /\ InStep(rs, es)
  BY DEF GoodStatuses, Statuses
<1>2. EventsInserted(status, success) = new
  BY <1>1 DEF EventsInserted, EventsWith, InStep
<1>3. /\ longer \in Seq(BOOLEAN) /\ new \in Seq(EventTypes)
      /\ InStep(longer, new)
  BY <1>1, InStepAfterInsert
<1> HIDE DEF longer, new
<1>4. /\ keptResults \in {longer, Newest(longer, MaxResults)}
      /\ keptEvents \in {new, Newest(new, MaxEvents)}
  BY DEF ResultsCleaned, EventsCleaned
<1>5. keptResults \in Seq(BOOLEAN) /\ keptEvents \in Seq(EventTypes)
  BY <1>3, <1>4, NewestProperties, StoreAssumption
<1>6. InStep(keptResults, keptEvents)
  BY <1>3, <1>4, InStepAfterNewest, StoreAssumption
<1>7. Len(keptResults) <= MaxResults + Threshold
  <2>1. Len(longer) \in Nat /\ Len(Newest(longer, MaxResults)) <= MaxResults
    BY <1>3, NewestElements, StoreAssumption
  <2> QED
    BY <2>1, StoreAssumption, SqlAssumption DEF ResultsCleaned
<1>8. Len(keptEvents) <= MaxEvents + Threshold + 1
  <2>1. Len(new) \in Nat /\ Len(Newest(new, MaxEvents)) <= MaxEvents
    BY <1>3, NewestElements, StoreAssumption
  <2>2. Len(es) \in Nat /\ (Len(new) <= Len(es) + 1 \/ Len(new) = 2)
    BY <1>1 DEF EventsWith, new
  <2>3. CASE Len(es) > MaxEvents + Threshold
    <3>1. keptEvents = Newest(new, MaxEvents)
      BY <2>3 DEF EventsCleaned
    <3> QED
      BY <2>1, <3>1, <1>0
  <2>4. CASE ~(Len(es) > MaxEvents + Threshold)
    <3>1. keptEvents = new
      BY <2>4 DEF EventsCleaned
    <3> HIDE DEF es, keptEvents
    <3>2. MaxEvents \in Nat /\ 1 <= MaxEvents /\ Threshold \in Nat
      BY <1>0
    <3>3. Len(es) <= MaxEvents + Threshold
      BY <2>2, <2>4, <3>2
    <3>4. CASE Len(new) <= Len(es) + 1
      BY <2>1, <2>2, <3>1, <3>2, <3>3, <3>4
    <3>5. CASE Len(new) = 2
      BY <3>1, <3>2, <3>5
    <3> QED
      BY <2>2, <3>4, <3>5
  <2> QED
    BY <2>3, <2>4
<1>9. Inserted(status, success) = [results |-> keptResults, events |-> keptEvents]
  BY <1>2 DEF Inserted, longer
<1> HIDE DEF keptResults, keptEvents
<1> QED
  BY <1>5, <1>6, <1>7, <1>8, <1>9 DEF GoodStatuses, Statuses

(***************************************************************************)
(* No step spoils the committed rows or those of an open transaction.      *)
(***************************************************************************)
LEMMA RowsGoodStep == RowsGood /\ [Next]_vars => RowsGood'
<1> SUFFICES ASSUME RowsGood, [Next]_vars PROVE RowsGood'
  OBVIOUS
<1> USE NoRowsGood DEF RowsGood
<1> HIDE DEF GoodStatuses
<1>1. ASSUME NEW k \in Keys, NEW success \in BOOLEAN, Begin(k, success)
      PROVE  RowsGood'
  <2>1. Inserted(rows[k], success) \in GoodStatuses
    BY InsertedGood
  <2> QED
    BY <1>1, <2>1 DEF Begin, outside
<1>2. ASSUME NEW p \in Procs, End(p), UNCHANGED rows PROVE RowsGood'
  BY <1>2 DEF End
<1>3. ASSUME NEW p \in Procs, Return(p), UNCHANGED rows PROVE RowsGood'
  BY <1>2, <1>3 DEF Return
<1>4. ASSUME NEW k \in Keys, InsertStep(k) PROVE RowsGood'
  <2>0. k \in Procs
    BY DEF Procs
  <2>1. CASE ListCacheKeys(k)
    BY <2>1 DEF ListCacheKeys, outside
  <2>2. CASE Refresh(k)
    BY <2>2 DEF Refresh, outside
  <2>3. CASE Commit(k)
    <3>1. rows' = [rows EXCEPT ![k] = work[k]] /\ End(k)
      BY <2>3 DEF Commit
    <3>2. work' = [work EXCEPT ![k] = NoRows]
      BY <3>1 DEF End
    <3> QED
      BY <3>1, <3>2
  <2>4. CASE InsertFails(k)
    BY <2>0, <2>4, <1>2 DEF InsertFails, outside
  <2>5. CASE CommitFails(k)
    BY <2>0, <2>5, <1>2 DEF CommitFails, outside
  <2> QED
    BY <1>4, <2>1, <2>2, <2>3, <2>4, <2>5 DEF InsertStep
<1>5. ASSUME NEW k \in Keys, Expire(k) PROVE RowsGood'
  BY <1>5 DEF Expire, outside
<1>6. ASSUME NEW r \in Readers, NEW k \in Keys, Request(r, k) PROVE RowsGood'
  BY <1>6 DEF Request, outside
<1>7. ASSUME NEW p \in Procs, StatusByKeyStep(p) PROVE RowsGood'
  <2>1. CASE LookupReturns(p)
    BY <2>1, <1>3 DEF LookupReturns, outside
  <2>2. CASE LookupReadsEvents(p)
    BY <2>2 DEF LookupReadsEvents, outside
  <2>3. CASE ReadResults(p)
    BY <2>3 DEF ReadResults, outside
  <2>4. CASE Fill(p)
    BY <2>4, <1>3 DEF Fill, outside
  <2> QED
    BY <1>7, <2>1, <2>2, <2>3, <2>4 DEF StatusByKeyStep
<1>8. ASSUME NEW keys \in Configurations, Restart(keys) PROVE RowsGood'
  BY <1>8 DEF Restart
<1>9. CASE UNCHANGED vars
  BY <1>9 DEF vars
<1> QED
  BY <1>1, <1>4, <1>5, <1>6, <1>7, <1>8, <1>9 DEF Next

(***************************************************************************)
(* In the committed rows of every endpoint the newest event is the outcome *)
(* of the newest result, and no event repeats the one before: rollbacks,   *)
(* clean-ups, deletions and crashes of InsertEndpointResult change nothing *)
(* about that.                                                             *)
(***************************************************************************)
THEOREM CommittedEventsFollowResults == Spec => []EventsFollowResults
<1>1. Init => RowsGood
  BY NoRowsGood DEF Init, RowsGood
<1>2. RowsGood => EventsFollowResults
  BY DEF RowsGood, EventsFollowResults, GoodStatuses
<1> QED
  BY <1>1, <1>2, RowsGoodStep, PTL DEF Spec

(***************************************************************************)
(* The lazy clean-ups keep the tables within the limits plus the threshold *)
(* (deleteOldEndpointResults and deleteOldEndpointEvents).                 *)
(***************************************************************************)
THEOREM TablesStaySmall == Spec => []RowsBounded
<1>1. Init => RowsGood
  BY NoRowsGood DEF Init, RowsGood
<1>2. RowsGood => RowsBounded
  BY DEF RowsGood, RowsBounded, GoodStatuses
<1> QED
  BY <1>1, <1>2, RowsGoodStep, PTL DEF Spec
-----------------------------------------------------------------------------
(* Types *)

\* The transactions that are open.
Busy == {p \in Procs : at[p] # "idle"}

\* getEndpointStatusByKey is under way.
Looking == {"lookup", "results", "fill"}

(***************************************************************************)
(* What a page shows has the types of what it is a page of.                *)
(***************************************************************************)
LEMMA PageTyped == ASSUME NEW status \in Statuses PROVE Page(status) \in Statuses
<1>1. /\ Newest(status.results, MaxResults) \in Seq(BOOLEAN)
      /\ Newest(status.events, MaxEvents) \in Seq(EventTypes)
  BY NewestProperties, StoreAssumption DEF Statuses
<1> QED
  BY <1>1 DEF Page, Statuses

(***************************************************************************)
(* getEndpointStatusByKey reads a page of some rows, or fails, and then its*)
(* own transaction is the one that is aborted.                             *)
(***************************************************************************)
LEMMA ReadsTyped ==
    ASSUME TypeOK, NEW p \in Procs, NEW read \in Reads(p)
    PROVE  /\ read.status \in Statuses
           /\ read.aborts \subseteq {p}
           /\ read.aborts # {} => db.faults
<1>1. View(p, key[p]) \in Statuses /\ NoRows \in Statuses
  BY DEF TypeOK, View, NoRows, Statuses
<1>2. Page(View(p, key[p])) \in Statuses
  BY <1>1, PageTyped
<1> QED
  BY <1>1, <1>2 DEF Reads

(***************************************************************************)
(* The pool is respected by a step after which no more transactions are    *)
(* open than before, and by s.db.Begin().                                  *)
(***************************************************************************)
LEMMA PoolStep ==
    ASSUME TypeOK, db' = db,
           \/ Busy' \subseteq Busy
           \/ \E p \in Procs : Connects(p) /\ Busy' = Busy \cup {p}
    PROVE  Cardinality(Busy') <= db'.connections
<1>1. IsFiniteSet(Busy) /\ Cardinality(Busy) \in Nat
  <2>1. Busy \in SUBSET Procs
    BY DEF Busy
  <2> QED
    BY <2>1, FS_Subset, FS_CardinalityType, SqlAssumption
<1>2. db.connections \in Nat
  BY SqlAssumption DEF TypeOK
<1>3. Cardinality(Busy) <= db.connections
  BY DEF TypeOK, Busy
<1>4. CASE Busy' \subseteq Busy
  <2>1. IsFiniteSet(Busy') /\ Cardinality(Busy') <= Cardinality(Busy)
    BY <1>1, <1>4, FS_Subset
  <2>2. Cardinality(Busy') \in Nat
    BY <2>1, FS_CardinalityType
  <2> QED
    BY <1>1, <1>2, <1>3, <2>1, <2>2
<1>5. ASSUME NEW p \in Procs, Connects(p), Busy' = Busy \cup {p}
      PROVE  Cardinality(Busy') <= db'.connections
  <2>1. p \notin Busy /\ Cardinality(Busy) < db.connections
    BY <1>5 DEF Connects, Busy
  <2>2. Cardinality(Busy') = Cardinality(Busy) + 1
    BY <1>1, <1>5, <2>1, FS_AddElement
  <2> QED
    BY <1>1, <1>2, <2>1, <2>2
<1> QED
  BY <1>4, <1>5

(***************************************************************************)
(* An open transaction that goes on, or ends, opens no other.              *)
(***************************************************************************)
LEMMA GoesOn ==
    ASSUME TypeOK, NEW p \in Procs, at[p] # "idle", NEW stage \in Stages, Goto(p, stage)
    PROVE  Busy' \subseteq Busy /\ at' \in [Procs -> Stages]
BY DEF TypeOK, Goto, Busy

(***************************************************************************)
(* A connection is got by one transaction.                                 *)
(***************************************************************************)
LEMMA Connected ==
    ASSUME TypeOK, NEW p \in Procs, NEW stage \in Stages \ {"idle"}, Goto(p, stage)
    PROVE  Busy' = Busy \cup {p} /\ at' \in [Procs -> Stages]
BY DEF TypeOK, Goto, Busy

(***************************************************************************)
(* End and Return leave everything in its type, if what else changes is.   *)
(***************************************************************************)
LEMMA EndTyped ==
    ASSUME TypeOK, NEW p \in Procs, at[p] # "idle", End(p),
           UNCHANGED <<db, monitored>>, rows' \in [Keys -> Statuses],
           cache' \in [Keys -> {NotCached} \cup Statuses]
    PROVE  TypeOK'
<1>1. NoRows \in Statuses /\ (CHOOSE k \in Keys : TRUE) \in Keys
  BY SqlAssumption DEF NoRows, Statuses
<1>2. Goto(p, "idle") /\ "idle" \in Stages
  BY DEF End, Stages
<1>3. Busy' \subseteq Busy /\ at' \in [Procs -> Stages]
  BY <1>2, GoesOn
<1>4. Cardinality(Busy') <= db'.connections
  BY <1>3, PoolStep
<1>5. \A q \in aborted' : db'.faults /\ q \in Procs /\ at'[q] # "idle"
  BY <1>2 DEF TypeOK, End, Goto
<1>6. work' \in [Keys -> Statuses] /\ todo' \in [Keys -> SUBSET Keys]
  BY <1>1 DEF TypeOK, End
<1>7. key' \in [Procs -> Keys] /\ page' \in [Procs -> Statuses]
  BY <1>1 DEF TypeOK, End
<1> QED
  BY <1>3, <1>4, <1>5, <1>6, <1>7 DEF TypeOK, Busy

(***************************************************************************)
(* The same for the return from getEndpointStatusByKey to a request or to  *)
(* an insertion.                                                           *)
(***************************************************************************)
LEMMA ReturnTyped ==
    ASSUME TypeOK, NEW p \in Procs, at[p] # "idle", Return(p), UNCHANGED outside,
           cache' \in [Keys -> {NotCached} \cup Statuses]
    PROVE  TypeOK'
<1>1. NoRows \in Statuses /\ (CHOOSE k \in Keys : TRUE) \in Keys
  BY SqlAssumption DEF NoRows, Statuses
<1>2. rows' \in [Keys -> Statuses]
  BY DEF TypeOK, outside
<1>3. CASE p \in Keys
  <2>1. Goto(p, "refresh") /\ "refresh" \in Stages
    BY <1>3 DEF Return, Stages
  <2>2. Busy' \subseteq Busy /\ at' \in [Procs -> Stages]
    BY <2>1, GoesOn
  <2>3. Cardinality(Busy') <= db'.connections
    BY <2>2, PoolStep DEF outside
  <2>4. \A q \in aborted' : db'.faults /\ q \in Procs /\ at'[q] # "idle"
    BY <1>3, <2>1 DEF TypeOK, Return, Goto, outside
  <2>5. key' \in [Procs -> Keys] /\ page' \in [Procs -> Statuses]
    BY <1>1, <1>3 DEF TypeOK, Return
  <2> QED
    BY <1>2, <1>3, <2>2, <2>3, <2>4, <2>5 DEF TypeOK, Busy, Return, outside
<1>4. CASE p \notin Keys
  BY <1>2, <1>4, EndTyped DEF Return, outside
<1> QED
  BY <1>3, <1>4

(***************************************************************************)
(* A step of an open transaction that stays open keeps the types, if what  *)
(* it changes has them.                                                    *)
(***************************************************************************)
LEMMA StaysTyped ==
    ASSUME TypeOK, NEW p \in Procs, at[p] # "idle",
           NEW stage \in Stages \ {"idle"}, Goto(p, stage), UNCHANGED <<outside, work>>,
           cache' \in [Keys -> {NotCached} \cup Statuses],
           todo' \in [Keys -> SUBSET Keys],
           aborted' = aborted \/ (db.faults /\ aborted' = aborted \cup {p}),
           key' \in [Procs -> Keys], page' \in [Procs -> Statuses]
    PROVE  TypeOK'
<1>1. Busy' \subseteq Busy /\ at' \in [Procs -> Stages]
  BY GoesOn
<1>2. Cardinality(Busy') <= db'.connections
  BY <1>1, PoolStep DEF outside
<1>3. \A q \in aborted' : db'.faults /\ q \in Procs /\ at'[q] # "idle"
  BY DEF TypeOK, Goto, outside
<1> QED
  BY <1>1, <1>2, <1>3 DEF TypeOK, Busy, outside

(***************************************************************************)
(* A transaction that begins does, too.                                    *)
(***************************************************************************)
LEMMA BeginsTyped ==
    ASSUME TypeOK, NEW p \in Procs, Connects(p),
           NEW stage \in Stages \ {"idle"}, Goto(p, stage),
           UNCHANGED <<outside, cache, todo, aborted, page>>,
           work' \in [Keys -> Statuses], key' \in [Procs -> Keys]
    PROVE  TypeOK'
<1>1. Busy' = Busy \cup {p} /\ at' \in [Procs -> Stages]
  BY Connected
<1>2. Cardinality(Busy') <= db'.connections
  BY <1>1, PoolStep DEF outside
<1>3. \A q \in aborted' : db'.faults /\ q \in Procs /\ at'[q] # "idle"
  BY DEF TypeOK, Goto, outside
<1> QED
  BY <1>1, <1>2, <1>3 DEF TypeOK, Busy, outside

(***************************************************************************)
(* Every step keeps the types, the size of the pool and who may fail.      *)
(***************************************************************************)
LEMMA TypeStep == TypeOK /\ RowsGood /\ [Next]_vars => TypeOK'
<1> SUFFICES ASSUME TypeOK, RowsGood, [Next]_vars PROVE TypeOK'
  OBVIOUS
<1>0. rows' \in [Keys -> Statuses] /\ work' \in [Keys -> Statuses]
  BY RowsGoodStep DEF RowsGood, GoodStatuses
<1>1. ASSUME NEW k \in Keys, NEW success \in BOOLEAN, Begin(k, success)
      PROVE  TypeOK'
  <2>1. k \in Procs /\ Connects(k) /\ Goto(k, "insert") /\ "insert" \in Stages \ {"idle"}
    BY <1>1 DEF Begin, Procs, Stages
  <2>2. UNCHANGED <<outside, cache, todo, aborted, page, key>>
    BY <1>1 DEF Begin
  <2> QED
    BY <1>0, <2>1, <2>2, BeginsTyped DEF TypeOK
<1>2. ASSUME NEW k \in Keys, InsertStep(k) PROVE TypeOK'
  <2>0. /\ k \in Procs /\ "refresh" \in Stages \ {"idle"} /\ "lookup" \in Stages \ {"idle"}
        /\ rows \in [Keys -> Statuses] /\ cache \in [Keys -> {NotCached} \cup Statuses]
    BY DEF Procs, Stages, TypeOK
  <2>1. CASE ListCacheKeys(k)
    <3>1. at[k] # "idle" /\ Goto(k, "refresh")
      BY <2>1 DEF ListCacheKeys
    <3>2. todo' \in [Keys -> SUBSET Keys]
      BY <2>1, SqlAssumption DEF ListCacheKeys, TypeOK
    <3>3. UNCHANGED <<outside, cache, work, aborted, key, page>>
      BY <2>1 DEF ListCacheKeys
    <3> QED
      BY <2>0, <3>1, <3>2, <3>3, StaysTyped DEF TypeOK
  <2>2. CASE Refresh(k)
    <3>1. PICK c \in todo[k] :
            /\ cache' = [cache EXCEPT ![c] = NotCached]
            /\ todo' = [todo EXCEPT ![k] = @ \ {c}]
            /\ key' = [key EXCEPT ![k] = c]
      BY <2>2 DEF Refresh
    <3>2. at[k] # "idle" /\ Goto(k, "lookup") /\ UNCHANGED <<outside, work, aborted, page>>
      BY <2>2 DEF Refresh
    <3>3. /\ c \in Keys /\ todo' \in [Keys -> SUBSET Keys]
          /\ key' \in [Procs -> Keys] /\ page' \in [Procs -> Statuses]
      BY <3>1, <3>2 DEF TypeOK
    <3>4. cache' \in [Keys -> {NotCached} \cup Statuses]
      BY <3>1 DEF TypeOK
    <3> QED
      BY <2>0, <3>2, <3>3, <3>4, StaysTyped
  <2>3. CASE Commit(k)
    <3>1. at[k] # "idle" /\ End(k) /\ UNCHANGED <<db, monitored, cache>>
      BY <2>3 DEF Commit
    <3> QED
      BY <1>0, <2>0, <3>1, EndTyped
  <2>4. CASE InsertFails(k)
    <3>1. at[k] # "idle" /\ End(k) /\ UNCHANGED <<outside, cache>>
      BY <2>4 DEF InsertFails
    <3> QED
      BY <1>0, <2>0, <3>1, EndTyped DEF outside
  <2>5. CASE CommitFails(k)
    <3>1. at[k] # "idle" /\ End(k) /\ UNCHANGED <<outside, cache>>
      BY <2>5 DEF CommitFails
    <3> QED
      BY <1>0, <2>0, <3>1, EndTyped DEF outside
  <2> QED
    BY <1>2, <2>1, <2>2, <2>3, <2>4, <2>5 DEF InsertStep
<1>3. ASSUME NEW k \in Keys, Expire(k) PROVE TypeOK'
  <2>1. cache' \in [Keys -> {NotCached} \cup Statuses]
    BY <1>3 DEF TypeOK, Expire
  <2> QED
    BY <1>3, <2>1 DEF TypeOK, Expire, outside
<1>4. ASSUME NEW r \in Readers, NEW k \in Keys, Request(r, k) PROVE TypeOK'
  <2>1. r \in Procs /\ Connects(r) /\ Goto(r, "lookup") /\ "lookup" \in Stages \ {"idle"}
    BY <1>4 DEF Request, Procs, Stages
  <2>2. UNCHANGED <<outside, cache, todo, aborted, page, work>>
    BY <1>4 DEF Request
  <2>3. key' \in [Procs -> Keys]
    BY <1>4 DEF Request, TypeOK
  <2> QED
    BY <1>0, <2>1, <2>2, <2>3, BeginsTyped
<1>5. ASSUME NEW p \in Procs, StatusByKeyStep(p) PROVE TypeOK'
  <2>0. /\ "results" \in Stages \ {"idle"} /\ "fill" \in Stages \ {"idle"}
        /\ cache \in [Keys -> {NotCached} \cup Statuses]
    BY DEF Stages, TypeOK
  <2>1. CASE LookupReturns(p)
    <3>1. at[p] # "idle" /\ Return(p) /\ UNCHANGED <<outside, cache>>
      BY <2>1 DEF LookupReturns
    <3> QED
      BY <2>0, <3>1, ReturnTyped
  <2>2. CASE LookupReadsEvents(p)
    <3>1. at[p] # "idle" /\ Goto(p, "results") /\ UNCHANGED <<outside, cache, work, todo, key>>
      BY <2>2 DEF LookupReadsEvents
    <3>2. PICK read \in Reads(p) :
            /\ page' = [page EXCEPT ![p].events = read.status.events]
            /\ aborted' = aborted \cup read.aborts
      BY <2>2 DEF LookupReadsEvents
    <3>3. /\ read.status \in Statuses /\ read.aborts \subseteq {p}
          /\ read.aborts # {} => db.faults
      BY ReadsTyped
    <3>4. page' \in [Procs -> Statuses]
      BY <3>2, <3>3 DEF TypeOK, Statuses
    <3>5. aborted' = aborted \/ (db.faults /\ aborted' = aborted \cup {p})
      BY <3>2, <3>3
    <3>6. todo' \in [Keys -> SUBSET Keys] /\ key' \in [Procs -> Keys]
      BY <3>1 DEF TypeOK
    <3> QED
      BY <2>0, <3>1, <3>4, <3>5, <3>6, StaysTyped
  <2>3. CASE ReadResults(p)
    <3>1. at[p] # "idle" /\ Goto(p, "fill") /\ UNCHANGED <<outside, cache, work, todo, key>>
      BY <2>3 DEF ReadResults
    <3>2. PICK read \in Reads(p) :
            /\ page' = [page EXCEPT ![p].results = read.status.results]
            /\ aborted' = aborted \cup read.aborts
      BY <2>3 DEF ReadResults
    <3>3. /\ read.status \in Statuses /\ read.aborts \subseteq {p}
          /\ read.aborts # {} => db.faults
      BY ReadsTyped
    <3>4. page' \in [Procs -> Statuses]
      BY <3>2, <3>3 DEF TypeOK, Statuses
    <3>5. aborted' = aborted \/ (db.faults /\ aborted' = aborted \cup {p})
      BY <3>2, <3>3
    <3>6. todo' \in [Keys -> SUBSET Keys] /\ key' \in [Procs -> Keys]
      BY <3>1 DEF TypeOK
    <3> QED
      BY <2>0, <3>1, <3>4, <3>5, <3>6, StaysTyped
  <2>4. CASE Fill(p)
    <3>1. at[p] # "idle" /\ Return(p) /\ UNCHANGED outside
      BY <2>4 DEF Fill
    <3>2. cache' \in [Keys -> {NotCached} \cup Statuses]
      BY <2>4 DEF Fill, TypeOK
    <3> QED
      BY <3>1, <3>2, ReturnTyped
  <2> QED
    BY <1>5, <2>1, <2>2, <2>3, <2>4 DEF StatusByKeyStep
<1>6. ASSUME NEW keys \in Configurations, Restart(keys) PROVE TypeOK'
  <2>1. /\ NoRows \in Statuses /\ (CHOOSE k \in Keys : TRUE) \in Keys
        /\ "idle" \in Stages
    BY SqlAssumption DEF NoRows, Statuses, Stages
  <2>2. Busy' = {} /\ db' = db /\ aborted' = {}
    BY <1>6 DEF Restart, Busy
  <2>3. Cardinality(Busy') <= db'.connections
    BY <2>2, PoolStep
  <2>4. /\ monitored' \in Configurations /\ cache' \in [Keys -> {NotCached} \cup Statuses]
        /\ at' \in [Procs -> Stages] /\ todo' \in [Keys -> SUBSET Keys]
        /\ key' \in [Procs -> Keys] /\ page' \in [Procs -> Statuses]
    BY <1>6, <2>1 DEF Restart
  <2> QED
    BY <1>0, <2>2, <2>3, <2>4 DEF TypeOK, Busy
<1>7. CASE UNCHANGED vars
  BY <1>7 DEF vars, TypeOK
<1> QED
  BY <1>1, <1>2, <1>3, <1>4, <1>5, <1>6, <1>7 DEF Next

\* Types, and rows that are good, whatever happens.
StoreInv == TypeOK /\ RowsGood

(***************************************************************************)
(* NewStore on an empty database makes a state of the store's types.       *)
(***************************************************************************)
LEMMA StoreInvInit == Init => StoreInv
<1> SUFFICES ASSUME Init PROVE StoreInv
  OBVIOUS
<1>1. RowsGood
  BY NoRowsGood DEF Init, RowsGood
<1>2. /\ NoRows \in Statuses /\ (CHOOSE k \in Keys : TRUE) \in Keys
      /\ "idle" \in Stages
  BY SqlAssumption DEF NoRows, Statuses, Stages
<1>3. Cardinality({p \in Procs : at[p] # "idle"}) <= db.connections
  <2>1. {p \in Procs : at[p] # "idle"} = {}
    BY DEF Init
  <2>2. db.connections \in Nat
    BY SqlAssumption DEF Init
  <2>3. Cardinality({p \in Procs : at[p] # "idle"}) = 0
    BY <2>1, FS_EmptySet
  <2> QED
    BY <2>2, <2>3
<1>4. /\ cache \in [Keys -> {NotCached} \cup Statuses]
      /\ at \in [Procs -> Stages] /\ todo \in [Keys -> SUBSET Keys]
      /\ key \in [Procs -> Keys] /\ page \in [Procs -> Statuses]
  BY <1>2 DEF Init
<1> QED
  BY <1>1, <1>2, <1>3, <1>4 DEF StoreInv, TypeOK, Init

(***************************************************************************)
(* No step leads out of them.                                              *)
(***************************************************************************)
LEMMA StoreInvStep == StoreInv /\ [Next]_vars => StoreInv'
BY TypeStep, RowsGoodStep DEF StoreInv

(***************************************************************************)
(* Every variable of the store keeps its type, no more transactions are    *)
(* open than the pool has connections, and a transaction that a failed     *)
(* statement has aborted is open, on a database where statements fail.     *)
(***************************************************************************)
THEOREM TypeCorrect == Spec => []TypeOK
BY StoreInvInit, StoreInvStep, PTL DEF Spec, StoreInv
-----------------------------------------------------------------------------
(* The refinement *)

(***************************************************************************)
(* What an open insertion would commit is one insertion into the rows that *)
(* are committed: nobody else changes these rows meanwhile.                *)
(***************************************************************************)
WorkIsInsertion ==
    \A k \in Keys : at[k] # "idle" =>
        \E success \in BOOLEAN : work[k] = Inserted(rows[k], success)

(***************************************************************************)
(* What page 1 shows of the rows after an insertion, clean-ups included,   *)
(* is what the abstract store makes of what page 1 showed before.          *)
(***************************************************************************)
LEMMA PageAfterInsert ==
    ASSUME NEW status \in GoodStatuses, NEW success \in BOOLEAN
    PROVE  LET before == Page(status)
               after  == Page(Inserted(status, success))
           IN  /\ after.results = Newest(Append(before.results, success), MaxResults)
               /\ after.events = Newest(EventsWith(before.results, before.events, success),
                                        MaxEvents)
<1> DEFINE rs == status.results
           es == status.events
           shownResults == Newest(rs, MaxResults)
           shownEvents == Newest(es, MaxEvents)
           more == Append(rs, success)
           new == EventsWith(rs, es, success)
<1>1. /\ rs \in Seq(BOOLEAN) /\ es \in Seq(EventTypes) /\ InStep(rs, es)
      /\ MaxResults \in Nat \ {0} /\ MaxEvents \in Nat \ {0}
  BY StoreAssumption DEF GoodStatuses, Statuses
<1>2. more \in Seq(BOOLEAN) /\ new \in Seq(EventTypes)
  BY <1>1, InStepAfterInsert
<1>3. Newest(ResultsCleaned(es, more), MaxResults) = Newest(more, MaxResults)
  BY <1>1, <1>2, NewestTwice DEF ResultsCleaned
<1>4. Newest(EventsCleaned(es, new), MaxEvents) = Newest(new, MaxEvents)
  BY <1>1, <1>2, NewestTwice DEF EventsCleaned
<1>5. Newest(more, MaxResults) = Newest(Append(shownResults, success), MaxResults)
  BY <1>1, NewestAfterAppend
<1>6. /\ shownResults = <<>> <=> rs = <<>>
      /\ rs # <<>> => LastOf(shownResults) = LastOf(rs)
  BY <1>1, NewestProperties
<1>7. Newest(new, MaxEvents)
        = Newest(EventsWith(shownResults, shownEvents, success), MaxEvents)
  <2>1. CASE rs = <<>>
    BY <1>6, <2>1 DEF EventsWith
  <2>2. CASE rs # <<>> /\ LastOf(rs) = success
    <3>1. new = es /\ EventsWith(shownResults, shownEvents, success) = shownEvents
      BY <1>6, <2>2 DEF EventsWith
    <3> QED
      BY <1>1, <3>1, NewestTwice
  <2>3. CASE rs # <<>> /\ LastOf(rs) # success
    <3>1. /\ new = Append(es, NewEventFromResult(success))
          /\ EventsWith(shownResults, shownEvents, success)
                = Append(shownEvents, NewEventFromResult(success))
      BY <1>6, <2>3 DEF EventsWith
    <3>2. NewEventFromResult(success) \in EventTypes
      BY DEF NewEventFromResult, EventTypes
    <3> QED
      BY <1>1, <3>1, <3>2, NewestAfterAppend
  <2> QED
    BY <2>1, <2>2, <2>3
<1>8. EventsInserted(status, success) = new
  BY <1>1 DEF EventsInserted, EventsWith, InStep
<1> HIDE DEF new, more
<1>9. Inserted(status, success)
        = [results |-> ResultsCleaned(es, more), events |-> EventsCleaned(es, new)]
  BY <1>8 DEF Inserted, more
<1> QED
  BY <1>3, <1>4, <1>5, <1>7, <1>9 DEF Page

(***************************************************************************)
(* Only commits and restarts change what is committed.                     *)
(***************************************************************************)
LEMMA RowsChange ==
    ASSUME [Next]_vars
    PROVE  \/ UNCHANGED rows
           \/ \E k \in Keys : Commit(k)
           \/ \E keys \in Configurations : Restart(keys)
<1>1. ASSUME NEW k \in Keys, NEW success \in BOOLEAN, Begin(k, success)
      PROVE  UNCHANGED rows
  BY <1>1 DEF Begin, outside
<1>2. ASSUME NEW k \in Keys, InsertStep(k) PROVE UNCHANGED rows \/ Commit(k)
  BY <1>2 DEF InsertStep, ListCacheKeys, Refresh, InsertFails, CommitFails, outside
<1>3. ASSUME NEW k \in Keys, Expire(k) PROVE UNCHANGED rows
  BY <1>3 DEF Expire, outside
<1>4. ASSUME NEW r \in Readers, NEW k \in Keys, Request(r, k) PROVE UNCHANGED rows
  BY <1>4 DEF Request, outside
<1>5. ASSUME NEW p \in Procs, StatusByKeyStep(p) PROVE UNCHANGED rows
  BY <1>5 DEF StatusByKeyStep, LookupReturns, LookupReadsEvents, ReadResults, Fill, outside
<1>6. CASE UNCHANGED vars
  BY <1>6 DEF vars
<1> QED
  BY <1>1, <1>2, <1>3, <1>4, <1>5, <1>6 DEF Next

(***************************************************************************)
(* No transaction begins in a step that is not its own Begin or Request,   *)
(* and the rows of an open insertion stay as Begin made them.              *)
(***************************************************************************)
LEMMA WorkStep == StoreInv /\ WorkIsInsertion /\ [Next]_vars => WorkIsInsertion'
<1> SUFFICES ASSUME StoreInv, WorkIsInsertion, [Next]_vars,
                    NEW k \in Keys, at'[k] # "idle"
             PROVE  \E success \in BOOLEAN : work'[k] = Inserted(rows'[k], success)
  BY DEF WorkIsInsertion
<1>1. /\ at \in [Procs -> Stages] /\ work \in [Keys -> Statuses] /\ rows \in [Keys -> Statuses]
      /\ k \in Procs /\ Keys \subseteq Procs /\ \A r \in Readers : r \notin Keys
  BY SqlAssumption DEF StoreInv, TypeOK, Procs
<1>2. ASSUME NEW c \in Keys, NEW success \in BOOLEAN, Begin(c, success)
      PROVE  \E s \in BOOLEAN : work'[k] = Inserted(rows'[k], s)
  <2>1. CASE k = c
    BY <1>1, <1>2, <2>1 DEF Begin, outside
  <2>2. CASE k # c
    BY <1>1, <1>2, <2>2 DEF Begin, Goto, outside, WorkIsInsertion
  <2> QED
    BY <2>1, <2>2
<1>3. ASSUME NEW p \in Procs, End(p), at[p] # "idle", rows'[k] = rows[k] \/ k = p
      PROVE  \E s \in BOOLEAN : work'[k] = Inserted(rows'[k], s)
  <2>1. k # p
    BY <1>1, <1>3 DEF End, Goto
  <2>2. at[k] # "idle" /\ work'[k] = work[k]
    BY <1>1, <1>3, <2>1 DEF End, Goto
  <2> QED
    BY <1>3, <2>1, <2>2 DEF WorkIsInsertion
<1>4. ASSUME NEW p \in Procs, at[p] # "idle", UNCHANGED <<rows, work>>,
             NEW stage, Goto(p, stage)
      PROVE  \E s \in BOOLEAN : work'[k] = Inserted(rows'[k], s)
  BY <1>1, <1>4 DEF Goto, WorkIsInsertion
<1>5. ASSUME NEW p \in Procs, at[p] # "idle", Return(p), UNCHANGED rows
      PROVE  \E s \in BOOLEAN : work'[k] = Inserted(rows'[k], s)
  BY <1>3, <1>4, <1>5 DEF Return
<1>6. ASSUME NEW c \in Keys, InsertStep(c)
      PROVE  \E s \in BOOLEAN : work'[k] = Inserted(rows'[k], s)
  <2>1. CASE ListCacheKeys(c)
    BY <1>1, <1>4, <2>1 DEF ListCacheKeys, outside
  <2>2. CASE Refresh(c)
    BY <1>1, <1>4, <2>2 DEF Refresh, outside
  <2>3. CASE Commit(c)
    BY <1>1, <1>3, <2>3 DEF Commit
  <2>4. CASE InsertFails(c)
    BY <1>1, <1>3, <2>4 DEF InsertFails, outside
  <2>5. CASE CommitFails(c)
    BY <1>1, <1>3, <2>5 DEF CommitFails, outside
  <2> QED
    BY <1>6, <2>1, <2>2, <2>3, <2>4, <2>5 DEF InsertStep
<1>7. ASSUME NEW c \in Keys, Expire(c)
      PROVE  \E s \in BOOLEAN : work'[k] = Inserted(rows'[k], s)
  BY <1>7 DEF Expire, outside, WorkIsInsertion
<1>8. ASSUME NEW r \in Readers, NEW c \in Keys, Request(r, c)
      PROVE  \E s \in BOOLEAN : work'[k] = Inserted(rows'[k], s)
  BY <1>1, <1>8 DEF Request, Goto, outside, WorkIsInsertion
<1>9. ASSUME NEW p \in Procs, StatusByKeyStep(p)
      PROVE  \E s \in BOOLEAN : work'[k] = Inserted(rows'[k], s)
  <2>1. CASE LookupReturns(p)
    BY <1>5, <2>1 DEF LookupReturns, outside
  <2>2. CASE LookupReadsEvents(p)
    BY <1>4, <2>2 DEF LookupReadsEvents, outside
  <2>3. CASE ReadResults(p)
    BY <1>4, <2>3 DEF ReadResults, outside
  <2>4. CASE Fill(p)
    BY <1>5, <2>4 DEF Fill, outside
  <2> QED
    BY <1>9, <2>1, <2>2, <2>3, <2>4 DEF StatusByKeyStep
<1>10. ASSUME NEW keys \in Configurations, Restart(keys) PROVE FALSE
  BY <1>1, <1>10 DEF Restart
<1>11. CASE UNCHANGED vars
  BY <1>11 DEF vars, WorkIsInsertion
<1> QED
  BY <1>2, <1>6, <1>7, <1>8, <1>9, <1>10, <1>11 DEF Next

(***************************************************************************)
(* Both stores go by the same rules.                                       *)
(***************************************************************************)
LEMMA SameRules ==
    /\ \A seq, n : Abstract!Newest(seq, n) = Newest(seq, n)
    /\ \A rs, es, success : Abstract!EventsWith(rs, es, success) = EventsWith(rs, es, success)
<1>1. \A seq, n : Abstract!Newest(seq, n) = Newest(seq, n)
  BY DEF Abstract!Newest, Newest
<1>2. /\ \A seq : Abstract!LastOf(seq) = LastOf(seq)
      /\ \A success : Abstract!NewEventFromResult(success) = NewEventFromResult(success)
  BY DEF Abstract!LastOf, LastOf, Abstract!NewEventFromResult, NewEventFromResult
<1>3. \A rs, es, success : Abstract!EventsWith(rs, es, success) = EventsWith(rs, es, success)
  BY <1>2 DEF Abstract!EventsWith, EventsWith
<1> QED
  BY <1>1, <1>3

(***************************************************************************)
(* Every step of the SQL store is one of the abstract store or none.       *)
(***************************************************************************)
LEMMA AbstractStep ==
    StoreInv /\ WorkIsInsertion /\ [Next]_vars => [Abstract!Next]_(Abstract!vars)
<1> SUFFICES ASSUME StoreInv, WorkIsInsertion, [Next]_vars
             PROVE  [Abstract!Next]_(Abstract!vars)
  OBVIOUS
<1> DEFINE results == [k \in Keys |-> Newest(rows[k].results, MaxResults)]
           events == [k \in Keys |-> Newest(rows[k].events, MaxEvents)]
<1>1. CASE UNCHANGED rows
  BY <1>1 DEF Abstract!vars
<1>2. ASSUME NEW k \in Keys, Commit(k) PROVE Abstract!Next
  <2>1. PICK success \in BOOLEAN : work[k] = Inserted(rows[k], success)
    BY <1>2 DEF Commit, WorkIsInsertion
  <2>2. rows \in [Keys -> GoodStatuses] /\ rows' = [rows EXCEPT ![k] = Inserted(rows[k], success)]
    BY <1>2, <2>1 DEF Commit, StoreInv, RowsGood
  <2>3. /\ Newest(Inserted(rows[k], success).results, MaxResults)
            = Newest(Append(results[k], success), MaxResults)
        /\ Newest(Inserted(rows[k], success).events, MaxEvents)
            = Newest(EventsWith(results[k], events[k], success), MaxEvents)
    BY <2>2, PageAfterInsert DEF Page
  <2>4. results' = [results EXCEPT ![k] = Newest(Append(@, success), MaxResults)]
    BY <2>2, <2>3
  <2>5. events' = [events EXCEPT ![k] = Newest(EventsWith(results[k], @, success), MaxEvents)]
    BY <2>2, <2>3
  <2>6. Abstract!InsertEndpointResult(k, success)
    BY <2>4, <2>5, SameRules DEF Abstract!InsertEndpointResult
  <2> QED
    BY <2>6 DEF Abstract!Next
<1>3. ASSUME NEW keys \in Configurations, Restart(keys) PROVE Abstract!Next
  <2>1. keys \in SUBSET Keys
    BY SqlAssumption
  <2>2. \A n \in Nat : Newest(<<>>, n) = <<>>
    BY DEF Newest
  <2>3. Abstract!DeleteAllEndpointStatusesNotInKeys(keys)
    BY <1>3, <2>2, StoreAssumption
       DEF Restart, NoRows, Abstract!DeleteAllEndpointStatusesNotInKeys
  <2> QED
    BY <2>1, <2>3 DEF Abstract!Next
<1> QED
  BY <1>1, <1>2, <1>3, RowsChange

(***************************************************************************)
(* What is committed changes like the abstract store: a commit is an       *)
(* insertion, a restart a deletion, and no clean-up deletes what page 1    *)
(* shows.                                                                  *)
(***************************************************************************)
THEOREM SqlImplementsStore == Spec => Implements
<1>1. Init => WorkIsInsertion
  BY DEF Init, WorkIsInsertion, Procs
<1>2. Init => Abstract!Init
  <2>1. \A n \in Nat : Newest(<<>>, n) = <<>>
    BY DEF Newest
  <2> QED
    BY <2>1, StoreAssumption DEF Init, NoRows, Abstract!Init
<1> QED
  BY <1>1, <1>2, StoreInvInit, StoreInvStep, WorkStep, AbstractStep, PTL
     DEF Spec, Implements, Abstract!Spec
-----------------------------------------------------------------------------
(* The cache, with one connection and no failures *)

Certain == db.connections = 1 /\ ~db.faults

\* The rows that a page of key k in the cache shows: an insertion that has
\* refreshed it, or had nothing to refresh, has put its own there.
Refreshed(k) ==
    IF at[k] \in {"refresh"} \cup Looking /\ k \notin todo[k] THEN work[k] ELSE rows[k]

CacheFits == \A k \in Keys : cache[k] \in {NotCached, Page(Refreshed(k))}

\* What getEndpointStatusByKey has read so far is what it would read again, and
\* an insertion puts no page back that it has yet to delete.
PageFits(p) ==
    /\ p \in Keys /\ at[p] \in Looking => key[p] \notin todo[p]
    /\ at[p] = "results" => page[p].events = Page(View(p, key[p])).events
    /\ at[p] = "fill" => page[p] = Page(View(p, key[p]))

CacheInv == Certain => CacheFits /\ \A p \in Procs : PageFits(p)

(***************************************************************************)
(* One connection: one transaction at a time.                              *)
(***************************************************************************)
LEMMA Alone ==
    ASSUME TypeOK, db.connections = 1, NEW p \in Busy, NEW q \in Busy
    PROVE  p = q
<1> SUFFICES ASSUME p # q PROVE FALSE
  OBVIOUS
<1>1. IsFiniteSet(Busy) /\ Cardinality(Busy) \in Nat /\ Cardinality(Busy) <= 1
  <2>1. Busy \in SUBSET Procs
    BY DEF Busy
  <2>2. IsFiniteSet(Busy) /\ Cardinality(Busy) \in Nat
    BY <2>1, FS_Subset, FS_CardinalityType, SqlAssumption
  <2> QED
    BY <2>2 DEF TypeOK, Busy
<1>2. IsFiniteSet({p}) /\ Cardinality({p}) = 1
  BY FS_Singleton
<1>3. IsFiniteSet({p} \cup {q}) /\ Cardinality({p} \cup {q}) = 2
  BY <1>2, FS_AddElement
<1>4. {p} \cup {q} \in SUBSET Busy
  OBVIOUS
<1>5. Cardinality({p} \cup {q}) <= Cardinality(Busy)
  BY <1>1, <1>4, FS_Subset
<1> QED
  BY <1>1, <1>3, <1>5

(***************************************************************************)
(* Without failures no transaction is aborted.                             *)
(***************************************************************************)
LEMMA NoneAborted == ASSUME TypeOK, ~db.faults PROVE aborted = {}
BY DEF TypeOK

(***************************************************************************)
(* With one connection and no failures no step makes a page in the cache,  *)
(* or one that is being assembled, differ from the rows it stands for: the *)
(* insertion that changes them refreshes their page first, and expires at  *)
(* worst the page of another key.                                          *)
(***************************************************************************)
LEMMA CacheStep == StoreInv /\ CacheInv /\ [Next]_vars => CacheInv'
<1> SUFFICES ASSUME StoreInv, CacheInv, [Next]_vars, Certain'
             PROVE  CacheFits' /\ \A p \in Procs : PageFits(p)'
  BY DEF CacheInv
<1>0. /\ TypeOK /\ aborted = {} /\ db.connections = 1 /\ ~db.faults
      /\ CacheFits /\ \A p \in Procs : PageFits(p)
  <2>1. db' = db
    BY DEF Next, Begin, InsertStep, ListCacheKeys, Refresh, Commit, InsertFails,
           CommitFails, Expire, Request, StatusByKeyStep, LookupReturns,
           LookupReadsEvents, ReadResults, Fill, Restart, outside, vars
  <2> QED
    BY <2>1, NoneAborted DEF Certain, CacheInv, StoreInv
<1>1. /\ at \in [Procs -> Stages] /\ todo \in [Keys -> SUBSET Keys]
      /\ rows \in [Keys -> Statuses] /\ work \in [Keys -> Statuses]
      /\ cache \in [Keys -> {NotCached} \cup Statuses]
      /\ key \in [Procs -> Keys] /\ page \in [Procs -> Statuses]
      /\ Keys \subseteq Procs /\ Readers \subseteq Procs
      /\ \A r \in Readers : r \notin Keys
  BY <1>0, SqlAssumption DEF TypeOK, Procs
<1>2. ASSUME NEW p \in Procs, NEW q \in Procs, at[p] # "idle", at[q] # "idle"
      PROVE  p = q
  BY <1>0, <1>2, Alone DEF Busy
<1> DEFINE Fits == CacheFits' /\ \A p \in Procs : PageFits(p)'
<1>3. ASSUME NEW k \in Keys, NEW success \in BOOLEAN, Begin(k, success)
      PROVE  Fits
  <2>1. /\ work' = [work EXCEPT ![k] = Inserted(rows[k], success)]
        /\ at' = [at EXCEPT ![k] = "insert"] /\ at[k] = "idle"
        /\ rows' = rows /\ cache' = cache /\ todo' = todo /\ key' = key /\ page' = page
    BY <1>3 DEF Begin, Connects, Goto, outside
  <2>2. ASSUME NEW c \in Keys PROVE Refreshed(c)' = Refreshed(c)
    BY <1>1, <2>1 DEF Refreshed, Looking
  <2>3. CacheFits'
    BY <1>0, <2>1, <2>2 DEF CacheFits
  <2>4. ASSUME NEW p \in Procs PROVE PageFits(p)'
    BY <1>0, <1>1, <2>1 DEF PageFits, View, Looking
  <2> QED
    BY <2>3, <2>4
<1>4. ASSUME NEW k \in Keys, ListCacheKeys(k) PROVE Fits
  <2>1. /\ todo' = [todo EXCEPT ![k] = {c \in Matches[k] : cache[c] # NotCached}]
        /\ at' = [at EXCEPT ![k] = "refresh"] /\ at[k] = "insert"
        /\ rows' = rows /\ cache' = cache /\ work' = work /\ key' = key /\ page' = page
    BY <1>4 DEF ListCacheKeys, Goto, outside
  <2>2. ASSUME NEW c \in Keys, c # k PROVE Refreshed(c)' = Refreshed(c)
    BY <1>1, <2>1, <2>2 DEF Refreshed, Looking
  <2>3. cache[k] = NotCached \/ Refreshed(k)' = Refreshed(k)
    <3>1. k \in Matches[k]
      BY SqlAssumption
    <3> QED
      BY <1>1, <2>1, <3>1 DEF Refreshed, Looking
  <2>4. CacheFits'
    BY <1>0, <2>1, <2>2, <2>3 DEF CacheFits
  <2>5. ASSUME NEW p \in Procs PROVE PageFits(p)'
    BY <1>0, <1>1, <2>1 DEF PageFits, View, Looking
  <2> QED
    BY <2>4, <2>5
<1>5. ASSUME NEW k \in Keys, Refresh(k) PROVE Fits
  <2>1. /\ at' = [at EXCEPT ![k] = "lookup"] /\ at[k] = "refresh"
        /\ rows' = rows /\ work' = work /\ page' = page
    BY <1>5 DEF Refresh, Goto, outside
  <2>2. PICK c \in todo[k] :
            /\ cache' = [cache EXCEPT ![c] = NotCached]
            /\ todo' = [todo EXCEPT ![k] = @ \ {c}]
            /\ key' = [key EXCEPT ![k] = c]
    BY <1>5 DEF Refresh
  <2>3. c \in Keys
    BY <1>1
  <2>4. ASSUME NEW d \in Keys, d # c PROVE Refreshed(d)' = Refreshed(d)
    BY <1>1, <2>1, <2>2, <2>4 DEF Refreshed, Looking
  <2>5. CacheFits'
    BY <1>0, <1>1, <2>2, <2>3, <2>4 DEF CacheFits
  <2>6. ASSUME NEW p \in Procs PROVE PageFits(p)'
    BY <1>0, <1>1, <2>1, <2>2 DEF PageFits, View, Looking
  <2> QED
    BY <2>5, <2>6
<1>6. ASSUME NEW k \in Keys, Commit(k) PROVE Fits
  <2>1. /\ rows' = [rows EXCEPT ![k] = work[k]] /\ cache' = cache
        /\ at[k] = "refresh" /\ todo[k] = {} /\ at' = [at EXCEPT ![k] = "idle"]
        /\ work' = [work EXCEPT ![k] = NoRows] /\ todo' = [todo EXCEPT ![k] = {}]
    BY <1>6 DEF Commit, End, Goto
  <2>2. ASSUME NEW c \in Keys PROVE Refreshed(c)' = Refreshed(c)
    BY <1>1, <2>1 DEF Refreshed, Looking
  <2>3. CacheFits'
    BY <1>0, <2>1, <2>2 DEF CacheFits
  <2>4. ASSUME NEW p \in Procs PROVE PageFits(p)'
    <3>1. at'[p] = "idle"
      BY <1>1, <1>2, <2>1
    <3> QED
      BY <3>1 DEF PageFits, Looking
  <2> QED
    BY <2>3, <2>4
<1>7. ASSUME NEW k \in Keys, InsertFails(k) \/ CommitFails(k) PROVE FALSE
  BY <1>0, <1>7 DEF InsertFails, CommitFails
<1>8. ASSUME NEW k \in Keys, Expire(k) PROVE Fits
  <2>1. /\ cache' = [cache EXCEPT ![k] = NotCached]
        /\ UNCHANGED <<at, rows, work, todo, key, page>>
    BY <1>8 DEF Expire, outside
  <2>2. CacheFits'
    BY <1>0, <1>1, <2>1 DEF CacheFits, Refreshed
  <2>3. ASSUME NEW p \in Procs PROVE PageFits(p)'
    BY <1>0, <2>1 DEF PageFits, View
  <2> QED
    BY <2>2, <2>3
<1>9. ASSUME NEW r \in Readers, NEW k \in Keys, Request(r, k) PROVE Fits
  <2>1. /\ key' = [key EXCEPT ![r] = k] /\ at' = [at EXCEPT ![r] = "lookup"]
        /\ UNCHANGED <<cache, rows, work, todo, page>>
    BY <1>9 DEF Request, Goto, outside
  <2>2. CacheFits'
    BY <1>0, <1>1, <2>1 DEF CacheFits, Refreshed
  <2>3. ASSUME NEW p \in Procs PROVE PageFits(p)'
    BY <1>0, <1>1, <2>1 DEF PageFits, View
  <2> QED
    BY <2>2, <2>3
<1>10. ASSUME NEW p \in Procs, Return(p), UNCHANGED rows, at[p] \in Looking
       PROVE  /\ \A k \in Keys : Refreshed(k)' = Refreshed(k)
              /\ \A q \in Procs : PageFits(q)'
  <2>1. CASE p \in Keys
    <3>1. /\ at' = [at EXCEPT ![p] = "refresh"] /\ UNCHANGED <<rows, work, todo>>
          /\ \A q \in Procs \ {p} : key'[q] = key[q] /\ page'[q] = page[q]
      BY <1>1, <1>10, <2>1 DEF Return, Goto
    <3>2. \A k \in Keys : Refreshed(k)' = Refreshed(k)
      BY <1>1, <1>10, <3>1 DEF Refreshed, Looking
    <3>3. ASSUME NEW q \in Procs PROVE PageFits(q)'
      BY <1>0, <1>1, <3>1 DEF PageFits, View, Looking
    <3> QED
      BY <3>2, <3>3
  <2>2. CASE p \notin Keys
    <3>1. /\ at' = [at EXCEPT ![p] = "idle"] /\ UNCHANGED <<rows, work, todo>>
          /\ \A q \in Procs \ {p} : key'[q] = key[q] /\ page'[q] = page[q]
      BY <1>1, <1>10, <2>2 DEF Return, End, Goto
    <3>2. \A k \in Keys : Refreshed(k)' = Refreshed(k)
      BY <1>1, <2>2, <3>1 DEF Refreshed, Looking
    <3>3. ASSUME NEW q \in Procs PROVE PageFits(q)'
      BY <1>0, <1>1, <3>1 DEF PageFits, View, Looking
    <3> QED
      BY <3>2, <3>3
  <2> QED
    BY <2>1, <2>2
<1>11. ASSUME NEW p \in Procs, LookupReturns(p) PROVE Fits
  <2>1. Return(p) /\ at[p] \in Looking /\ UNCHANGED <<rows, cache>>
    BY <1>11 DEF LookupReturns, Looking, outside
  <2>2. /\ \A k \in Keys : Refreshed(k)' = Refreshed(k)
        /\ \A q \in Procs : PageFits(q)'
    BY <1>10, <2>1
  <2> QED
    BY <1>0, <2>1, <2>2 DEF CacheFits
<1>12. ASSUME NEW p \in Procs, LookupReadsEvents(p) PROVE Fits
  <2>1. /\ at' = [at EXCEPT ![p] = "results"] /\ at[p] = "lookup"
        /\ UNCHANGED <<rows, cache, work, todo, key>>
    BY <1>12 DEF LookupReadsEvents, Goto, outside
  <2>2. page' = [page EXCEPT ![p].events = Page(View(p, key[p])).events]
    <3>1. \A read \in Reads(p) : read.status = Page(View(p, key[p]))
      BY <1>0 DEF Reads
    <3> QED
      BY <1>12, <3>1 DEF LookupReadsEvents
  <2>3. \A k \in Keys : Refreshed(k)' = Refreshed(k)
    BY <1>1, <2>1 DEF Refreshed, Looking
  <2>4. CacheFits'
    BY <1>0, <2>1, <2>3 DEF CacheFits
  <2>5. ASSUME NEW q \in Procs PROVE PageFits(q)'
    <3>1. CASE q = p
      <4>1. page'[p].events = Page(View(p, key[p])).events
        BY <1>1, <2>2 DEF Statuses
      <4> QED
        BY <1>0, <1>1, <2>1, <3>1, <4>1 DEF PageFits, View, Looking
    <3>2. CASE q # p
      BY <1>0, <1>1, <2>1, <2>2, <3>2 DEF PageFits, View
    <3> QED
      BY <3>1, <3>2
  <2> QED
    BY <2>4, <2>5
<1>13. ASSUME NEW p \in Procs, ReadResults(p) PROVE Fits
  <2>1. /\ at' = [at EXCEPT ![p] = "fill"] /\ at[p] = "results"
        /\ UNCHANGED <<rows, cache, work, todo, key>>
    BY <1>13 DEF ReadResults, Goto, outside
  <2>2. page' = [page EXCEPT ![p].results = Page(View(p, key[p])).results]
    <3>1. \A read \in Reads(p) : read.status = Page(View(p, key[p]))
      BY <1>0 DEF Reads
    <3> QED
      BY <1>13, <3>1 DEF ReadResults
  <2>3. \A k \in Keys : Refreshed(k)' = Refreshed(k)
    BY <1>1, <2>1 DEF Refreshed, Looking
  <2>4. CacheFits'
    BY <1>0, <2>1, <2>3 DEF CacheFits
  <2>5. ASSUME NEW q \in Procs PROVE PageFits(q)'
    <3>1. CASE q = p
      <4>1. page[p].events = Page(View(p, key[p])).events
        BY <1>0, <2>1 DEF PageFits
      <4>2. page'[p] = [results |-> Page(View(p, key[p])).results, events |-> page[p].events]
        BY <1>1, <2>2 DEF Statuses
      <4>3. page'[p] = Page(View(p, key[p]))
        BY <4>1, <4>2 DEF Page
      <4> QED
        BY <1>0, <1>1, <2>1, <3>1, <4>3 DEF PageFits, View, Looking
    <3>2. CASE q # p
      BY <1>0, <1>1, <2>1, <2>2, <3>2 DEF PageFits, View
    <3> QED
      BY <3>1, <3>2
  <2> QED
    BY <2>4, <2>5
<1>14. ASSUME NEW p \in Procs, Fill(p) PROVE Fits
  <2>1. /\ at[p] = "fill" /\ at[p] \in Looking /\ Return(p) /\ UNCHANGED rows
        /\ cache' = [cache EXCEPT ![key[p]] = page[p]]
    BY <1>14 DEF Fill, Looking, outside
  <2>2. /\ \A k \in Keys : Refreshed(k)' = Refreshed(k)
        /\ \A q \in Procs : PageFits(q)'
    BY <1>10, <2>1
  <2>3. page[p] = Page(View(p, key[p])) /\ (p \in Keys => key[p] \notin todo[p])
    BY <1>0, <2>1 DEF PageFits
  <2>4. View(p, key[p]) = Refreshed(key[p])
    <3>1. CASE p = key[p]
      BY <1>1, <2>1, <2>3, <3>1 DEF View, Refreshed
    <3>2. CASE p # key[p]
      <4>1. key[p] \in Keys /\ at[key[p]] = "idle"
        BY <1>1, <1>2, <2>1, <3>2
      <4> QED
        BY <3>2, <4>1 DEF View, Refreshed, Looking
    <3> QED
      BY <3>1, <3>2
  <2>5. CacheFits'
    BY <1>0, <1>1, <2>1, <2>2, <2>3, <2>4 DEF CacheFits
  <2> QED
    BY <2>2, <2>5
<1>15. ASSUME NEW keys \in Configurations, Restart(keys) PROVE Fits
  <2>1. /\ \A k \in Keys : cache'[k] = NotCached
        /\ \A p \in Procs : at'[p] = "idle"
    BY <1>15 DEF Restart
  <2> QED
    BY <2>1 DEF CacheFits, PageFits, Looking
<1>16. ASSUME UNCHANGED vars PROVE Fits
  BY <1>0, <1>16 DEF vars, CacheFits, Refreshed, PageFits, View
<1> HIDE DEF Fits
<1>17. ASSUME NEW k \in Keys, InsertStep(k) PROVE Fits
  BY <1>4, <1>5, <1>6, <1>7, <1>17 DEF InsertStep
<1>18. ASSUME NEW p \in Procs, StatusByKeyStep(p) PROVE Fits
  BY <1>11, <1>12, <1>13, <1>14, <1>18 DEF StatusByKeyStep
<1>19. Fits
  BY <1>3, <1>8, <1>9, <1>15, <1>16, <1>17, <1>18 DEF Next
<1> QED
  BY <1>19 DEF Fits

(***************************************************************************)
(* On SQLite, as long as no statement fails, a page in the cache is the    *)
(* page of the committed rows whenever no transaction is open, although it *)
(* was put there before the commit.                                        *)
(***************************************************************************)
THEOREM CacheStaysCurrent == Spec => []CacheIsCurrent
<1>1. Init => CacheInv
  BY SqlAssumption DEF Init, CacheInv, CacheFits, PageFits, Looking, Procs
<1>2. CacheInv => CacheIsCurrent
  <2> SUFFICES ASSUME CacheInv, Certain, \A p \in Procs : at[p] = "idle", NEW k \in Keys
               PROVE  cache[k] \in {NotCached, Page(rows[k])}
    BY DEF CacheIsCurrent, Certain
  <2> QED
    BY DEF CacheInv, CacheFits, Refreshed, Looking, Procs
<1> QED
  BY <1>1, <1>2, StoreInvInit, StoreInvStep, CacheStep, PTL DEF Spec

-----------------------------------------------------------------------------
(* Uptime: sums.  Its rows are a table of their own, next to those above. *)

(***************************************************************************)
(* A function that counts, unfolded into pairs of an argument and a number *)
(* up to its value.                                                        *)
(***************************************************************************)
Unfolded(f, S) == {p \in S \X (Nat \ {0}) : p[2] <= f[p[1]]}

(***************************************************************************)
(* An unfolded function is as finite as its domain, if it counts.          *)
(***************************************************************************)
LEMMA UnfoldedFinite ==
    ASSUME NEW S, IsFiniteSet(S), NEW f, \A x \in S : f[x] \in Nat
    PROVE  IsFiniteSet(Unfolded(f, S)) /\ Cardinality(Unfolded(f, S)) \in Nat
<1> DEFINE Of(x) == {x} \X (1..f[x])
           all == {Of(x) : x \in S}
           of == [x \in S |-> Of(x)]
<1>1. IsFiniteSet(all)
  <2>1. of \in Surjection(S, all)
    BY DEF Surjection
  <2> QED BY <2>1, FS_Surjection
<1>2. \A x \in S : IsFiniteSet(Of(x))
  <2> TAKE x \in S
  <2>1. f[x] \in Int /\ 1 \in Int
    OBVIOUS
  <2>2. IsFiniteSet(1..f[x])
    BY <2>1, FS_Interval
  <2>3. IsFiniteSet({x})
    BY FS_Singleton
  <2> QED BY <2>2, <2>3, FS_Product
<1>3. IsFiniteSet(UNION all)
  BY <1>1, <1>2, FS_UNION
<1>4. Unfolded(f, S) \subseteq UNION all
  BY DEF Unfolded
<1> QED BY <1>3, <1>4, FS_Subset, FS_CardinalityType

(***************************************************************************)
(* An argument adds its value.                                             *)
(***************************************************************************)
LEMMA UnfoldedWithout ==
    ASSUME NEW S, IsFiniteSet(S), NEW f, \A x \in S : f[x] \in Nat, NEW x \in S
    PROVE  Cardinality(Unfolded(f, S)) = f[x] + Cardinality(Unfolded(f, S \ {x}))
<1> DEFINE one == {x} \X (1..f[x])
           others == Unfolded(f, S \ {x})
<1>1. IsFiniteSet(S \ {x}) /\ \A y \in S \ {x} : f[y] \in Nat
  BY FS_RemoveElement
<1>2. IsFiniteSet(others) /\ Cardinality(others) \in Nat
  BY <1>1, UnfoldedFinite
<1>3. f[x] \in Nat /\ f[x] \in Int /\ 1 \in Int
  OBVIOUS
<1>4. IsFiniteSet(one) /\ Cardinality(one) = f[x]
  <2>1. IsFiniteSet({x}) /\ Cardinality({x}) = 1
    BY FS_Singleton
  <2>2. IsFiniteSet(1..f[x]) /\ Cardinality(1..f[x]) = IF 1 > f[x] THEN 0 ELSE f[x] - 1 + 1
    BY <1>3, FS_Interval
  <2>3. Cardinality(1..f[x]) = f[x]
    BY <1>3, <2>2
  <2>4. IsFiniteSet(one) /\ Cardinality(one) = Cardinality({x}) * Cardinality(1..f[x])
    BY <2>1, <2>2, FS_Product
  <2> QED BY <1>3, <2>1, <2>3, <2>4
<1>5. Unfolded(f, S) = one \cup others
  BY DEF Unfolded
<1>6. Cardinality(one \cap others) = 0
  <2>1. one \cap others = {}
    BY DEF Unfolded
  <2> QED BY <2>1, FS_EmptySet
<1>7. Cardinality(one \cup others)
        = Cardinality(one) + Cardinality(others) - Cardinality(one \cap others)
  BY <1>2, <1>4, FS_Union
<1>8. Cardinality(one \cup others) = f[x] + Cardinality(others)
  <2> HIDE DEF one, others
  <2> QED BY <1>2, <1>3, <1>4, <1>6, <1>7
<1> QED BY <1>5, <1>8

(***************************************************************************)
(* A sum of counts is a cardinality.  The recursive function of the fold   *)
(* exists, since the cardinalities satisfy its equation, and is the only   *)
(* one that does: a smallest set for which another one differed would have *)
(* a smaller one.                                                          *)
(***************************************************************************)
LEMMA SumIsCardinality ==
    ASSUME NEW S, IsFiniteSet(S), NEW f, \A x \in S : f[x] \in Nat
    PROVE  SumFunctionOnSet(f, S) = Cardinality(Unfolded(f, S))
<1> DEFINE Step(g) == [s \in SUBSET S |->
                IF s = {} THEN 0 ELSE f[CHOOSE x \in s : TRUE] + g[s \ {CHOOSE x \in s : TRUE}]]
           count == [s \in SUBSET S |-> Cardinality(Unfolded(f, s))]
           fold == CHOOSE g : g = Step(g)
<1>1. SumFunctionOnSet(f, S) = fold[S]
  BY DEF SumFunctionOnSet, FoldFunctionOnSet, MapThenFoldSet
<1>2. count = Step(count)
  <2> SUFFICES ASSUME NEW s \in SUBSET S
               PROVE  count[s] = Step(count)[s]
    OBVIOUS
  <2>0. IsFiniteSet(s) /\ \A x \in s : f[x] \in Nat
    BY FS_Subset
  <2>1. CASE s = {}
    <3>1. Unfolded(f, s) = {}
      BY <2>1 DEF Unfolded
    <3> QED BY <2>1, <3>1, FS_EmptySet
  <2>2. CASE s # {}
    <3> DEFINE x == CHOOSE x \in s : TRUE
    <3>1. x \in s
      BY <2>2
    <3>2. s \ {x} \in SUBSET S
      OBVIOUS
    <3> HIDE DEF x
    <3>3. Cardinality(Unfolded(f, s)) = f[x] + Cardinality(Unfolded(f, s \ {x}))
      BY <2>0, <3>1, UnfoldedWithout
    <3> QED BY <2>2, <3>2, <3>3 DEF x
  <2> QED BY <2>1, <2>2
<1>3. fold = Step(fold)
  <2> HIDE DEF count, Step
  <2> QED BY <1>2
<1> HIDE DEF fold
<1>4. fold = count
  <2> DEFINE Wrong == {s \in SUBSET S : fold[s] # count[s]}
  <2>1. CASE Wrong = {}
    <3>1. DOMAIN fold = SUBSET S /\ fold = [s \in SUBSET S |-> fold[s]]
      BY <1>3
    <3> QED BY <2>1, <3>1
  <2>2. CASE Wrong # {}
    <3>1. PICK s \in Wrong : \A r \in Wrong : <<r, s>> \notin StrictSubsetOrdering(S)
      <4>1. Wrong \subseteq FiniteSubsetsOf(S)
        BY FS_Subset DEF FiniteSubsetsOf
      <4> QED
        BY <2>2, <4>1, FS_StrictSubsetOrderingWellFounded, WFMin
    <3>2. fold[s] = Step(fold)[s] /\ count[s] = Step(count)[s]
      BY <1>2, <1>3
    <3>3. s # {}
      BY <3>2
    <3> DEFINE x == CHOOSE x \in s : TRUE
    <3>4. x \in s
      BY <3>3
    <3> HIDE DEF x
    <3>5. s \ {x} \in SUBSET S /\ <<s \ {x}, s>> \in StrictSubsetOrdering(S)
      BY <3>4 DEF StrictSubsetOrdering
    <3>6. fold[s \ {x}] = count[s \ {x}]
      BY <3>1, <3>5
    <3> HIDE DEF count
    <3>7. fold[s] = f[x] + fold[s \ {x}] /\ count[s] = f[x] + count[s \ {x}]
      BY <3>2, <3>3 DEF x
    <3> QED BY <3>6, <3>7
  <2> QED BY <2>1, <2>2
<1> QED BY <1>1, <1>4

\* A function that counts.
Counts(e) == IsFiniteSet(DOMAIN e) /\ \A h \in DOMAIN e : e[h] \in Nat

(***************************************************************************)
(* Totals are cardinalities.                                               *)
(***************************************************************************)
LEMMA TotalIsCardinality ==
    ASSUME NEW e, Counts(e), NEW S
    PROVE  /\ Total(e, S) = Cardinality(Unfolded(e, S \cap DOMAIN e))
           /\ IsFiniteSet(Unfolded(e, S \cap DOMAIN e))
           /\ Total(e, S) \in Nat
<1> DEFINE R == S \cap DOMAIN e
<1>1. IsFiniteSet(R) /\ \A h \in R : e[h] \in Nat
  BY FS_Subset DEF Counts
<1>2. Total(e, S) = SumFunctionOnSet(e, R)
  BY DEF Total
<1> HIDE DEF R
<1>3. IsFiniteSet(Unfolded(e, R)) /\ Cardinality(Unfolded(e, R)) \in Nat
  BY <1>1, UnfoldedFinite
<1>4. SumFunctionOnSet(e, R) = Cardinality(Unfolded(e, R))
  BY <1>1, SumIsCardinality
<1> QED BY <1>2, <1>3, <1>4 DEF R

(***************************************************************************)
(* Totals only depend on the counts that are not zero.                     *)
(***************************************************************************)
LEMMA SameTotal ==
    ASSUME NEW e, Counts(e), NEW f, Counts(f), NEW S, NEW T,
           \A h \in S \cap DOMAIN e : e[h] = 0 \/ (h \in T \cap DOMAIN f /\ f[h] = e[h]),
           \A h \in T \cap DOMAIN f : f[h] = 0 \/ (h \in S \cap DOMAIN e /\ f[h] = e[h])
    PROVE  Total(e, S) = Total(f, T)
<1>1. Unfolded(e, S \cap DOMAIN e) = Unfolded(f, T \cap DOMAIN f)
  BY DEF Unfolded, Counts
<1> QED BY <1>1, TotalIsCardinality

(***************************************************************************)
(* A total over more hours is no smaller.                                  *)
(***************************************************************************)
LEMMA TotalGrows ==
    ASSUME NEW e, Counts(e), NEW S, NEW T, S \cap DOMAIN e \subseteq T
    PROVE  Total(e, S) <= Total(e, T)
<1> DEFINE few == Unfolded(e, S \cap DOMAIN e)
           many == Unfolded(e, T \cap DOMAIN e)
<1>1. few \subseteq many
  BY DEF Unfolded
<1>2. /\ Total(e, S) = Cardinality(few)
      /\ Total(e, T) = Cardinality(many) /\ IsFiniteSet(many)
  BY TotalIsCardinality
<1> QED BY <1>1, <1>2, FS_Subset

(***************************************************************************)
(* Totals over disjoint hours add up.                                      *)
(***************************************************************************)
LEMMA TotalSplits ==
    ASSUME NEW e, Counts(e), NEW S, NEW T, S \cap T = {}
    PROVE  Total(e, S \cup T) = Total(e, S) + Total(e, T)
<1> DEFINE some == Unfolded(e, S \cap DOMAIN e)
           rest == Unfolded(e, T \cap DOMAIN e)
           all == Unfolded(e, (S \cup T) \cap DOMAIN e)
<1>1. all = some \cup rest /\ some \cap rest = {}
  BY DEF Unfolded
<1>2. /\ Total(e, S) = Cardinality(some) /\ IsFiniteSet(some)
      /\ Total(e, T) = Cardinality(rest) /\ IsFiniteSet(rest)
      /\ Total(e, S \cup T) = Cardinality(all)
  BY TotalIsCardinality
<1> HIDE DEF some, rest, all
<1>3. Cardinality(some \cup rest) = Cardinality(some) + Cardinality(rest) - Cardinality({})
  BY <1>1, <1>2, FS_Union
<1>4. Cardinality({}) = 0 /\ Cardinality(some) \in Nat /\ Cardinality(rest) \in Nat
  BY <1>2, FS_EmptySet, FS_CardinalityType
<1> QED BY <1>1, <1>2, <1>3, <1>4

(***************************************************************************)
(* The total of one entry.                                                 *)
(***************************************************************************)
LEMMA TotalOfOne ==
    ASSUME NEW e, Counts(e), NEW h \in DOMAIN e
    PROVE  Total(e, {h}) = e[h]
<1>1. {h} \cap DOMAIN e = {h} /\ {h} \ {h} = {}
  OBVIOUS
<1>2. Total(e, {h}) = Cardinality(Unfolded(e, {h}))
  BY <1>1, TotalIsCardinality
<1>3. IsFiniteSet({h}) /\ e[h] \in Nat
  BY FS_Singleton DEF Counts
<1>4. Cardinality(Unfolded(e, {h})) = e[h] + Cardinality(Unfolded(e, {h} \ {h}))
  BY <1>3, UnfoldedWithout
<1>5. Unfolded(e, {}) = {}
  BY DEF Unfolded
<1> QED BY <1>1, <1>2, <1>3, <1>4, <1>5, FS_EmptySet

(***************************************************************************)
(* Entries that are totals of disjoint groups of other entries have the    *)
(* same total as these: counting the executions of the groups one after    *)
(* the other counts every one of them once.                                *)
(***************************************************************************)
LEMMA TotalOfGroups ==
    ASSUME NEW e, Counts(e), NEW f, Counts(f),
           NEW S \in SUBSET DOMAIN f, NEW C \in SUBSET DOMAIN e, NEW group \in [C -> S],
           \A r \in S : f[r] = Total(e, {g \in C : group[g] = r})
    PROVE  Total(f, S) = Total(e, C)
<1> DEFINE part(r) == Unfolded(e, {g \in C : group[g] = r})
           number == [r \in S |-> CHOOSE b : b \in Bijection(1..f[r], part(r))]
           row == [p \in Unfolded(f, S) |-> number[p[1]][p[2]]]
<1>1. \A r \in S : number[r] \in Bijection(1..f[r], part(r))
  <2> TAKE r \in S
  <2>1. {g \in C : group[g] = r} \cap DOMAIN e = {g \in C : group[g] = r}
    OBVIOUS
  <2>2. f[r] = Cardinality(part(r)) /\ IsFiniteSet(part(r))
    BY <2>1, TotalIsCardinality
  <2>3. ExistsBijection(1..f[r], part(r))
    BY <2>2, FS_CardinalityType
  <2> QED BY <2>3 DEF ExistsBijection
<1>2. \A r \in S : /\ number[r] \in [1..f[r] -> part(r)]
                   /\ \A i, j \in 1..f[r] : number[r][i] = number[r][j] => i = j
                   /\ \A x \in part(r) : \E i \in 1..f[r] : number[r][i] = x
  <2> TAKE r \in S
  <2> DEFINE b == number[r]
             n == 1..f[r]
             P == part(r)
  <2>1. b \in Bijection(n, P)
    BY <1>1
  <2> HIDE DEF b, n, P
  <2>2. /\ b \in [n -> P] /\ \A i, j \in n : b[i] = b[j] => i = j
        /\ \A x \in P : \E i \in n : b[i] = x
    BY <2>1 DEF Bijection, Injection, Surjection, IsInjective
  <2> QED BY <2>2 DEF b, n, P
<1>3. \A p \in Unfolded(f, S) :
        p[1] \in S /\ p[2] \in 1..f[p[1]] /\ p = <<p[1], p[2]>>
  BY DEF Unfolded, Counts
<1>4. \A r \in S : \A i \in 1..f[r] : <<r, i>> \in Unfolded(f, S)
  BY DEF Unfolded, Counts
<1>5. \A r \in S : \A x \in part(r) : x \in Unfolded(e, C) /\ group[x[1]] = r
  BY DEF Unfolded
<1>6. \A x \in Unfolded(e, C) : group[x[1]] \in S /\ x \in part(group[x[1]])
  BY DEF Unfolded
<1> HIDE DEF part, number
<1>7. /\ row \in [Unfolded(f, S) -> Unfolded(e, C)]
      /\ \A p \in Unfolded(f, S) : row[p] = number[p[1]][p[2]] /\ row[p] \in part(p[1])
  <2>1. ASSUME NEW p \in Unfolded(f, S)
        PROVE  number[p[1]][p[2]] \in part(p[1]) /\ number[p[1]][p[2]] \in Unfolded(e, C)
    <3> DEFINE r == p[1]
               i == p[2]
    <3>1. r \in S /\ i \in 1..f[r]
      BY <1>3
    <3> HIDE DEF r, i
    <3>2. number[r] \in [1..f[r] -> part(r)]
      BY <1>2, <3>1
    <3>3. number[r][i] \in part(r)
      BY <3>1, <3>2
    <3> QED BY <1>5, <3>1, <3>3 DEF r, i
  <2> QED BY <2>1
<1> HIDE DEF row
<1>8. ASSUME NEW p \in Unfolded(f, S), NEW q \in Unfolded(f, S), row[p] = row[q]
      PROVE  p = q
  <2>1. row[p] \in part(p[1]) /\ row[q] \in part(q[1])
    BY <1>7
  <2>2. p[1] = q[1]
    BY <1>3, <1>5, <1>8, <2>1
  <2>3. number[p[1]][p[2]] = number[p[1]][q[2]]
    BY <1>7, <1>8, <2>2
  <2>4. p[2] = q[2]
    BY <1>2, <1>3, <2>2, <2>3
  <2> QED BY <1>3, <2>2, <2>4
<1>9. ASSUME NEW x \in Unfolded(e, C)
      PROVE  \E p \in Unfolded(f, S) : row[p] = x
  <2>1. PICK i \in 1..f[group[x[1]]] : number[group[x[1]]][i] = x
    BY <1>2, <1>6
  <2>2. <<group[x[1]], i>> \in Unfolded(f, S)
    BY <1>4, <1>6
  <2>3. row[<<group[x[1]], i>>] = x
    BY <1>7, <2>1, <2>2
  <2> QED BY <2>2, <2>3
<1>10. row \in Bijection(Unfolded(f, S), Unfolded(e, C))
  BY <1>7, <1>8, <1>9 DEF Bijection, Injection, Surjection, IsInjective
<1>11. S \cap DOMAIN f = S /\ C \cap DOMAIN e = C
  OBVIOUS
<1>12. /\ Total(f, S) = Cardinality(Unfolded(f, S)) /\ IsFiniteSet(Unfolded(f, S))
       /\ Total(e, C) = Cardinality(Unfolded(e, C))
  BY <1>11, TotalIsCardinality
<1> QED BY <1>10, <1>12, FS_Bijection DEF ExistsBijection
-----------------------------------------------------------------------------
(* Hours and days *)

(***************************************************************************)
(* The sizes are numbers, and in order.                                    *)
(***************************************************************************)
LEMMA Sizes ==
    /\ Day \in Nat \ {0} /\ Retention \in Nat \ {0} /\ Buffer \in Nat \ {0}
    /\ AgeThreshold \in Nat \ {0} /\ Horizon \in Nat \ {0} /\ CleanUpThreshold \in Nat
    /\ Retention >= Buffer /\ Buffer >= 2 * Day
    /\ AgeThreshold > Retention + 1 /\ CleanUpThreshold > Retention + 1
BY UptimeAssumption

(***************************************************************************)
(* What a division leaves is less than a divisor.                          *)
(***************************************************************************)
LEMMA Division ==
    ASSUME NEW d \in Nat \ {0}, NEW h \in Int
    PROVE  /\ h \div d \in Int /\ d * (h \div d) \in Int /\ (h \div d) * d = d * (h \div d)
           /\ d * (h \div d) <= h /\ h < d * (h \div d) + d
OBVIOUS

(***************************************************************************)
(* Multiples of a day are in the order of their factors.                   *)
(***************************************************************************)
LEMMA Order ==
    ASSUME NEW d \in Nat \ {0}, NEW a \in Int, NEW b \in Int
    PROVE  /\ d * a \in Int /\ d * b \in Int
           /\ d * a < d * b <=> a < b
           /\ d * a <= d * b <=> a <= b
           /\ d * (a + b) = d * a + d * b
           /\ d * (a - b) = d * a - d * b
           /\ d * (a + 1) = d * a + d
           /\ d * (b + 1) = d * b + d
OBVIOUS

(***************************************************************************)
(* The first hour of a day.                                                *)
(***************************************************************************)
LEMMA DayBegins ==
    ASSUME NEW h \in Int
    PROVE  /\ FlooredAtDay(h) \in Int
           /\ FlooredAtDay(h) <= h /\ h < FlooredAtDay(h) + Day
<1>1. /\ (h \div Day) * Day = Day * (h \div Day) /\ Day * (h \div Day) \in Int
      /\ Day * (h \div Day) <= h /\ h < Day * (h \div Day) + Day
  BY Division, Sizes
<1> QED BY <1>1 DEF FlooredAtDay

(***************************************************************************)
(* The multiple of a day that is closest below.                            *)
(***************************************************************************)
LEMMA SameDay ==
    ASSUME NEW h \in Int, NEW q \in Int,
           Day * q <= h, h < Day * q + Day
    PROVE  FlooredAtDay(h) = Day * q
<1> DEFINE b == h \div Day
<1>1. Day \in Nat \ {0}
  BY Sizes
<1>2. /\ b \in Int /\ b * Day = Day * b
      /\ Day * b \in Int /\ Day * q \in Int
      /\ Day * b <= h /\ h < Day * b + Day
  BY <1>1, Division, Order
<1> HIDE DEF b
<1>3. Day * (q + 1) = Day * q + Day /\ Day * (b + 1) = Day * b + Day
  BY <1>1, <1>2, Order
<1>4. Day * q < Day * (b + 1) /\ Day * b < Day * (q + 1)
  BY <1>1, <1>2, <1>3
<1>5. q < b + 1 /\ b < q + 1
  <2>1. b + 1 \in Int /\ q + 1 \in Int
    BY <1>2
  <2> QED BY <1>1, <1>2, <1>4, <2>1, Order
<1>6. b = q
  BY <1>2, <1>5
<1> QED BY <1>2, <1>6 DEF b, FlooredAtDay

(***************************************************************************)
(* Days do not overlap: what is before the beginning of a day is in a day  *)
(* that is over by then, and what is not begins no earlier.                *)
(***************************************************************************)
LEMMA DaysInOrder ==
    ASSUME NEW g \in Int, NEW h \in Int
    PROVE  /\ FlooredAtDay(FlooredAtDay(h)) = FlooredAtDay(h)
           /\ g < FlooredAtDay(h) => FlooredAtDay(g) + Day <= FlooredAtDay(h)
           /\ g >= FlooredAtDay(h) => FlooredAtDay(g) >= FlooredAtDay(h)
<1> DEFINE a == g \div Day
           b == h \div Day
<1>0. Day \in Nat \ {0}
  BY Sizes
<1>1. /\ a \in Int /\ b \in Int /\ FlooredAtDay(g) = Day * a /\ FlooredAtDay(h) = Day * b
      /\ Day * a \in Int /\ Day * b \in Int
  BY <1>0, Division DEF FlooredAtDay
<1>2. /\ Day * a <= g /\ g < Day * a + Day
      /\ Day * b <= h /\ h < Day * b + Day
  BY <1>0, Division
<1> HIDE DEF a, b
<1>3. FlooredAtDay(Day * b) = Day * b
  <2>1. Day * b <= Day * b /\ Day * b < Day * b + Day
    BY <1>0, <1>1
  <2> QED BY <1>1, <2>1, SameDay
<1>4. ASSUME g < Day * b PROVE Day * a + Day <= Day * b
  <2>1. Day * a < Day * b
    BY <1>0, <1>1, <1>2, <1>4
  <2>2. a < b
    BY <1>0, <1>1, <2>1, Order
  <2>3. a + 1 \in Int /\ a + 1 <= b
    BY <1>1, <2>2
  <2>4. Day * (a + 1) <= Day * b
    BY <1>0, <1>1, <2>3, Order
  <2>5. Day * (a + 1) = Day * a + Day
    BY <1>0, <1>1, Order
  <2> QED BY <2>4, <2>5
<1>5. ASSUME g >= Day * b PROVE Day * a >= Day * b
  <2>1. Day * (a + 1) = Day * a + Day /\ a + 1 \in Int
    BY <1>0, <1>1, Order
  <2>2. Day * b < Day * (a + 1)
    BY <1>0, <1>1, <1>2, <1>5, <2>1
  <2>3. b < a + 1
    BY <1>0, <1>1, <2>1, <2>2, Order
  <2>4. b <= a
    BY <1>1, <2>3
  <2> QED BY <1>0, <1>1, <2>4, Order
<1> QED BY <1>1, <1>3, <1>4, <1>5

(***************************************************************************)
(* The retention and the buffer are whole days.                            *)
(***************************************************************************)
LEMMA WholeDaysBefore ==
    ASSUME NEW h \in Int, NEW n \in {Retention, Buffer}
    PROVE  FlooredAtDay(h - n) = FlooredAtDay(h) - n
<1> DEFINE a == h \div Day
           k == n \div Day
<1>0. Day \in Nat \ {0} /\ n \in Nat /\ n % Day = 0
  BY UptimeAssumption
<1>1. k \in Int /\ n = Day * k
  BY <1>0
<1>2. /\ a \in Int /\ FlooredAtDay(h) = Day * a
      /\ Day * a \in Int /\ Day * a <= h /\ h < Day * a + Day
  BY <1>0, Division DEF FlooredAtDay
<1> HIDE DEF a, k
<1>3. Day * (a - k) = Day * a - n /\ a - k \in Int /\ h - n \in Int
  BY <1>0, <1>1, <1>2, Order
<1>4. Day * (a - k) <= h - n /\ h - n < Day * (a - k) + Day
  BY <1>0, <1>2, <1>3
<1> QED BY <1>2, <1>3, <1>4, SameDay

(***************************************************************************)
(* Hours have two halves.                                                  *)
(***************************************************************************)
LEMMA HourProperties ==
    ASSUME NEW t \in Int
    PROVE  /\ HourOf(t) \in Int /\ 2 * HourOf(t) <= t /\ t <= 2 * HourOf(t) + 1
           /\ \A n \in Int : HourOf(t - 2 * n) = HourOf(t) - n
           /\ HourOf(t + 1) \in {HourOf(t), HourOf(t) + 1}
BY DEF HourOf

-----------------------------------------------------------------------------
(* Entries of a store *)

\* Entries of a store at time t: none is of the future.
IsEntries(e, t) == Counts(e) /\ DOMAIN e \subseteq 0..HourOf(t)

(***************************************************************************)
(* One more execution: its hour has an entry with one more, the others     *)
(* stay as they were.                                                      *)
(***************************************************************************)
LEMMA CountedProperties ==
    ASSUME NEW t \in Nat, NEW e, IsEntries(e, t), NEW more,
           more = Counted(e, HourOf(t))
    PROVE  /\ IsEntries(more, t)
           /\ DOMAIN more = DOMAIN e \cup {HourOf(t)}
           /\ \A g \in DOMAIN e : g # HourOf(t) => more[g] = e[g]
           /\ more[HourOf(t)] =
                (IF HourOf(t) \in DOMAIN e THEN e[HourOf(t)] ELSE 0) + 1
<1> DEFINE h == HourOf(t)
<1>0. h \in Nat
  BY DEF HourOf
<1> HIDE DEF h
<1>1. more = [g \in DOMAIN e \cup {h} |->
                (IF g \in DOMAIN e THEN e[g] ELSE 0) + (IF g = h THEN 1 ELSE 0)]
  BY DEF h, Counted
<1>2. IsFiniteSet(DOMAIN e \cup {h})
  BY FS_AddElement DEF IsEntries, Counts
<1>3. DOMAIN e \subseteq 0..h /\ \A g \in DOMAIN e : e[g] \in Nat
  BY DEF h, IsEntries, Counts
<1>4. DOMAIN more = DOMAIN e \cup {h}
  BY <1>1
<1>5. \A g \in DOMAIN more : more[g] \in Nat
  BY <1>1, <1>3
<1>6. Counts(more) /\ DOMAIN more \subseteq 0..h
  BY <1>0, <1>2, <1>3, <1>4, <1>5 DEF Counts
<1>7. \A g \in DOMAIN e : g # h => more[g] = e[g]
  BY <1>1, <1>3
<1>8. more[h] = (IF h \in DOMAIN e THEN e[h] ELSE 0) + 1
  BY <1>1
<1> QED BY <1>4, <1>6, <1>7, <1>8 DEF h, IsEntries

(***************************************************************************)
(* NotTooOld keeps the entries of the retention and an hour, as they were. *)
(***************************************************************************)
LEMMA NotTooOldProperties ==
    ASSUME NEW t, NEW e, IsEntries(e, t), NEW kept, kept = NotTooOld(e, t)
    PROVE  /\ IsEntries(kept, t)
           /\ DOMAIN kept = {h \in DOMAIN e : 2 * h >= t - 2 * (Retention + 1)}
           /\ \A h \in DOMAIN kept : kept[h] = e[h]
<1> DEFINE D == {h \in DOMAIN e : 2 * h >= t - 2 * (Retention + 1)}
<1>1. kept = [h \in D |-> e[h]]
  BY DEF NotTooOld, Restrict
<1>2. D \subseteq DOMAIN e
  OBVIOUS
<1>3. IsFiniteSet(D)
  BY <1>2, FS_Subset DEF IsEntries, Counts
<1> HIDE DEF D
<1>4. IsEntries(kept, t)
  BY <1>1, <1>2, <1>3 DEF IsEntries, Counts
<1> QED BY <1>1, <1>2, <1>4 DEF D

(***************************************************************************)
(* The clean-up keeps those entries too, and leaves no entry that is too   *)
(* old.                                                                    *)
(***************************************************************************)
LEMMA CleanedUpProperties ==
    ASSUME NEW t, NEW e, IsEntries(e, t), NEW kept, kept = CleanedUp(e, t)
    PROVE  /\ IsEntries(kept, t) /\ DOMAIN kept \subseteq DOMAIN e
           /\ \A h \in DOMAIN e : 2 * h >= t - 2 * (Retention + 1) => h \in DOMAIN kept
           /\ \A h \in DOMAIN kept : kept[h] = e[h]
           /\ \/ \A h \in DOMAIN kept : 2 * h >= t - 2 * (Retention + 1)
              \/ \A h \in DOMAIN kept : ~ (t - 2 * h > 2 * AgeThreshold)
<1>1. CASE \E h \in DOMAIN e : t - 2 * h > 2 * AgeThreshold
  <2>1. kept = NotTooOld(e, t)
    BY <1>1 DEF CleanedUp
  <2>2. /\ IsEntries(kept, t)
        /\ DOMAIN kept = {h \in DOMAIN e : 2 * h >= t - 2 * (Retention + 1)}
        /\ \A h \in DOMAIN kept : kept[h] = e[h]
    BY <2>1, NotTooOldProperties
  <2> QED BY <2>2
<1>2. CASE ~ \E h \in DOMAIN e : t - 2 * h > 2 * AgeThreshold
  BY <1>2 DEF CleanedUp
<1> QED BY <1>1, <1>2

\* The first hour that a merge at time t keeps.
FirstOfBuffer(t) == FlooredAtDay(HourOf(t - 2 * Buffer))

\* The hours that a merge keeps, and those that it turns into days.
YoungIn(e, t) == {h \in DOMAIN e : h >= FirstOfBuffer(t)}

OldIn(e, t) == {h \in DOMAIN e : ~ h >= FirstOfBuffer(t) /\ 2 * h >= t - 2 * Retention}

\* The days of the latter, and those of one day.
DaysIn(e, t) == {FlooredAtDay(g) : g \in OldIn(e, t)}

OldOfDay(e, t, h) == {g \in OldIn(e, t) : FlooredAtDay(g) = h}

(***************************************************************************)
(* A merge keeps the hours of the buffer, and leaves one row for each day  *)
(* before them, with the total of its hours.                               *)
(***************************************************************************)
LEMMA MergedProperties ==
    ASSUME NEW t \in Nat, NEW e, IsEntries(e, t)
    PROVE  /\ IsEntries(Merged(e, t), t)
           /\ DOMAIN Merged(e, t) = YoungIn(e, t) \cup DaysIn(e, t)
           /\ \A h \in YoungIn(e, t) : Merged(e, t)[h] = e[h]
           /\ \A h \in DOMAIN Merged(e, t) \ YoungIn(e, t) :
                Merged(e, t)[h] = Total(e, OldOfDay(e, t, h))
<1> DEFINE merged == Merged(e, t)
           first == FirstOfBuffer(t)
           young == {h \in DOMAIN e : h >= first}
           old == {h \in DOMAIN e \ young : 2 * h >= t - 2 * Retention}
           days == {FlooredAtDay(g) : g \in old}
           D == young \cup days
<1>1. merged = [h \in D |-> IF h \in young THEN e[h]
                            ELSE Total(e, {g \in old : FlooredAtDay(g) = h})]
  BY DEF Merged, FirstOfBuffer
<1>2. old = OldIn(e, t) /\ young = YoungIn(e, t)
  BY DEF OldIn, YoungIn
<1>3. IsFiniteSet(DOMAIN e) /\ DOMAIN e \subseteq 0..HourOf(t) /\ HourOf(t) \in Nat
  BY DEF IsEntries, Counts, HourOf
<1>4. IsFiniteSet(young) /\ IsFiniteSet(old)
  BY <1>3, FS_Subset
<1>5. IsFiniteSet(days)
  <2> DEFINE dayOf == [g \in old |-> FlooredAtDay(g)]
  <2>1. dayOf \in Surjection(old, days)
    BY DEF Surjection
  <2> QED BY <1>4, <2>1, FS_Surjection
<1>6. IsFiniteSet(D)
  BY <1>4, <1>5, FS_Union
<1>7. \A g \in old : FlooredAtDay(g) \in 0..HourOf(t)
  <2> TAKE g \in old
  <2>1. g \in Int /\ 0 <= g /\ g <= HourOf(t)
    BY <1>3
  <2>2. FlooredAtDay(0) = 0
    BY Sizes DEF FlooredAtDay
  <2>3. FlooredAtDay(g) \in Int /\ FlooredAtDay(g) <= g
    BY <2>1, DayBegins
  <2>4. g >= FlooredAtDay(0) => FlooredAtDay(g) >= FlooredAtDay(0)
    BY <2>1, DaysInOrder
  <2> QED BY <1>3, <2>1, <2>2, <2>3, <2>4
<1>8. D \subseteq 0..HourOf(t)
  BY <1>3, <1>7
<1>9. \A S : Total(e, S) \in Nat
  BY TotalIsCardinality DEF IsEntries
<1>10. \A h \in young : e[h] \in Nat
  BY DEF IsEntries, Counts
<1>11. \A h \in D : merged[h] \in Nat
  BY <1>1, <1>9, <1>10
<1> HIDE DEF merged, old, young, days
<1>12. IsEntries(merged, t)
  BY <1>1, <1>6, <1>8, <1>11 DEF IsEntries, Counts
<1>13. days = DaysIn(e, t)
  BY <1>2 DEF days, DaysIn
<1>14. \A h : {g \in old : FlooredAtDay(g) = h} = OldOfDay(e, t, h)
  BY <1>2 DEF OldOfDay
<1>15. \A h \in DOMAIN merged \ young : merged[h] = Total(e, OldOfDay(e, t, h))
  BY <1>1, <1>14
<1>16. \A h \in young : merged[h] = e[h]
  BY <1>1
<1>17. DOMAIN merged = young \cup days
  BY <1>1
<1> QED BY <1>2, <1>12, <1>13, <1>15, <1>16, <1>17 DEF merged

(***************************************************************************)
(* What NotTooOld leaves is not too much for the clean-up of the memory    *)
(* store.                                                                  *)
(***************************************************************************)
LEMMA FewNotTooOld ==
    ASSUME NEW t \in Nat, NEW e, IsEntries(e, t)
    PROVE  Cardinality(DOMAIN NotTooOld(e, t)) <= CleanUpThreshold
<1> DEFINE h == HourOf(t)
           D == DOMAIN NotTooOld(e, t)
<1>1. h \in Int /\ 2 * h <= t /\ t <= 2 * h + 1
  BY HourProperties
<1>2. Retention \in Nat /\ CleanUpThreshold \in Nat /\ CleanUpThreshold > Retention + 1
  BY Sizes
<1>3. D = {g \in DOMAIN e : 2 * g >= t - 2 * (Retention + 1)} /\ DOMAIN e \subseteq 0..h
  BY NotTooOldProperties DEF IsEntries
<1> HIDE DEF h, D
<1>4. D \subseteq (h - Retention - 1)..h
  BY <1>1, <1>2, <1>3
<1>5. /\ h - Retention - 1 \in Int /\ ~ (h - Retention - 1 > h)
      /\ h - (h - Retention - 1) + 1 = Retention + 2
  BY <1>1, <1>2
<1>6. /\ IsFiniteSet((h - Retention - 1)..h)
      /\ Cardinality((h - Retention - 1)..h) = Retention + 2
  BY <1>1, <1>5, FS_Interval
<1>7. Cardinality(D) <= Retention + 2 /\ Cardinality(D) \in Nat
  BY <1>4, <1>6, FS_Subset, FS_CardinalityType
<1>8. Cardinality(D) <= CleanUpThreshold
  BY <1>2, <1>7
<1> QED BY <1>8 DEF D

(***************************************************************************)
(* The hours that a merge keeps begin with a day, at least the buffer and  *)
(* less than a day more before the hour of the merge.                      *)
(***************************************************************************)
LEMMA FirstOfBufferProperties ==
    ASSUME NEW t \in Nat
    PROVE  /\ FirstOfBuffer(t) \in Int
           /\ FirstOfBuffer(t) = FlooredAtDay(HourOf(t)) - Buffer
           /\ FlooredAtDay(FirstOfBuffer(t)) = FirstOfBuffer(t)
           /\ FirstOfBuffer(t) = FlooredAtDay(HourOf(t) - Buffer)
           /\ FirstOfBuffer(t) <= HourOf(t) - Buffer
           /\ HourOf(t) - FirstOfBuffer(t) + 1 <= Buffer + Day
<1> DEFINE h == HourOf(t)
<1>0. t \in Int /\ Buffer \in Int /\ Day \in Nat
  BY Sizes
<1>1. h \in Int /\ HourOf(t - 2 * Buffer) = h - Buffer
  BY <1>0, HourProperties
<1> HIDE DEF h
<1>2. h - Buffer \in Int
  BY <1>0, <1>1
<1>3. FlooredAtDay(h - Buffer) = FlooredAtDay(h) - Buffer
  BY <1>1, WholeDaysBefore
<1>4. /\ FlooredAtDay(h) \in Int
      /\ FlooredAtDay(h) <= h /\ h < FlooredAtDay(h) + Day
  BY <1>1, DayBegins
<1>5. FlooredAtDay(FlooredAtDay(h - Buffer)) = FlooredAtDay(h - Buffer)
  BY <1>2, DaysInOrder
<1>6. FirstOfBuffer(t) = FlooredAtDay(h) - Buffer
  BY <1>1, <1>3 DEF FirstOfBuffer
<1> QED BY <1>0, <1>1, <1>3, <1>4, <1>5, <1>6 DEF h

(***************************************************************************)
(* A merge gets down to its threshold: the young rows are hours of the     *)
(* buffer and of less than a day more, and the days that have a row begin  *)
(* in the retention, rounded to days, and before the buffer.               *)
(***************************************************************************)
LEMMA FewMerged ==
    ASSUME NEW t \in Nat, NEW e, IsEntries(e, t)
    PROVE  Cardinality(DOMAIN Merged(e, t)) <= MergeThreshold
<1> DEFINE h == HourOf(t)
           first == FirstOfBuffer(t)
           q == h \div Day
           kr == Retention \div Day
           kb == Buffer \div Day
           young == {g \in DOMAIN e : g >= first}
           days == {FlooredAtDay(g) : g \in OldIn(e, t)}
<1>0. /\ Day \in Nat \ {0} /\ Retention \in Nat /\ Buffer \in Nat /\ Retention >= Buffer
      /\ Retention % Day = 0 /\ Buffer % Day = 0
      /\ MergeThreshold = (Buffer + Day) + (Retention - Buffer) \div Day
  BY UptimeAssumption
<1>1. h \in Nat /\ 2 * h <= t /\ t <= 2 * h + 1
  BY HourProperties DEF HourOf
<1>2. /\ first \in Int /\ first = FlooredAtDay(h) - Buffer
      /\ FlooredAtDay(first) = first /\ h - first + 1 <= Buffer + Day /\ first <= h
  BY <1>0, <1>1, FirstOfBufferProperties
<1>3. /\ q \in Int /\ kr \in Int /\ kb \in Int
      /\ FlooredAtDay(h) = Day * q /\ Retention = Day * kr /\ Buffer = Day * kb
  <2>1. q \in Int /\ FlooredAtDay(h) = Day * q
    <3>1. q \in Int /\ q * Day = Day * q
      <4> HIDE DEF h
      <4> QED BY <1>0, <1>1, Division
    <3> QED BY <3>1 DEF FlooredAtDay
  <2>2. kr \in Int /\ Retention = Day * kr
    BY <1>0
  <2>3. kb \in Int /\ Buffer = Day * kb
    BY <1>0
  <2> QED BY <2>1, <2>2, <2>3
<1>4. (Retention - Buffer) \div Day = kr - kb /\ kr >= kb
  <2> HIDE DEF kr, kb
  <2>1. kr - kb \in Int /\ Day * (kr - kb) = Retention - Buffer
    BY <1>0, <1>3, Order
  <2> DEFINE x == (Retention - Buffer) \div Day
  <2>2. x \in Int /\ Day * x <= Retention - Buffer /\ Retention - Buffer < Day * x + Day
    BY <1>0, Division
  <2> HIDE DEF x
  <2>3. Day * (x + 1) = Day * x + Day /\ x + 1 \in Int /\ Day * x \in Int /\ Day * (x + 1) \in Int
    BY <1>0, <2>2, Order
  <2>4. Day * x <= Day * (kr - kb) /\ Day * (kr - kb) < Day * (x + 1)
    BY <1>0, <2>1, <2>2, <2>3
  <2>5. x <= kr - kb /\ kr - kb < x + 1
    BY <1>0, <2>1, <2>2, <2>3, <2>4, Order
  <2>6. x = kr - kb
    BY <2>1, <2>2, <2>5
  <2>7. Day * kr >= Day * kb
    BY <1>0, <1>3
  <2>8. kr >= kb
    BY <1>0, <1>3, <2>7, Order
  <2> QED BY <2>6, <2>8 DEF x
<1> HIDE DEF q, kr, kb
<1>5. DOMAIN Merged(e, t) = young \cup days
  <2>1. young = YoungIn(e, t) /\ days = DaysIn(e, t)
    BY DEF YoungIn, DaysIn
  <2> QED BY <2>1, MergedProperties
<1>6. IsFiniteSet(young) /\ Cardinality(young) \in Nat /\ Cardinality(young) <= Buffer + Day
  <2>1. young \subseteq first..h
    BY <1>1, <1>2 DEF IsEntries
  <2>2. IsFiniteSet(first..h) /\ Cardinality(first..h) = h - first + 1
    BY <1>1, <1>2, FS_Interval
  <2>3. IsFiniteSet(young) /\ Cardinality(young) <= Cardinality(first..h)
    BY <2>1, <2>2, FS_Subset
  <2>4. Cardinality(young) \in Nat
    BY <2>3, FS_CardinalityType
  <2> QED BY <1>0, <1>1, <1>2, <2>2, <2>3, <2>4
<1>7. IsFiniteSet(days) /\ Cardinality(days) \in Nat /\ Cardinality(days) <= kr - kb
  <2> DEFINE K == (q - kr)..(q - kb - 1)
             midnights == {Day * k : k \in K}
  <2>1. days \subseteq midnights
    <3> SUFFICES ASSUME NEW g \in OldIn(e, t)
                 PROVE  FlooredAtDay(g) \in midnights
      OBVIOUS
    <3> DEFINE k == g \div Day
    <3>1. g \in Int /\ g < first /\ 2 * g >= t - 2 * Retention
      BY <1>2 DEF OldIn, IsEntries
    <3>2. g \in Int /\ g < first /\ h - Retention <= g
      BY <1>0, <1>1, <3>1
    <3>3. k \in Int /\ FlooredAtDay(g) = Day * k
      BY <1>0, <3>2, Division DEF FlooredAtDay
    <3> HIDE DEF k
    <3>4. FlooredAtDay(g) + Day <= first
      BY <1>2, <3>2, DaysInOrder
    <3>5. FlooredAtDay(g) >= FlooredAtDay(h) - Retention
      <4>1. FlooredAtDay(h - Retention) = FlooredAtDay(h) - Retention
        BY <1>1, WholeDaysBefore
      <4>2. /\ h - Retention \in Int /\ FlooredAtDay(h - Retention) \in Int
            /\ FlooredAtDay(h - Retention) <= h - Retention
        BY <1>0, <1>1, DayBegins
      <4>3. g >= FlooredAtDay(h - Retention)
        BY <3>2, <4>2
      <4>4. FlooredAtDay(g) >= FlooredAtDay(h - Retention)
        BY <3>2, <4>2, <4>3, DaysInOrder
      <4> QED BY <4>1, <4>4
    <3>6. Day * (k + 1) = Day * k + Day /\ k + 1 \in Int
      BY <1>0, <3>3, Order
    <3>7. /\ q - kb \in Int /\ Day * (q - kb) = Day * q - Buffer
          /\ q - kr \in Int /\ Day * (q - kr) = Day * q - Retention
      BY <1>0, <1>3, Order
    <3>8. Day * (k + 1) <= Day * (q - kb) /\ Day * (q - kr) <= Day * k
      BY <1>2, <1>3, <3>3, <3>4, <3>5, <3>6, <3>7
    <3>9. k + 1 <= q - kb /\ q - kr <= k
      BY <1>0, <3>3, <3>6, <3>7, <3>8, Order
    <3>10. k \in K
      BY <1>3, <3>3, <3>9
    <3> QED BY <3>3, <3>10
  <2>2. IsFiniteSet(K) /\ Cardinality(K) = kr - kb
    <3>1. q - kr \in Int /\ q - kb - 1 \in Int
      BY <1>3
    <3>2. /\ IsFiniteSet(K)
          /\ Cardinality(K) = IF q - kr > q - kb - 1 THEN 0 ELSE q - kb - 1 - (q - kr) + 1
      BY <3>1, FS_Interval
    <3> HIDE DEF K
    <3> QED BY <1>3, <1>4, <3>2
  <2> HIDE DEF K
  <2>3. [k \in K |-> Day * k] \in Surjection(K, midnights)
    BY DEF Surjection
  <2>4. IsFiniteSet(midnights) /\ Cardinality(midnights) <= Cardinality(K)
    BY <2>2, <2>3, FS_Surjection
  <2> HIDE DEF midnights, days
  <2>5. IsFiniteSet(days) /\ Cardinality(days) <= Cardinality(midnights)
    BY <2>1, <2>4, FS_Subset
  <2>6. Cardinality(days) \in Nat /\ Cardinality(midnights) \in Nat
    BY <2>4, <2>5, FS_CardinalityType
  <2> QED BY <1>3, <2>2, <2>4, <2>5, <2>6
<1> HIDE DEF young, days, h, first
<1>8. Cardinality(young \cup days) <= Cardinality(young) + Cardinality(days)
  <2>1. Cardinality(young \cup days)
          = Cardinality(young) + Cardinality(days) - Cardinality(young \cap days)
    BY <1>6, <1>7, FS_Union
  <2>2. Cardinality(young \cap days) \in Nat
    BY <1>6, FS_Intersection, FS_CardinalityType
  <2> QED BY <1>6, <1>7, <2>1, <2>2
<1>9. Cardinality(young \cup days) \in Nat
  BY <1>6, <1>7, FS_Union, FS_CardinalityType
<1>10. MergeThreshold = (Buffer + Day) + (kr - kb)
  BY <1>0, <1>4
<1>11. Cardinality(young \cup days) <= MergeThreshold
  BY <1>0, <1>3, <1>6, <1>7, <1>8, <1>9, <1>10
<1> QED BY <1>5, <1>11

-----------------------------------------------------------------------------
(* What holds of the entries *)

\* The types.  Nothing was executed in the future.
UptimeTyped ==
    /\ now \in Nat /\ HourOf(now) \in Hours
    /\ ran \in [Hours -> Nat]
    /\ \A h \in Hours : h > HourOf(now) => ran[h] = 0
    /\ IsEntries(hourly, now) /\ IsEntries(uptimes, now)

\* The memory store has the hours of the retention as they were.
HourlyExact ==
    \A h \in Hours : h >= HourOf(now) - Retention =>
        IF h \in DOMAIN hourly THEN hourly[h] = ran[h] ELSE ran[h] = 0

DayOf(h) == {g \in Hours : FlooredAtDay(g) = h}

(***************************************************************************)
(* Of the rows e that are in the retention at time t, those from hour m on *)
(* are hours, and those before are days with all executions of the day.    *)
(* It says nothing of older rows, which a merge may have cut.              *)
(***************************************************************************)
DailyBefore(m, e, r, t) ==
    \A h \in Hours : 2 * h >= t - 2 * Retention =>
        /\ h >= m => IF h \in DOMAIN e THEN e[h] = r[h] ELSE r[h] = 0
        /\ h < m => IF h \in DOMAIN e
                    THEN h = FlooredAtDay(h) /\ e[h] = Total(r, DayOf(h))
                    ELSE h = FlooredAtDay(h) => \A g \in DayOf(h) : r[g] = 0

\* The hour in which the retention begins.
Edge(t) == HourOf(t) - Retention

(***************************************************************************)
(* The row of that hour may have begun before the retention and been cut,  *)
(* but it has no executions of other days.                                 *)
(***************************************************************************)
EdgeBefore(m, e, r, t) ==
    Edge(t) \in DOMAIN e =>
        /\ Edge(t) >= m => e[Edge(t)] = r[Edge(t)]
        /\ Edge(t) < m => /\ Edge(t) = FlooredAtDay(Edge(t))
                          /\ e[Edge(t)] <= Total(r, DayOf(Edge(t)))

\* m is where the last merge began to keep hours.
RowsDaily ==
    \E m \in Int : /\ m = FlooredAtDay(m) /\ m <= FirstOfBuffer(now)
                   /\ DailyBefore(m, uptimes, ran, now)
                   /\ EdgeBefore(m, uptimes, ran, now)

(***************************************************************************)
(* The executions are counts, too.                                         *)
(***************************************************************************)
LEMMA RanCounts ==
    ASSUME NEW r \in [Hours -> Nat]
    PROVE  Counts(r) /\ DOMAIN r = Hours
<1>1. Horizon \in Int /\ 0 \in Int
  BY Sizes
<1>2. IsFiniteSet(0..Horizon)
  BY <1>1, FS_Interval
<1> QED BY <1>2 DEF Counts, Hours

(***************************************************************************)
(* All of it holds of a store without entries.                             *)
(***************************************************************************)
LEMMA UptimeStart ==
    ASSUME UptimeInit
    PROVE  UptimeTyped /\ EntriesBounded /\ HourlyExact /\ RowsDaily
<1>0. HourOf(now) = 0 /\ now = 0 /\ 0 \in Hours
  BY Sizes DEF UptimeInit, HourOf, Hours
<1>1. /\ DOMAIN hourly = {} /\ DOMAIN uptimes = {}
      /\ ran \in [Hours -> Nat] /\ \A h \in Hours : ran[h] = 0
  BY DEF UptimeInit
<1>2. Counts(hourly) /\ Counts(uptimes)
  BY <1>1, FS_EmptySet DEF Counts
<1>3. UptimeTyped
  BY <1>0, <1>1, <1>2 DEF UptimeTyped, IsEntries
<1>4. HourlyExact
  BY <1>1 DEF HourlyExact
<1>5. RowsDaily
  <2> DEFINE m == FirstOfBuffer(now)
  <2>1. m \in Int /\ m = FlooredAtDay(m) /\ m <= m /\ m <= 0
    BY <1>0, Sizes, FirstOfBufferProperties
  <2>2. DailyBefore(m, uptimes, ran, now)
    BY <1>1 DEF DailyBefore, DayOf
  <2>3. EdgeBefore(m, uptimes, ran, now)
    BY <1>1 DEF EdgeBefore
  <2> QED BY <2>1, <2>2, <2>3 DEF RowsDaily
<1>6. EntriesBounded
  <2>1. Cardinality(DOMAIN hourly) = 0 /\ Cardinality(DOMAIN uptimes) = 0
    BY <1>1, FS_EmptySet
  <2>2. MergeThreshold >= 0
    <3>1. /\ Cardinality(DOMAIN Merged(uptimes, now)) <= MergeThreshold
          /\ IsFiniteSet(DOMAIN Merged(uptimes, now))
      BY <1>3, FewMerged, MergedProperties DEF UptimeTyped, IsEntries, Counts
    <3>2. Cardinality(DOMAIN Merged(uptimes, now)) \in Nat
      BY <3>1, FS_CardinalityType
    <3>3. MergeThreshold \in Int
      BY Sizes, UptimeAssumption
    <3> QED BY <3>1, <3>2, <3>3
  <2>3. CleanUpThreshold >= 0 /\ MergeThreshold >= 0 /\ ran[HourOf(now)] = 0
    BY <1>0, <1>1, <2>2, Sizes
  <2> QED BY <2>1, <2>3 DEF EntriesBounded
<1> QED BY <1>3, <1>4, <1>5, <1>6

(***************************************************************************)
(* Every step keeps the types.                                             *)
(***************************************************************************)
LEMMA TypedStep ==
    ASSUME UptimeTyped, [UptimeNext]_uptimeVars
    PROVE  UptimeTyped'
<1>1. CASE Execute
  <2> DEFINE h == HourOf(now)
  <2>1. now' = now /\ HourOf(now)' = h /\ h \in Hours /\ h \in Nat /\ now \in Nat
    BY <1>1 DEF Execute, UptimeTyped, HourOf
  <2>2. ran' \in [Hours -> Nat] /\ \A g \in Hours : g > h => ran'[g] = 0
    <3>1. ran' = [ran EXCEPT ![h] = ran[h] + 1]
      BY <1>1 DEF Execute
    <3> QED BY <2>1, <3>1 DEF UptimeTyped, Hours
  <2>3. /\ IsEntries(Counted(hourly, h), now)
        /\ IsEntries(Counted(uptimes, h), now)
    BY CountedProperties DEF UptimeTyped
  <2>4. IsEntries(hourly', now)
    <3>1. hourly' = NotTooOld(Counted(hourly, h), now) \/ hourly' = Counted(hourly, h)
      BY <1>1 DEF Execute, ProcessUptimeAfterResult
    <3> QED BY <2>3, <3>1, NotTooOldProperties
  <2>5. IsEntries(uptimes', now)
    <3>1. PICK more : /\ more = Counted(uptimes, h) \/ more = Merged(Counted(uptimes, h), now)
                      /\ uptimes' = CleanedUp(more, now)
      BY <1>1 DEF Execute, UpdateEndpointUptime
    <3>2. IsEntries(more, now)
      BY <2>1, <2>3, <3>1, MergedProperties
    <3> QED BY <3>1, <3>2, CleanedUpProperties
  <2>6. IsEntries(hourly, now)' /\ IsEntries(uptimes, now)'
    BY <2>1, <2>4, <2>5 DEF IsEntries, Counts
  <2> QED BY <2>1, <2>2, <2>6 DEF UptimeTyped, Hours
<1>2. CASE Wait
  <2>1. /\ now' = now + 1 /\ now \in Nat /\ HourOf(now + 1) <= Horizon
        /\ UNCHANGED <<ran, hourly, uptimes>>
    BY <1>2 DEF Wait, UptimeTyped
  <2>2. /\ HourOf(now)' = HourOf(now + 1) /\ HourOf(now) \in Nat /\ HourOf(now + 1) \in Nat
        /\ HourOf(now) <= HourOf(now + 1)
    BY <2>1 DEF HourOf
  <2>3. HourOf(now + 1) \in Hours
    BY <2>1, <2>2, Sizes DEF Hours
  <2>4. \A h \in Hours : h > HourOf(now + 1) => ran[h] = 0
    BY <2>2 DEF UptimeTyped, Hours
  <2>5. \A e : IsEntries(e, now) => Counts(e) /\ DOMAIN e \subseteq 0..HourOf(now + 1)
    BY <2>2 DEF IsEntries
  <2>6. IsEntries(hourly, now)' /\ IsEntries(uptimes, now)'
    BY <2>1, <2>2, <2>5 DEF UptimeTyped, IsEntries, Counts
  <2> QED BY <2>1, <2>2, <2>3, <2>4, <2>6 DEF UptimeTyped, Hours
<1>3. CASE UNCHANGED uptimeVars
  BY <1>3 DEF uptimeVars, UptimeTyped, IsEntries, Counts, HourOf, Hours
<1> QED BY <1>1, <1>2, <1>3 DEF UptimeNext

(***************************************************************************)
(* Every step keeps the entries few, and removes old rows when it runs.    *)
(***************************************************************************)
LEMMA BoundedStep ==
    ASSUME UptimeTyped, EntriesBounded, [UptimeNext]_uptimeVars
    PROVE  EntriesBounded'
<1>0. /\ Retention \in Nat /\ AgeThreshold \in Nat /\ AgeThreshold > Retention + 1
      /\ CleanUpThreshold \in Nat /\ MergeThreshold \in Int
  BY Sizes, UptimeAssumption
<1>1. CASE Execute
  <2> DEFINE h == HourOf(now)
             mine == Counted(hourly, h)
             more == Counted(uptimes, h)
  <2>1. /\ now \in Nat /\ h \in Nat /\ 2 * h <= now /\ now <= 2 * h + 1
        /\ now' = now /\ HourOf(now)' = h
    BY <1>1 DEF Execute, UptimeTyped, HourOf
  <2>2. IsEntries(mine, now) /\ IsEntries(more, now)
    BY CountedProperties DEF UptimeTyped
  <2>3. Cardinality(DOMAIN hourly') <= CleanUpThreshold
    <3>1. \/ /\ Cardinality(DOMAIN mine) > CleanUpThreshold
             /\ hourly' = NotTooOld(mine, now)
          \/ /\ ~ Cardinality(DOMAIN mine) > CleanUpThreshold
             /\ hourly' = mine
      BY <1>1 DEF Execute, ProcessUptimeAfterResult
    <3>2. Cardinality(DOMAIN mine) \in Nat
      BY <2>2, FS_CardinalityType DEF IsEntries, Counts
    <3> HIDE DEF mine
    <3>3. Cardinality(DOMAIN hourly') <= CleanUpThreshold
      BY <1>0, <2>1, <2>2, <3>1, <3>2, FewNotTooOld
    <3> QED BY <3>3
  <2>4. PICK rest : /\ IsEntries(rest, now) /\ uptimes' = CleanedUp(rest, now)
                    /\ Cardinality(DOMAIN rest) <= MergeThreshold
    <3>1. \/ /\ Cardinality(DOMAIN more) >= MergeThreshold
             /\ uptimes' = CleanedUp(Merged(more, now), now)
          \/ /\ ~ Cardinality(DOMAIN more) >= MergeThreshold
             /\ uptimes' = CleanedUp(more, now)
      BY <1>1 DEF Execute, UpdateEndpointUptime
    <3>2. Cardinality(DOMAIN more) \in Nat
      BY <2>2, FS_CardinalityType DEF IsEntries, Counts
    <3> HIDE DEF more
    <3>3. CASE uptimes' = CleanedUp(Merged(more, now), now)
      <4>1. IsEntries(Merged(more, now), now)
        BY <2>1, <2>2, MergedProperties
      <4>2. Cardinality(DOMAIN Merged(more, now)) <= MergeThreshold
        BY <2>1, <2>2, FewMerged
      <4> QED BY <3>3, <4>1, <4>2
    <3>4. CASE /\ ~ Cardinality(DOMAIN more) >= MergeThreshold
               /\ uptimes' = CleanedUp(more, now)
      BY <1>0, <2>2, <3>2, <3>4
    <3> QED BY <3>1, <3>3, <3>4
  <2>5. /\ IsEntries(uptimes', now) /\ DOMAIN uptimes' \subseteq DOMAIN rest
        /\ \/ \A g \in DOMAIN uptimes' : 2 * g >= now - 2 * (Retention + 1)
           \/ \A g \in DOMAIN uptimes' : ~ (now - 2 * g > 2 * AgeThreshold)
    BY <2>4, CleanedUpProperties
  <2>6. Cardinality(DOMAIN uptimes') <= MergeThreshold
    <3>1. IsFiniteSet(DOMAIN rest)
      BY <2>4 DEF IsEntries, Counts
    <3>2. IsFiniteSet(DOMAIN uptimes') /\ Cardinality(DOMAIN uptimes') <= Cardinality(DOMAIN rest)
      BY <2>5, <3>1, FS_Subset
    <3>3. Cardinality(DOMAIN uptimes') \in Nat /\ Cardinality(DOMAIN rest) \in Nat
      BY <3>1, <3>2, FS_CardinalityType
    <3>4. Cardinality(DOMAIN uptimes') <= MergeThreshold
      BY <1>0, <2>4, <3>2, <3>3
    <3> QED BY <3>4
  <2>7. \A g \in DOMAIN uptimes' : h - g <= AgeThreshold
    <3>1. \A g \in DOMAIN uptimes' : g \in Nat
      BY <2>5 DEF IsEntries
    <3> HIDE DEF h
    <3> QED BY <1>0, <2>1, <2>5, <3>1
  <2> QED BY <2>1, <2>3, <2>6, <2>7 DEF EntriesBounded
<1>2. CASE Wait
  <2>1. /\ now' = now + 1 /\ now \in Nat /\ HourOf(now + 1) <= Horizon
        /\ UNCHANGED <<ran, hourly, uptimes>>
    BY <1>2 DEF Wait, UptimeTyped
  <2>2. HourOf(now)' \in {HourOf(now), HourOf(now) + 1}
    BY <2>1, HourProperties DEF HourOf
  <2>3. CASE HourOf(now)' = HourOf(now)
    BY <2>1, <2>3 DEF EntriesBounded
  <2>4. CASE HourOf(now)' = HourOf(now) + 1
    <3>1. /\ HourOf(now) \in Nat /\ HourOf(now)' \in Hours /\ HourOf(now)' > HourOf(now)
      BY <2>1, <2>4, Sizes DEF HourOf, Hours
    <3>2. ran'[HourOf(now)'] = 0
      BY <2>1, <3>1 DEF UptimeTyped
    <3> QED BY <2>1, <3>2 DEF EntriesBounded
  <2> QED BY <2>2, <2>3, <2>4
<1>3. CASE UNCHANGED uptimeVars
  BY <1>3 DEF uptimeVars, EntriesBounded, HourOf
<1> QED BY <1>1, <1>2, <1>3 DEF UptimeNext

(***************************************************************************)
(* Every step keeps the entries of the memory store exact, the clean-up    *)
(* because what it removes is older than the retention.                    *)
(***************************************************************************)
LEMMA ExactStep ==
    ASSUME UptimeTyped, HourlyExact, [UptimeNext]_uptimeVars
    PROVE  HourlyExact'
<1>0. Retention \in Nat
  BY Sizes
<1>1. CASE Execute
  <2> DEFINE h == HourOf(now)
             mine == Counted(hourly, h)
  <2>1. /\ now \in Nat /\ h \in Nat /\ h \in Hours /\ 2 * h <= now /\ now <= 2 * h + 1
        /\ now' = now /\ HourOf(now)' = h
    BY <1>1 DEF Execute, UptimeTyped, HourOf
  <2>2. /\ DOMAIN mine = DOMAIN hourly \cup {h}
        /\ \A g \in DOMAIN hourly : g # h => mine[g] = hourly[g]
        /\ mine[h] = (IF h \in DOMAIN hourly THEN hourly[h] ELSE 0) + 1
        /\ IsEntries(mine, now)
    <3>1. IsEntries(hourly, now)
      BY DEF UptimeTyped
    <3> HIDE DEF mine
    <3>2. mine = Counted(hourly, HourOf(now))
      BY DEF mine
    <3>3. now \in Nat
      BY <2>1
    <3>4. IsEntries(mine, now) /\ DOMAIN mine = DOMAIN hourly \cup {h}
      BY ONLY <3>1, <3>2, <3>3, CountedProperties
    <3>5. ASSUME NEW g \in DOMAIN hourly, g # h
          PROVE  mine[g] = hourly[g]
      <4>1. mine[g] = hourly[g] + 0 /\ hourly[g] \in Nat
        BY <3>1, <3>5 DEF mine, Counted, IsEntries, Counts
      <4> QED BY <4>1
    <3>6. mine[h] = (IF h \in DOMAIN hourly THEN hourly[h] ELSE 0) + 1
      BY ONLY <3>1, <3>2, <3>3, CountedProperties
    <3> QED BY <3>4, <3>5, <3>6
  <2>3. /\ ran'[h] = ran[h] + 1 /\ \A g \in Hours : g # h => ran'[g] = ran[g]
    BY <1>1, <2>1 DEF Execute, UptimeTyped
  <2>4. hourly' = NotTooOld(mine, now) \/ hourly' = mine
    BY <1>1 DEF Execute, ProcessUptimeAfterResult
  <2>5. IF h \in DOMAIN hourly THEN hourly[h] = ran[h] ELSE ran[h] = 0
    BY <1>0, <2>1 DEF HourlyExact
  <2> HIDE DEF mine, h
  <2>6. ASSUME NEW g \in Hours, g >= h - Retention
        PROVE  IF g \in DOMAIN mine THEN mine[g] = ran'[g] ELSE ran'[g] = 0
    <3>1. CASE g = h
      BY <2>2, <2>3, <2>5, <3>1
    <3>2. CASE g # h
      <4>1. IF g \in DOMAIN hourly THEN hourly[g] = ran[g] ELSE ran[g] = 0
        BY <2>6 DEF HourlyExact, h
      <4> QED BY <2>2, <2>3, <3>2, <4>1
    <3> QED BY <3>1, <3>2
  <2>7. ASSUME NEW g \in Hours, g >= h - Retention
        PROVE  /\ g \in DOMAIN hourly' <=> g \in DOMAIN mine
               /\ g \in DOMAIN mine => hourly'[g] = mine[g]
    <3>1. CASE hourly' = mine
      BY <3>1
    <3>2. CASE hourly' = NotTooOld(mine, now)
      <4>1. /\ DOMAIN hourly' = {k \in DOMAIN mine : 2 * k >= now - 2 * (Retention + 1)}
            /\ \A k \in DOMAIN hourly' : hourly'[k] = mine[k]
        <5>1. IsEntries(mine, now) /\ hourly' = NotTooOld(mine, now)
          BY <2>2, <3>2
        <5> QED BY ONLY <5>1, NotTooOldProperties
      <4>2. 2 * g >= now - 2 * (Retention + 1)
        BY <1>0, <2>1, <2>7 DEF Hours
      <4> QED BY <4>1, <4>2
    <3> QED BY <2>4, <3>1, <3>2
  <2>8. Hours' = Hours
    BY DEF Hours
  <2> QED BY <2>1, <2>6, <2>7, <2>8 DEF HourlyExact
<1>2. CASE Wait
  <2>1. now \in Nat /\ now' = now + 1 /\ UNCHANGED <<ran, hourly, uptimes>>
    BY <1>2 DEF Wait, UptimeTyped
  <2>2. HourOf(now)' >= HourOf(now) /\ HourOf(now)' \in Int /\ HourOf(now) \in Int
    BY <2>1 DEF HourOf
  <2>3. \A g \in Hours :
          g >= HourOf(now)' - Retention => g >= HourOf(now) - Retention
    BY <1>0, <2>2 DEF Hours
  <2> QED BY <2>1, <2>3 DEF HourlyExact, Hours
<1>3. CASE UNCHANGED uptimeVars
  BY <1>3 DEF uptimeVars, HourlyExact, HourOf, Hours
<1> QED BY <1>1, <1>2, <1>3 DEF UptimeNext

(***************************************************************************)
(* The memory store answers with what was executed.                        *)
(***************************************************************************)
LEMMA ExactMemory ==
    ASSUME UptimeTyped, HourlyExact
    PROVE  MemoryUptimeIsExact
<1> SUFFICES ASSUME NEW w \in 1..Retention, NEW from \in {now - 2 * w, ChartStart(w)}
             PROVE  InMemory(from) = Total(ran, {h \in Hours : h >= HourOf(from)})
  BY DEF MemoryUptimeIsExact, Starts, ChartStarts
<1> DEFINE t == HourOf(now)
           young == {h \in Hours : h >= t - w}
<1>1. now \in Nat /\ t \in Nat /\ Retention \in Nat /\ w \in Nat /\ w <= Retention
  BY Sizes DEF UptimeTyped, HourOf
<1>2. HourOf(from) = t - w
  <2>1. HourOf(now - 2 * w) = t - w
    BY <1>1, HourProperties
  <2>2. HourOf(2 * (t - w)) = t - w
    BY <1>1 DEF HourOf
  <2> QED BY <2>1, <2>2 DEF ChartStart
<1>3. Counts(hourly) /\ DOMAIN hourly \subseteq 0..t /\ Counts(ran) /\ DOMAIN ran = Hours
  BY RanCounts DEF UptimeTyped, IsEntries
<1>4. t \in Hours /\ \A h \in Hours : h \in Nat /\ (h > t => ran[h] = 0)
  BY DEF UptimeTyped, Hours
<1>5. 0..t \subseteq Hours
  BY <1>1, <1>4, Sizes DEF Hours
<1>6. \A h \in Hours : h >= t - Retention =>
        IF h \in DOMAIN hourly THEN hourly[h] = ran[h] ELSE ran[h] = 0
  BY DEF HourlyExact
<1> HIDE DEF t
<1> DEFINE asked == (t - w)..t
<1>7. \A h \in asked \cap DOMAIN hourly :
        hourly[h] = 0 \/ (h \in young \cap DOMAIN ran /\ ran[h] = hourly[h])
  BY <1>1, <1>3, <1>5, <1>6
<1>8. \A h \in young \cap DOMAIN ran :
        ran[h] = 0 \/ (h \in asked \cap DOMAIN hourly /\ ran[h] = hourly[h])
  BY <1>1, <1>3, <1>4, <1>6
<1> HIDE DEF young, asked
<1>9. Total(hourly, asked) = Total(ran, young)
  BY <1>3, <1>7, <1>8, SameTotal
<1> QED BY <1>2, <1>9 DEF InMemory, t, young, asked

(***************************************************************************)
(* The hours of one day, which are all before the day that begins at m or  *)
(* all behind its beginning.                                               *)
(***************************************************************************)
LEMMA DayOfProperties ==
    ASSUME NEW m \in Int, m = FlooredAtDay(m), NEW h \in Hours
    PROVE  /\ h \in Int /\ FlooredAtDay(h) \in Hours
           /\ h \in DayOf(FlooredAtDay(h))
           /\ h < m => FlooredAtDay(h) + Day <= m
           /\ h >= m => FlooredAtDay(h) >= m
           /\ \A g \in DayOf(h) : g \in Hours /\ h <= g /\ g < h + Day /\ FlooredAtDay(g) = h
<1>1. Horizon \in Nat /\ Day \in Nat \ {0}
  BY Sizes
<1>2. h \in Nat /\ h <= Horizon /\ \A g \in Hours : g \in Int
  BY <1>1 DEF Hours
<1>3. FlooredAtDay(h) \in Int /\ FlooredAtDay(h) <= h
  BY <1>2, DayBegins
<1>4. FlooredAtDay(0) = 0
  BY <1>1 DEF FlooredAtDay
<1>5. FlooredAtDay(h) >= 0
  BY <1>2, <1>4, DaysInOrder
<1>6. FlooredAtDay(h) \in Hours
  BY <1>1, <1>2, <1>3, <1>5 DEF Hours
<1>7. /\ h < m => FlooredAtDay(h) + Day <= m
      /\ h >= m => FlooredAtDay(h) >= m
  BY <1>2, DaysInOrder
<1>8. ASSUME NEW g \in DayOf(h)
      PROVE  g \in Hours /\ h <= g /\ g < h + Day /\ FlooredAtDay(g) = h
  <2>1. g \in Hours /\ g \in Int /\ FlooredAtDay(g) = h
    BY <1>2 DEF DayOf
  <2> QED BY <2>1, DayBegins
<1> QED BY <1>2, <1>6, <1>7, <1>8 DEF DayOf

(***************************************************************************)
(* One more execution, which is never in a day that was merged.            *)
(***************************************************************************)
LEMMA DailyCounted ==
    ASSUME NEW t \in Nat, NEW this, this = HourOf(t), this \in Hours,
           NEW e, IsEntries(e, t), NEW r \in [Hours -> Nat],
           NEW m \in Int, m = FlooredAtDay(m), m <= FirstOfBuffer(t), DailyBefore(m, e, r, t)
    PROVE  DailyBefore(m, Counted(e, this), [r EXCEPT ![this] = r[this] + 1], t)
<1> DEFINE more == Counted(e, this)
           s == [r EXCEPT ![this] = r[this] + 1]
<1>1. /\ Retention \in Nat /\ Buffer \in Nat \ {0} /\ this \in Nat
      /\ 2 * this <= t /\ t <= 2 * this + 1
      /\ \A h \in Hours : h \in Nat
  BY Sizes, HourProperties DEF Hours
<1>2. m < this
  BY <1>1, FirstOfBufferProperties
<1>3. s \in [Hours -> Nat] /\ s[this] = r[this] + 1 /\ \A h \in Hours : h # this => s[h] = r[h]
  OBVIOUS
<1>4. /\ DOMAIN more = DOMAIN e \cup {this}
      /\ \A h \in DOMAIN e : h # this => more[h] = e[h] + 0
      /\ more[this] = (IF this \in DOMAIN e THEN e[this] ELSE 0) + 1
      /\ \A h \in DOMAIN e : e[h] \in Nat
  BY DEF Counted, IsEntries, Counts
<1>5. /\ Counts(r) /\ DOMAIN r = Hours /\ Counts(s) /\ DOMAIN s = Hours
  BY <1>3, RanCounts
<1> HIDE DEF more, s
<1>6. ASSUME NEW h \in Hours, 2 * h >= t - 2 * Retention, h >= m
      PROVE  IF h \in DOMAIN more THEN more[h] = s[h] ELSE s[h] = 0
  <2>1. IF h \in DOMAIN e THEN e[h] = r[h] ELSE r[h] = 0
    BY <1>6 DEF DailyBefore
  <2>2. CASE h = this
    BY <1>3, <1>4, <2>1, <2>2
  <2>3. CASE h # this
    BY <1>3, <1>4, <2>1, <2>3
  <2> QED BY <2>2, <2>3
<1>7. ASSUME NEW h \in Hours, 2 * h >= t - 2 * Retention, h < m
      PROVE  IF h \in DOMAIN more
             THEN h = FlooredAtDay(h) /\ more[h] = Total(s, DayOf(h))
             ELSE h = FlooredAtDay(h) => \A g \in DayOf(h) : s[g] = 0
  <2>1. h # this /\ h \in Int
    BY <1>1, <1>2, <1>7
  <2>2. IF h \in DOMAIN e
        THEN h = FlooredAtDay(h) /\ e[h] = Total(r, DayOf(h))
        ELSE h = FlooredAtDay(h) => \A g \in DayOf(h) : r[g] = 0
    BY <1>7 DEF DailyBefore
  <2>3. h = FlooredAtDay(h) => \A g \in DayOf(h) : g \in Hours /\ s[g] = r[g]
    <3> SUFFICES ASSUME h = FlooredAtDay(h), NEW g \in DayOf(h)
                 PROVE  g \in Hours /\ s[g] = r[g]
      OBVIOUS
    <3>1. g \in Hours /\ g < h + Day /\ FlooredAtDay(h) + Day <= m
      BY <1>7, DayOfProperties
    <3>2. g # this
      BY <1>1, <1>2, <2>1, <3>1, Sizes
    <3> QED BY <1>3, <3>1, <3>2
  <2>4. h = FlooredAtDay(h) => Total(s, DayOf(h)) = Total(r, DayOf(h))
    <3> SUFFICES ASSUME h = FlooredAtDay(h)
                 PROVE  Total(s, DayOf(h)) = Total(r, DayOf(h))
      OBVIOUS
    <3>1. /\ \A g \in DayOf(h) \cap DOMAIN s : g \in DayOf(h) \cap DOMAIN r /\ r[g] = s[g]
          /\ \A g \in DayOf(h) \cap DOMAIN r : g \in DayOf(h) \cap DOMAIN s /\ r[g] = s[g]
      BY <1>5, <2>3
    <3> QED BY <1>5, <3>1, SameTotal
  <2>5. CASE h \in DOMAIN e
    <3>1. h \in DOMAIN more /\ more[h] = e[h] + 0 /\ e[h] \in Nat
      BY <1>4, <2>1, <2>5
    <3> QED BY <2>2, <2>4, <2>5, <3>1
  <2>6. CASE h \notin DOMAIN e
    <3>1. h \notin DOMAIN more
      BY <1>4, <2>1, <2>6
    <3> QED BY <2>2, <2>3, <2>6, <3>1
  <2> QED BY <2>5, <2>6
<1>8. DailyBefore(m, more, s, t)
  BY <1>6, <1>7 DEF DailyBefore
<1> QED BY <1>8 DEF more, s

(***************************************************************************)
(* A merge moves the boundary on.  A day of the retention that it merges   *)
(* for the first time has all of its hours; one that was merged before has *)
(* a row at its midnight, which stays.                                     *)
(***************************************************************************)
LEMMA DailyMerged ==
    ASSUME NEW t \in Nat, HourOf(t) \in Hours,
           NEW e, IsEntries(e, t), NEW r \in [Hours -> Nat],
           NEW m \in Int, m = FlooredAtDay(m), m <= FirstOfBuffer(t), DailyBefore(m, e, r, t)
    PROVE  DailyBefore(FirstOfBuffer(t), Merged(e, t), r, t)
<1> DEFINE first == FirstOfBuffer(t)
           merged == Merged(e, t)
           young == YoungIn(e, t)
           old == OldIn(e, t)
           late(g) == 2 * g >= t - 2 * Retention
<1>1. first \in Int /\ first = FlooredAtDay(first) /\ m <= first
  BY FirstOfBufferProperties
<1>2. /\ DOMAIN merged = young \cup DaysIn(e, t)
      /\ \A h \in young : merged[h] = e[h]
      /\ \A h \in DOMAIN merged \ young : merged[h] = Total(e, OldOfDay(e, t, h))
  BY MergedProperties
<1>3. \A g : /\ g \in young <=> g \in DOMAIN e /\ g >= first
             /\ g \in old <=> g \in DOMAIN e /\ ~ g >= first /\ late(g)
  BY DEF YoungIn, OldIn
<1>4. /\ Counts(e) /\ Counts(r) /\ DOMAIN r = Hours /\ Retention \in Nat
      /\ DOMAIN e \subseteq Hours /\ \A h \in Hours : h \in Int
  BY RanCounts, Sizes DEF IsEntries, Hours
<1> HIDE DEF first, merged, young, old
<1>5. \A g \in old : g \in Hours /\ FlooredAtDay(g) + Day <= first
  BY <1>1, <1>3, <1>4, DayOfProperties
<1>6. Day \in Nat \ {0}
  BY Sizes
<1>7. ASSUME NEW h \in Hours, late(h), h >= first
      PROVE  IF h \in DOMAIN merged THEN merged[h] = r[h] ELSE r[h] = 0
  <2>1. IF h \in DOMAIN e THEN e[h] = r[h] ELSE r[h] = 0
    BY <1>1, <1>4, <1>7 DEF DailyBefore
  <2>2. \A g \in old : FlooredAtDay(g) # h
    <3> TAKE g \in old
    <3>1. FlooredAtDay(g) + Day <= first /\ FlooredAtDay(g) \in Int
      BY <1>4, <1>5, DayBegins
    <3> QED BY <1>1, <1>4, <1>6, <1>7, <3>1
  <2>3. h \in DOMAIN merged <=> h \in DOMAIN e
    BY <1>2, <1>3, <1>7, <2>2 DEF old, DaysIn
  <2> QED BY <1>2, <1>3, <1>7, <2>1, <2>3
<1>8. ASSUME NEW h \in Hours, late(h), h < first
      PROVE  IF h \in DOMAIN merged
             THEN h = FlooredAtDay(h) /\ merged[h] = Total(r, DayOf(h))
             ELSE h = FlooredAtDay(h) => \A g \in DayOf(h) : r[g] = 0
  <2> DEFINE mine == OldOfDay(e, t, h)
  <2>0. mine = {g \in old : FlooredAtDay(g) = h} /\ DaysIn(e, t) = {FlooredAtDay(g) : g \in old}
    BY DEF old, OldOfDay, DaysIn
  <2> HIDE DEF mine
  <2>1. h \in Int /\ ~ h >= first
    BY <1>1, <1>4, <1>8
  <2>2. h \in DOMAIN merged <=> mine # {}
    BY <1>2, <1>3, <2>0, <2>1
  <2>3. mine # {} => h = FlooredAtDay(h)
    BY <1>4, <1>5, <2>0, DaysInOrder
  <2>4. ASSUME h = FlooredAtDay(h)
        PROVE  /\ mine # {} => Total(e, mine) = Total(r, DayOf(h))
               /\ mine = {} => \A g \in DayOf(h) : r[g] = 0
    <3>1. \A g \in DayOf(h) : g \in Hours /\ g \in Int /\ h <= g /\ g < first /\ late(g)
      <4> TAKE g \in DayOf(h)
      <4>1. g \in Hours /\ g \in Int /\ h <= g /\ g < h + Day /\ h + Day <= first
        BY <1>1, <1>4, <1>8, <2>4, DayOfProperties
      <4>2. t - 2 * Retention \in Int
        BY <1>4
      <4> QED BY <1>1, <1>6, <1>8, <2>1, <4>1, <4>2
    <3>2. CASE h >= m
      <4>1. \A g \in DayOf(h) : IF g \in DOMAIN e THEN e[g] = r[g] ELSE r[g] = 0
        <5> TAKE g \in DayOf(h)
        <5>1. g \in Hours /\ late(g) /\ g >= m
          BY <2>1, <3>1, <3>2
        <5> QED BY <5>1 DEF DailyBefore
      <4>2. \A g \in DayOf(h) : g \in DOMAIN e => g \in mine
        <5> TAKE g \in DayOf(h)
        <5>1. ~ g >= first /\ FlooredAtDay(g) = h
          BY <1>1, <3>1 DEF DayOf
        <5> QED BY <1>3, <2>0, <3>1, <5>1
      <4>3. \A g \in mine : g \in DayOf(h) /\ g \in DOMAIN e
        BY <1>3, <1>5, <2>0 DEF DayOf
      <4>4. DayOf(h) \subseteq Hours
        BY DEF DayOf
      <4>5. /\ \A g \in mine \cap DOMAIN e :
                  e[g] = 0 \/ (g \in DayOf(h) \cap DOMAIN r /\ r[g] = e[g])
            /\ \A g \in DayOf(h) \cap DOMAIN r :
                  r[g] = 0 \/ (g \in mine \cap DOMAIN e /\ r[g] = e[g])
        BY <1>4, <4>1, <4>2, <4>3, <4>4
      <4>6. Total(e, mine) = Total(r, DayOf(h))
        BY <1>4, <4>5, SameTotal
      <4> QED BY <4>1, <4>2, <4>6
    <3>3. CASE h < m
      <4>1. IF h \in DOMAIN e THEN e[h] = Total(r, DayOf(h)) ELSE \A g \in DayOf(h) : r[g] = 0
        BY <1>8, <2>4, <3>3 DEF DailyBefore
      <4>2. \A g \in mine : g = h
        <5> TAKE g \in mine
        <5>1. g \in old /\ FlooredAtDay(g) = h
          BY <2>0
        <5>2. g \in DOMAIN e /\ late(g) /\ g \in Hours /\ g \in DayOf(h)
          BY <1>3, <1>5, <5>1 DEF DayOf
        <5>3. g < h + Day /\ h + Day <= m /\ g \in Int
          BY <1>4, <2>4, <3>3, <5>2, DayOfProperties
        <5>4. g < m
          BY <1>6, <2>1, <5>3
        <5>5. g = FlooredAtDay(g)
          BY <5>2, <5>4 DEF DailyBefore
        <5> QED BY <5>1, <5>5
      <4>3. h \in DOMAIN e => h \in mine
        BY <1>3, <1>8, <2>0, <2>1, <2>4
      <4>4. \A g \in mine : g \in DOMAIN e
        BY <1>3, <2>0
      <4>5. CASE h \in DOMAIN e
        <5>1. mine = {h}
          BY <4>2, <4>3, <4>5
        <5>2. Total(e, {h}) = e[h]
          BY <1>4, <4>5, TotalOfOne
        <5> QED BY <4>1, <4>5, <5>1, <5>2
      <4>6. CASE h \notin DOMAIN e
        <5>1. mine = {}
          BY <4>2, <4>4, <4>6
        <5> QED BY <4>1, <4>6, <5>1
      <4> QED BY <4>5, <4>6
    <3> QED BY <2>1, <3>2, <3>3
  <2>5. h \in DOMAIN merged => merged[h] = Total(e, mine)
    BY <1>2, <1>3, <2>1 DEF mine
  <2> QED BY <2>2, <2>3, <2>4, <2>5
<1> USE DEF first, merged
<1>9. DailyBefore(first, merged, r, t)
  BY <1>7, <1>8 DEF DailyBefore
<1> QED BY <1>9

(***************************************************************************)
(* On the hour, the row at the edge is in the retention as a whole.        *)
(***************************************************************************)
LEMMA EdgeOfDaily ==
    ASSUME NEW t \in Nat, NEW e, IsEntries(e, t), HourOf(t) \in Hours, NEW r \in [Hours -> Nat],
           NEW m \in Int, NEW h, h \in DOMAIN e, DailyBefore(m, e, r, t),
           2 * h >= t - 2 * Retention
    PROVE  /\ h >= m => e[h] = r[h]
           /\ h < m => h = FlooredAtDay(h) /\ e[h] <= Total(r, DayOf(h))
<1>1. h \in Hours
  BY Sizes DEF IsEntries, Hours
<1>2. Total(r, DayOf(h)) \in Nat
  BY RanCounts, TotalIsCardinality
<1> QED BY <1>1, <1>2 DEF DailyBefore

(***************************************************************************)
(* One more execution is not in that row.                                  *)
(***************************************************************************)
LEMMA EdgeCounted ==
    ASSUME NEW t \in Nat, NEW this, this = HourOf(t), this \in Hours,
           NEW e, IsEntries(e, t), NEW r \in [Hours -> Nat],
           NEW m \in Int, m = FlooredAtDay(m), m <= FirstOfBuffer(t), EdgeBefore(m, e, r, t)
    PROVE  EdgeBefore(m, Counted(e, this), [r EXCEPT ![this] = r[this] + 1], t)
<1> DEFINE more == Counted(e, this)
           s == [r EXCEPT ![this] = r[this] + 1]
           h == Edge(t)
<1>1. /\ Retention \in Nat \ {0} /\ Buffer \in Nat \ {0} /\ this \in Nat
      /\ \A g \in Hours : g \in Nat
      /\ h = this - Retention /\ h \in Int /\ h < this /\ m < this
  <2>1. this \in Nat /\ Retention \in Nat \ {0} /\ Buffer \in Nat \ {0}
        /\ \A g \in Hours : g \in Nat
    BY Sizes, HourProperties DEF Hours
  <2>2. h = this - Retention
    BY DEF Edge
  <2>3. m < this
    BY <2>1, Sizes, FirstOfBufferProperties
  <2> QED BY <2>1, <2>2, <2>3
<1>2. s \in [Hours -> Nat] /\ \A g \in Hours : g # this => s[g] = r[g]
  OBVIOUS
<1>3. /\ DOMAIN more = DOMAIN e \cup {this}
      /\ \A g \in DOMAIN e : g # this => more[g] = e[g] + 0
      /\ \A g \in DOMAIN e : e[g] \in Nat
      /\ DOMAIN e \subseteq Hours
  BY Sizes DEF Counted, IsEntries, Counts, Hours
<1>4. /\ Counts(r) /\ DOMAIN r = Hours /\ Counts(s) /\ DOMAIN s = Hours
  BY <1>2, RanCounts
<1> HIDE DEF more, s
<1> SUFFICES ASSUME h \in DOMAIN more
             PROVE  /\ h >= m => more[h] = s[h]
                    /\ h < m => h = FlooredAtDay(h) /\ more[h] <= Total(s, DayOf(h))
  BY DEF EdgeBefore, more, s
<1>5. h \in DOMAIN e /\ h \in Hours /\ more[h] = e[h] /\ s[h] = r[h]
  BY <1>1, <1>2, <1>3
<1>6. /\ h >= m => e[h] = r[h]
      /\ h < m => h = FlooredAtDay(h) /\ e[h] <= Total(r, DayOf(h))
  BY <1>5 DEF EdgeBefore
<1> HIDE DEF h
<1>7. ASSUME h < m, h = FlooredAtDay(h)
      PROVE  Total(s, DayOf(h)) = Total(r, DayOf(h))
  <2>1. \A g \in DayOf(h) : g \in Hours /\ s[g] = r[g]
    <3> TAKE g \in DayOf(h)
    <3>1. g \in Hours /\ g < h + Day /\ FlooredAtDay(h) + Day <= m
      BY <1>5, <1>7, DayOfProperties
    <3>2. g # this
      BY <1>1, <1>7, <3>1, Sizes
    <3> QED BY <1>2, <3>1, <3>2
  <2>2. /\ \A g \in DayOf(h) \cap DOMAIN s : g \in DayOf(h) \cap DOMAIN r /\ r[g] = s[g]
        /\ \A g \in DayOf(h) \cap DOMAIN r : g \in DayOf(h) \cap DOMAIN s /\ r[g] = s[g]
    BY <1>4, <2>1
  <2> QED BY <1>4, <2>2, SameTotal
<1> QED BY <1>5, <1>6, <1>7

(***************************************************************************)
(* A merge that cuts the day at the edge leaves some of its executions in  *)
(* its row and those of no other day.                                      *)
(***************************************************************************)
LEMMA EdgeMerged ==
    ASSUME NEW t \in Nat, HourOf(t) \in Hours,
           NEW e, IsEntries(e, t), NEW r \in [Hours -> Nat],
           NEW m \in Int, m = FlooredAtDay(m), m <= FirstOfBuffer(t), DailyBefore(m, e, r, t),
           EdgeBefore(m, e, r, t)
    PROVE  EdgeBefore(FirstOfBuffer(t), Merged(e, t), r, t)
<1> DEFINE first == FirstOfBuffer(t)
           merged == Merged(e, t)
           young == YoungIn(e, t)
           old == OldIn(e, t)
           h == Edge(t)
           late(g) == 2 * g >= t - 2 * Retention
           mine == OldOfDay(e, t, h)
<1>1. first \in Int /\ first = FlooredAtDay(first) /\ m <= first
  BY FirstOfBufferProperties
<1>2. /\ DOMAIN merged = young \cup DaysIn(e, t)
      /\ \A g \in young : merged[g] = e[g]
      /\ \A g \in DOMAIN merged \ young : merged[g] = Total(e, OldOfDay(e, t, g))
  BY MergedProperties
<1>3. \A g : /\ g \in young <=> g \in DOMAIN e /\ g >= first
             /\ g \in old <=> g \in DOMAIN e /\ ~ g >= first /\ late(g)
  BY DEF YoungIn, OldIn
<1>4. /\ Counts(e) /\ Counts(r) /\ DOMAIN r = Hours /\ Retention \in Nat
      /\ DOMAIN e \subseteq Hours /\ (\A g \in Hours : g \in Int)
  BY RanCounts, Sizes DEF IsEntries, Hours
<1>11. HourOf(t) \in Int
  BY HourProperties
<1>5. h = HourOf(t) - Retention /\ h \in Int
  BY <1>4, <1>11 DEF Edge
<1>6. mine = {g \in old : FlooredAtDay(g) = h} /\ DaysIn(e, t) = {FlooredAtDay(g) : g \in old}
  BY DEF old, OldOfDay, DaysIn
<1> HIDE DEF first, merged, young, old, mine
<1>7. \A g \in old : g \in Hours /\ g \in Int /\ FlooredAtDay(g) + Day <= first
                    /\ FlooredAtDay(g) = FlooredAtDay(FlooredAtDay(g))
                    /\ FlooredAtDay(g) \in Int
  BY <1>1, <1>3, <1>4, DayOfProperties, DaysInOrder, DayBegins
<1>8. Day \in Nat \ {0}
  BY Sizes
<1> SUFFICES ASSUME h \in DOMAIN merged
             PROVE  /\ h >= first => merged[h] = r[h]
                    /\ h < first => h = FlooredAtDay(h) /\ merged[h] <= Total(r, DayOf(h))
  BY DEF EdgeBefore, first, merged
<1>9. CASE h \in young
  <2>1. h \in DOMAIN e /\ h >= first /\ h >= m
    BY <1>1, <1>3, <1>5, <1>9
  <2>2. e[h] = r[h]
    BY <2>1 DEF EdgeBefore
  <2> QED BY <1>1, <1>2, <1>5, <1>9, <2>1, <2>2
<1>10. CASE h \notin young
  <2>1. PICK k \in old : h = FlooredAtDay(k)
    BY <1>2, <1>6, <1>10
  <2>2. h = FlooredAtDay(h) /\ h < first
    BY <1>1, <1>7, <1>8, <2>1
  <2>3. merged[h] = Total(e, mine)
    BY <1>2, <1>10 DEF mine
  <2>4. \A g \in mine : g \in DOMAIN e /\ g \in DayOf(h) /\ late(g) /\ g \in Hours
    BY <1>3, <1>6, <1>7 DEF DayOf
  <2>5. CASE h >= m
    <3>1. \A g \in mine : e[g] = r[g]
      <4> TAKE g \in mine
      <4>1. g \in Int /\ h <= g
        BY <1>4, <1>6, <1>7, DayBegins
      <4>2. g >= m
        BY <1>5, <2>5, <4>1
      <4> QED BY <2>4, <4>2 DEF DailyBefore
    <3>2. /\ \A g \in mine \cap DOMAIN e : g \in mine \cap DOMAIN r /\ r[g] = e[g]
          /\ \A g \in mine \cap DOMAIN r : g \in mine \cap DOMAIN e /\ r[g] = e[g]
      BY <1>4, <2>4, <3>1
    <3>3. Total(e, mine) = Total(r, mine)
      BY <1>4, <3>2, SameTotal
    <3>4. Total(r, mine) <= Total(r, DayOf(h))
      BY <1>4, <2>4, TotalGrows
    <3>5. first \in Int /\ h < first => ~ h >= first
      BY <1>5
    <3> QED BY <1>1, <2>2, <2>3, <3>3, <3>4, <3>5
  <2>6. CASE h < m
    <3>1. \A g \in mine : g = h
      <4> TAKE g \in mine
      <4>1. /\ g \in Hours /\ g \in Int /\ late(g) /\ g \in DOMAIN e
            /\ FlooredAtDay(g) = h
        BY <1>6, <1>7, <2>4
      <4>2. ~ g >= m
        <5>1. g >= m => h >= m
          BY <4>1, DayOfProperties
        <5> QED BY <1>5, <2>6, <5>1
      <4>3. g < m
        BY <4>1, <4>2
      <4>4. g = FlooredAtDay(g)
        BY <4>1, <4>3 DEF DailyBefore
      <4> QED BY <4>1, <4>4
    <3>2. k \in mine /\ k = h
      BY <1>6, <2>1, <3>1
    <3>3. mine = {h} /\ h \in DOMAIN e
      BY <2>4, <3>1, <3>2
    <3>4. Total(e, {h}) = e[h]
      BY <1>4, <3>3, TotalOfOne
    <3>5. e[h] <= Total(r, DayOf(h))
      BY <2>6, <3>3 DEF EdgeBefore
    <3>6. ~ h >= first
      BY <1>1, <1>5, <2>2
    <3> QED BY <2>2, <2>3, <3>3, <3>4, <3>5, <3>6
  <2> QED BY <1>1, <1>5, <2>5, <2>6
<1> QED BY <1>9, <1>10

(***************************************************************************)
(* Every step keeps the rows before some day daily and the others hourly.  *)
(***************************************************************************)
LEMMA DailyStep ==
    ASSUME UptimeTyped, RowsDaily, [UptimeNext]_uptimeVars
    PROVE  RowsDaily'
<1>0. PICK m \in Int : /\ m = FlooredAtDay(m) /\ m <= FirstOfBuffer(now)
                       /\ DailyBefore(m, uptimes, ran, now)
                       /\ EdgeBefore(m, uptimes, ran, now)
  BY DEF RowsDaily
<1>1. CASE Execute
  <2> DEFINE h == HourOf(now)
             more == Counted(uptimes, h)
             first == FirstOfBuffer(now)
  <2>1. /\ now \in Nat /\ h \in Hours /\ now' = now /\ Retention \in Nat
        /\ ran \in [Hours -> Nat] /\ ran' \in [Hours -> Nat]
        /\ ran' = [ran EXCEPT ![h] = ran[h] + 1]
        /\ IsEntries(uptimes, now)
    <3>1. ran' = [ran EXCEPT ![h] = ran[h] + 1] /\ now' = now
      BY <1>1 DEF Execute
    <3> QED BY <3>1, Sizes DEF UptimeTyped
  <2>2. IsEntries(more, now)
    BY <2>1, CountedProperties
  <2>3. DailyBefore(m, more, ran', now) /\ EdgeBefore(m, more, ran', now)
    BY <1>0, <2>1, DailyCounted, EdgeCounted
  <2>4. \/ uptimes' = CleanedUp(Merged(more, now), now)
        \/ uptimes' = CleanedUp(more, now)
    BY <1>1 DEF Execute, UpdateEndpointUptime
  <2>5. first \in Int /\ first = FlooredAtDay(first) /\ first <= first
    BY <2>1, FirstOfBufferProperties
  <2> HIDE DEF more, first
  <2>6. PICK k, rest :
            /\ k \in Int
            /\ k = FlooredAtDay(k) /\ k <= FirstOfBuffer(now)
            /\ IsEntries(rest, now) /\ DailyBefore(k, rest, ran', now)
            /\ EdgeBefore(k, rest, ran', now)
            /\ uptimes' = CleanedUp(rest, now)
    <3>1. CASE uptimes' = CleanedUp(more, now)
      BY <1>0, <2>2, <2>3, <3>1
    <3>2. CASE uptimes' = CleanedUp(Merged(more, now), now)
      <4>1. IsEntries(Merged(more, now), now)
        BY <2>1, <2>2, MergedProperties
      <4>2. DailyBefore(first, Merged(more, now), ran', now)
        BY <1>0, <2>1, <2>2, <2>3, DailyMerged DEF first
      <4>3. EdgeBefore(first, Merged(more, now), ran', now)
        BY <1>0, <2>1, <2>2, <2>3, EdgeMerged DEF first
      <4> QED BY <2>5, <3>2, <4>1, <4>2, <4>3 DEF first
    <3> QED BY <2>4, <3>1, <3>2
  <2>7. /\ DOMAIN uptimes' \subseteq DOMAIN rest
        /\ \A g \in DOMAIN rest : 2 * g >= now - 2 * (Retention + 1) => g \in DOMAIN uptimes'
        /\ \A g \in DOMAIN uptimes' : uptimes'[g] = rest[g]
    BY <2>6, CleanedUpProperties
  <2>8. \A g \in Hours : 2 * g >= now - 2 * Retention =>
            /\ g \in DOMAIN uptimes' <=> g \in DOMAIN rest
            /\ g \in DOMAIN rest => uptimes'[g] = rest[g]
    <3>1. \A g \in Hours : g \in Int
      BY Sizes DEF Hours
    <3>2. \A g \in Hours : 2 * g >= now - 2 * Retention => 2 * g >= now - 2 * (Retention + 1)
      BY <2>1, <3>1
    <3> QED BY <2>7, <3>2
  <2>9. DailyBefore(k, uptimes', ran', now)
    BY <2>6, <2>8 DEF DailyBefore
  <2>10. DailyBefore(k, uptimes, ran, now)'
    BY <2>1, <2>9 DEF DailyBefore, DayOf, Hours
  <2>11. (k = FlooredAtDay(k) /\ k <= FirstOfBuffer(now))'
    BY <2>1, <2>6 DEF FlooredAtDay, FirstOfBuffer, HourOf
  <2>12. k \in Int
    BY <2>6
  <2>13. EdgeBefore(k, uptimes', ran', now)
    BY <2>6, <2>7 DEF EdgeBefore
  <2>14. EdgeBefore(k, uptimes, ran, now)'
    BY <2>1, <2>13 DEF EdgeBefore, Edge, HourOf, DayOf, Hours
  <2> QED BY <2>10, <2>11, <2>12, <2>14 DEF RowsDaily
<1>2. CASE Wait
  <2>1. now \in Nat /\ now' = now + 1 /\ now' \in Nat /\ UNCHANGED <<ran, uptimes>>
    BY <1>2 DEF Wait, UptimeTyped
  <2>2. FirstOfBuffer(now) <= FirstOfBuffer(now')
    <3> DEFINE a == HourOf(now) - Buffer
               b == HourOf(now') - Buffer
    <3>1. a \in Int /\ b \in Int /\ a <= b
      BY <2>1, Sizes DEF HourOf
    <3>2. FirstOfBuffer(now) = FlooredAtDay(a) /\ FirstOfBuffer(now') = FlooredAtDay(b)
      BY <2>1, FirstOfBufferProperties
    <3> HIDE DEF a, b
    <3>3. FlooredAtDay(a) \in Int /\ FlooredAtDay(a) <= a
      BY <3>1, DayBegins
    <3>4. b >= FlooredAtDay(a)
      BY <3>1, <3>3
    <3>5. FlooredAtDay(b) >= FlooredAtDay(a)
      BY <3>1, <3>4, DaysInOrder
    <3>6. FlooredAtDay(b) \in Int
      BY <3>1, DayBegins
    <3> QED BY <3>2, <3>3, <3>5, <3>6
  <2>3. m <= FirstOfBuffer(now')
    <3>1. FirstOfBuffer(now) \in Int /\ FirstOfBuffer(now') \in Int
      BY <2>1, FirstOfBufferProperties
    <3> QED BY <1>0, <2>2, <3>1
  <2>4. \A g \in Hours : 2 * g >= now' - 2 * Retention => 2 * g >= now - 2 * Retention
    BY <2>1, Sizes DEF Hours
  <2>5. DailyBefore(m, uptimes, ran, now')
    BY <1>0, <2>4 DEF DailyBefore
  <2>6. DailyBefore(m, uptimes, ran, now)'
    BY <2>1, <2>5 DEF DailyBefore, DayOf, Hours
  <2>7. (m = FlooredAtDay(m) /\ m <= FirstOfBuffer(now))'
    BY <1>0, <2>3 DEF FirstOfBuffer
  <2>8. EdgeBefore(m, uptimes, ran, now')
    <3> DEFINE h == Edge(now')
    <3>1. Edge(now) \in Int /\ h \in Int /\ (h = Edge(now) \/ 2 * h >= now - 2 * Retention)
      BY <2>1, Sizes DEF Edge, HourOf
    <3>2. CASE h = Edge(now)
      BY <1>0, <3>2 DEF EdgeBefore
    <3>3. CASE 2 * h >= now - 2 * Retention
      <4>1. h \in DOMAIN uptimes => /\ h >= m => uptimes[h] = ran[h]
                                    /\ h < m => /\ h = FlooredAtDay(h)
                                                /\ uptimes[h] <= Total(ran, DayOf(h))
        BY <1>0, <2>1, <3>3, EdgeOfDaily DEF UptimeTyped
      <4> QED BY <4>1 DEF EdgeBefore
    <3> QED BY <3>1, <3>2, <3>3
  <2>9. EdgeBefore(m, uptimes, ran, now)'
    BY <2>1, <2>8 DEF EdgeBefore, Edge, HourOf, DayOf, Hours
  <2> QED BY <2>6, <2>7, <2>9 DEF RowsDaily
<1>3. CASE UNCHANGED uptimeVars
  BY <1>0, <1>3 DEF uptimeVars, RowsDaily, DailyBefore, EdgeBefore, Edge, FirstOfBuffer, HourOf,
                    Hours, DayOf
<1> QED BY <1>1, <1>2, <1>3 DEF UptimeNext

(***************************************************************************)
(* The rows that a query finds stand for all executions from some of the   *)
(* hours of the first day, or from none of them, on.                       *)
(***************************************************************************)
LEMMA CloseDatabase ==
    ASSUME UptimeTyped, RowsDaily
    PROVE  DatabaseUptimeIsClose
<1>0. PICK m \in Int : /\ m = FlooredAtDay(m) /\ m <= FirstOfBuffer(now)
                       /\ DailyBefore(m, uptimes, ran, now)
                       /\ EdgeBefore(m, uptimes, ran, now)
  BY DEF RowsDaily
<1>1. /\ now \in Nat /\ HourOf(now) \in Nat
      /\ 2 * HourOf(now) <= now /\ now <= 2 * HourOf(now) + 1
      /\ Retention \in Nat /\ Day \in Nat \ {0} /\ Buffer \in Nat
      /\ Buffer >= 2 * Day /\ Retention >= Buffer
  BY Sizes DEF UptimeTyped, HourOf
<1>2. /\ Counts(uptimes) /\ DOMAIN uptimes \subseteq 0..HourOf(now)
      /\ Counts(ran) /\ DOMAIN ran = Hours
      /\ DOMAIN uptimes \subseteq Hours /\ \A h \in Hours : h \in Int
  <2>1. Counts(ran) /\ DOMAIN ran = Hours
    BY RanCounts DEF UptimeTyped
  <2>2. /\ Counts(uptimes) /\ DOMAIN uptimes \subseteq 0..HourOf(now)
        /\ HourOf(now) \in Hours
    BY DEF UptimeTyped, IsEntries
  <2>3. 0..HourOf(now) \subseteq Hours /\ \A h \in Hours : h \in Int
    BY <2>2, Sizes DEF Hours
  <2> QED BY <2>1, <2>2, <2>3
<1>3. m <= HourOf(now) - Buffer
  BY <1>0, <1>1, FirstOfBufferProperties
<1> DEFINE group(g) == IF g >= m THEN g ELSE FlooredAtDay(g)
<1>4. \A g \in Hours : /\ group(g) \in Hours /\ group(g) \in Int
                       /\ FlooredAtDay(g) <= group(g) /\ group(g) <= g
                       /\ FlooredAtDay(g) \in Int
                       /\ g < m => group(g) < m /\ group(g) = FlooredAtDay(g)
  <2> TAKE g \in Hours
  <2>1. /\ g \in Int /\ FlooredAtDay(g) \in Int
        /\ FlooredAtDay(g) <= g
    BY <1>2, DayBegins
  <2>2. /\ FlooredAtDay(g) \in Hours
        /\ g < m => FlooredAtDay(g) + Day <= m
    BY <1>0, DayOfProperties
  <2> QED BY <1>1, <2>1, <2>2
<1>5. ASSUME NEW from \in Int, from >= now - 2 * Retention
      PROVE  InDatabase(from) = Total(ran, {g \in Hours : from <= 2 * group(g)})
  <2> DEFINE counted == {g \in Hours : from <= 2 * group(g)}
             asked == {h \in DOMAIN uptimes : from <= 2 * h /\ 2 * h <= now}
             found == {g \in counted : group(g) \in DOMAIN uptimes}
             groups == [g \in found |-> group(g)]
  <2>1. from \in Int /\ from >= now - 2 * Retention /\ now - 2 * Retention \in Int
    BY <1>1, <1>5
  <2>2. InDatabase(from) = Total(uptimes, asked)
    BY DEF InDatabase
  <2>3. \A h \in DOMAIN uptimes : h \in asked <=> from <= 2 * h
    BY <1>1, <1>2
  <2>4. \A h \in Hours : from <= 2 * h => 2 * h >= now - 2 * Retention
    BY <1>2, <2>1
  <2>5. found \subseteq Hours /\ asked \subseteq DOMAIN uptimes
    OBVIOUS
  <2>6. \A g \in Hours : g \in found <=> group(g) \in asked
    BY <2>3
  <2>7. groups \in [found -> asked]
    BY <2>5, <2>6
  <2>8. ASSUME NEW r \in asked
        PROVE  uptimes[r] = Total(ran, {g \in found : groups[g] = r})
    <3>1. /\ r \in DOMAIN uptimes /\ r \in Hours /\ r \in Int /\ 2 * r >= now - 2 * Retention
      BY <1>2, <2>3, <2>4
    <3>2. {g \in found : groups[g] = r} = {g \in Hours : group(g) = r}
      BY <2>5, <2>6
    <3>3. CASE r >= m
      <4>1. {g \in Hours : group(g) = r} = {r}
        BY <1>2, <1>4, <3>1, <3>3
      <4>2. uptimes[r] = ran[r]
        BY <1>0, <3>1, <3>3 DEF DailyBefore
      <4>3. Total(ran, {r}) = ran[r]
        BY <1>2, <3>1, TotalOfOne
      <4> QED BY <3>2, <4>1, <4>2, <4>3
    <3>4. CASE r < m
      <4>1. r = FlooredAtDay(r) /\ uptimes[r] = Total(ran, DayOf(r))
        BY <1>0, <3>1, <3>4 DEF DailyBefore
      <4>2. \A g \in Hours : group(g) = r <=> FlooredAtDay(g) = r
        <5> TAKE g \in Hours
        <5>1. g \in Int /\ FlooredAtDay(g) \in Int /\ (g >= m => FlooredAtDay(g) >= m)
          BY <1>0, <1>2, <1>4, DayOfProperties
        <5> QED BY <3>1, <3>4, <5>1
      <4>3. {g \in Hours : group(g) = r} = DayOf(r)
        BY <4>2 DEF DayOf
      <4> QED BY <3>2, <4>1, <4>3
    <3> QED BY <3>1, <3>3, <3>4
  <2>9. \A g \in counted : g \notin found => ran[g] = 0
    <3> SUFFICES ASSUME NEW g \in counted, g \notin found
                 PROVE  ran[g] = 0
      OBVIOUS
    <3>1. g \in Hours /\ group(g) \in Hours /\ group(g) \notin DOMAIN uptimes
          /\ from <= 2 * group(g)
      BY <1>4
    <3>2. 2 * group(g) >= now - 2 * Retention
      BY <2>4, <3>1
    <3>3. CASE g >= m
      BY <1>0, <3>1, <3>2, <3>3 DEF DailyBefore
    <3>4. CASE g < m
      <4>1. group(g) < m /\ group(g) = FlooredAtDay(g)
        BY <1>4, <3>1, <3>4
      <4>2. FlooredAtDay(g) = FlooredAtDay(FlooredAtDay(g)) /\ g \in DayOf(FlooredAtDay(g))
        BY <1>0, <1>2, <3>1, DaysInOrder, DayOfProperties
      <4> QED BY <1>0, <3>1, <3>2, <4>1, <4>2 DEF DailyBefore
    <3> QED BY <1>2, <3>1, <3>3, <3>4
  <2>10. Total(uptimes, asked) = Total(ran, found)
    <3> HIDE DEF asked, found, groups
    <3> QED BY <1>2, <2>5, <2>7, <2>8, TotalOfGroups
  <2>11. Total(ran, found) = Total(ran, counted)
    <3>1. found \subseteq counted
      OBVIOUS
    <3> HIDE DEF found, counted
    <3> QED BY <1>2, <2>9, <3>1, SameTotal
  <2> QED BY <2>2, <2>10, <2>11
<1>6. ASSUME NEW from \in Int, from >= now - 2 * Retention
      PROVE  InDatabase(from) \in OfDaysSince(from)..Since(from)
  <2> DEFINE counted == {g \in Hours : from <= 2 * group(g)}
             least == {g \in Hours : from <= 2 * FlooredAtDay(g)}
             most == {g \in Hours : from <= 2 * g}
  <2>2. least \subseteq counted /\ counted \subseteq most
    BY <1>2, <1>4, <1>6
  <2>3. InDatabase(from) = Total(ran, counted)
    BY <1>5, <1>6
  <2>4. /\ OfDaysSince(from) = Total(ran, least)
        /\ Since(from) = Total(ran, most)
    BY DEF OfDaysSince, Since
  <2> HIDE DEF least, counted, most
  <2>5. Total(ran, least) <= Total(ran, counted) /\ Total(ran, counted) <= Total(ran, most)
    BY <1>2, <2>2, TotalGrows
  <2>6. /\ Total(ran, least) \in Nat /\ Total(ran, counted) \in Nat
        /\ Total(ran, most) \in Nat
    BY <1>2, TotalIsCardinality
  <2> QED BY <2>3, <2>4, <2>5, <2>6
<1>7. ASSUME NEW from \in Int, from >= now - 2 * Day - 1
      PROVE  InDatabase(from) = Since(from)
  <2> DEFINE counted == {g \in Hours : from <= 2 * group(g)}
             most == {g \in Hours : from <= 2 * g}
  <2>1. \A g \in Hours : from <= 2 * g => g >= m
    <3> SUFFICES ASSUME NEW g \in Hours, from <= 2 * g
                 PROVE  g >= m
      OBVIOUS
    <3>1. g \in Int
      BY <1>2
    <3> QED BY <1>1, <1>3, <1>7, <3>1
  <2>2. counted = most
    <3>1. \A g \in Hours : from <= 2 * group(g) => from <= 2 * g
      BY <1>2, <1>4, <1>7
    <3> QED BY <2>1, <3>1
  <2>3. from >= now - 2 * Retention
    BY <1>1, <1>7
  <2>4. InDatabase(from) = Total(ran, counted)
    BY <1>5, <1>7, <2>3
  <2>5. Since(from) = Total(ran, most)
    BY DEF Since
  <2> QED BY <2>2, <2>4, <2>5
<1>8. ASSUME NEW w \in Int
      PROVE  ChartStart(w) = 2 * HourOf(now) - 2 * w
  <2>1. HourOf(now - 2 * w) = HourOf(now) - w
    BY <1>1 DEF HourOf
  <2> QED BY <1>1, <2>1 DEF ChartStart
<1> DEFINE start == ChartStart(Retention)
           late == now - 2 * Retention
           h == Edge(now)
<1>9. start = 2 * h /\ h \in Int /\ start \in Int /\ late \in Int
      /\ (start = late \/ start = late - 1)
  <2>1. start = 2 * HourOf(now) - 2 * Retention
    BY <1>1, <1>8
  <2>2. h = HourOf(now) - Retention
    BY DEF Edge
  <2> HIDE DEF start, h
  <2> QED BY <1>1, <2>1, <2>2
<1>10. InDatabase(start) \in OfDaysSince(late)..Since(start)
  <2>1. CASE start = late
    BY <1>6, <1>9, <2>1
  <2>2. CASE start = late - 1
    <3> DEFINE asked(from) == {g \in DOMAIN uptimes : from <= 2 * g /\ 2 * g <= now}
               counted == {g \in Hours : late <= 2 * group(g)}
               extra == IF h >= m THEN {h} ELSE DayOf(h)
               edge == {h} \cap DOMAIN uptimes
               most == {g \in Hours : start <= 2 * g}
    <3>1. InDatabase(late) \in OfDaysSince(late)..Since(late)
      BY <1>6, <1>9
    <3>2. InDatabase(late) = Total(ran, counted)
      BY <1>5, <1>9
    <3>3. InDatabase(start) = Total(uptimes, asked(start)) /\ InDatabase(late) = Total(uptimes, asked(late))
      BY DEF InDatabase
    <3>4. asked(start) = asked(late) \cup edge /\ asked(late) \cap edge = {}
      BY <1>1, <1>2, <1>9, <2>2
    <3>5. OfDaysSince(late) \in Nat
      BY <1>2, TotalIsCardinality DEF OfDaysSince
    <3> HIDE DEF asked, start, late, h
    <3>6. Total(uptimes, asked(start)) = Total(uptimes, asked(late)) + Total(uptimes, edge)
      <4> HIDE DEF edge
      <4> QED BY <1>2, <3>4, TotalSplits
    <3>7. Total(uptimes, edge) \in Nat /\ Since(start) = Total(ran, most) /\ Since(start) \in Nat
          /\ Total(ran, counted) \in Nat
      BY <1>2, TotalIsCardinality DEF Since
    <3>8. Total(ran, counted) + Total(uptimes, edge) <= Total(ran, most)
      <4>1. CASE h \notin DOMAIN uptimes
        <5>1. edge \cap DOMAIN uptimes = {}
          BY <4>1
        <5>2. Total(uptimes, edge) = 0
          <6>1. Unfolded(uptimes, edge \cap DOMAIN uptimes) = {}
            BY <5>1 DEF Unfolded
          <6> QED BY <1>2, <6>1, TotalIsCardinality, FS_EmptySet
        <5>3. counted \subseteq most
          BY <1>2, <1>4, <1>9, <2>2
        <5>4. Total(ran, counted) <= Total(ran, most)
          <6> HIDE DEF counted, most
          <6> QED BY <1>2, <5>3, TotalGrows
        <5> QED BY <3>7, <5>2, <5>4
      <4>2. CASE h \in DOMAIN uptimes
        <5>0. h \in Hours /\ edge = {h}
          BY <1>2, <4>2
        <5>1. Total(uptimes, edge) = uptimes[h]
          BY <1>2, <4>2, <5>0, TotalOfOne
        <5>2. uptimes[h] <= Total(ran, extra)
          <6>1. /\ h >= m => uptimes[h] = ran[h]
                /\ h < m => uptimes[h] <= Total(ran, DayOf(h))
            BY <1>0, <4>2 DEF EdgeBefore, h
          <6>2. Total(ran, {h}) = ran[h] /\ ran[h] \in Nat
            BY <1>2, <5>0, TotalOfOne DEF Counts
          <6> QED BY <1>9, <6>1, <6>2
        <5>3. \A g \in extra : g \in Hours /\ h <= g /\ group(g) = h
          <6>1. CASE h >= m
            BY <1>9, <5>0, <6>1
          <6>2. CASE h < m
            <7>1. h = FlooredAtDay(h)
              BY <1>0, <4>2, <6>2 DEF EdgeBefore, h
            <7> TAKE g \in extra
            <7>2. g \in DayOf(h)
              BY <1>9, <6>2
            <7>3. g \in Hours /\ g \in Int /\ h <= g /\ g < h + Day /\ FlooredAtDay(g) = h
                  /\ FlooredAtDay(h) + Day <= m
              BY <1>0, <1>2, <5>0, <6>2, <7>2, DayOfProperties
            <7>4. ~ g >= m
              BY <1>1, <1>9, <7>1, <7>3
            <7> QED BY <7>3, <7>4
          <6> QED BY <1>9, <6>1, <6>2
        <5>9. \A g \in counted : g \in Hours /\ g \in Int /\ late <= 2 * group(g) /\ group(g) <= g
                                /\ group(g) \in Int
          BY <1>2, <1>4
        <5> HIDE DEF group, extra
        <5>4. counted \cap extra = {}
          <6> SUFFICES ASSUME NEW g \in counted, g \in extra PROVE FALSE
            OBVIOUS
          <6>1. group(g) = h /\ late <= 2 * group(g)
            BY <5>3, <5>9
          <6> QED BY <1>9, <2>2, <6>1
        <5>5. counted \cup extra \subseteq most
          <6>1. ASSUME NEW g \in counted PROVE g \in most
            <7>1. g \in Hours /\ g \in Int /\ late <= 2 * group(g) /\ group(g) <= g /\ group(g) \in Int
              BY <5>9
            <7>2. start <= 2 * g
              BY <1>9, <2>2, <7>1
            <7> QED BY <7>1, <7>2
          <6>2. ASSUME NEW g \in extra PROVE g \in most
            <7>1. g \in Hours /\ g \in Int /\ h <= g
              BY <1>2, <5>3
            <7>2. start <= 2 * g
              BY <1>9, <7>1
            <7> QED BY <7>1, <7>2
          <6> QED BY <6>1, <6>2
        <5> HIDE DEF counted, most
        <5>6. Total(ran, counted \cup extra) = Total(ran, counted) + Total(ran, extra)
          BY <1>2, <5>4, TotalSplits
        <5>7. Total(ran, counted \cup extra) <= Total(ran, most)
          BY <1>2, <5>5, TotalGrows
        <5>8. Total(ran, extra) \in Nat /\ Total(ran, counted) \in Nat
              /\ uptimes[h] \in Nat /\ Total(ran, most) \in Nat
          BY <1>2, <4>2, TotalIsCardinality DEF Counts
        <5> QED BY <5>1, <5>2, <5>6, <5>7, <5>8
      <4> QED BY <4>1, <4>2
    <3> HIDE DEF counted, edge, most
    <3> QED BY <3>1, <3>2, <3>3, <3>5, <3>6, <3>7, <3>8
  <2> QED BY <1>9, <2>1, <2>2
<1>11. ASSUME NEW from \in Starts(Retention) \cup ChartStarts(Retention - 1)
       PROVE  InDatabase(from) \in OfDaysSince(from)..Since(from)
  <2>1. from \in Int /\ from >= now - 2 * Retention
    <3>1. CASE from \in Starts(Retention)
      BY <1>1, <3>1 DEF Starts
    <3>2. CASE from \in ChartStarts(Retention - 1)
      <4>1. PICK w \in 1..Retention - 1 : from = ChartStart(w)
        BY <3>2 DEF ChartStarts
      <4>2. from = 2 * HourOf(now) - 2 * w
        BY <1>1, <1>8, <4>1
      <4> QED BY <1>1, <4>1, <4>2
    <3> QED BY <3>1, <3>2
  <2> QED BY <1>6, <2>1
<1>12. ASSUME NEW from \in Starts(Day) \cup ChartStarts(Day)
       PROVE  InDatabase(from) = Since(from)
  <2>1. from \in Int /\ from >= now - 2 * Day - 1
    <3>1. CASE from \in Starts(Day)
      BY <1>1, <3>1 DEF Starts
    <3>2. CASE from \in ChartStarts(Day)
      <4>1. PICK w \in 1..Day : from = ChartStart(w)
        BY <3>2 DEF ChartStarts
      <4>2. from = 2 * HourOf(now) - 2 * w
        BY <1>1, <1>8, <4>1
      <4> QED BY <1>1, <4>1, <4>2
    <3> QED BY <3>1, <3>2
  <2> QED BY <1>7, <2>1
<1> QED BY <1>10, <1>11, <1>12 DEF DatabaseUptimeIsClose

(***************************************************************************)
(* The memory store counts every execution of the time asked for, once,    *)
(* although its clean-up deletes entries now and then.                     *)
(***************************************************************************)
THEOREM UptimeIsCounted == UptimeSpec => []MemoryUptimeIsExact
<1>1. UptimeInit => UptimeTyped /\ HourlyExact
  BY UptimeStart
<1>2. UptimeTyped /\ HourlyExact /\ [UptimeNext]_uptimeVars => (UptimeTyped /\ HourlyExact)'
  BY TypedStep, ExactStep
<1>3. UptimeTyped /\ HourlyExact => MemoryUptimeIsExact
  BY ExactMemory
<1> QED BY <1>1, <1>2, <1>3, PTL DEF UptimeSpec

(***************************************************************************)
(* The database counts no execution twice or from before the time asked    *)
(* for, and loses at most the day in which it begins; of the last day,     *)
(* nothing.  That the chart of the whole retention starts on the hour, and *)
(* so before what merging keeps, costs at most a day that begins then.     *)
(***************************************************************************)
THEOREM MergingLosesADay == UptimeSpec => []DatabaseUptimeIsClose
<1>1. UptimeInit => UptimeTyped /\ RowsDaily
  BY UptimeStart
<1>2. UptimeTyped /\ RowsDaily /\ [UptimeNext]_uptimeVars => (UptimeTyped /\ RowsDaily)'
  BY TypedStep, DailyStep
<1>3. UptimeTyped /\ RowsDaily => DatabaseUptimeIsClose
  BY CloseDatabase
<1> QED BY <1>1, <1>2, <1>3, PTL DEF UptimeSpec

(***************************************************************************)
(* The entries stay few in both stores: a merge always gets down to its    *)
(* threshold, and the first execution after a pause removes old rows.      *)
(***************************************************************************)
THEOREM EntriesStayFew == UptimeSpec => []EntriesBounded
<1>1. UptimeInit => UptimeTyped /\ EntriesBounded
  BY UptimeStart
<1>2. UptimeTyped /\ EntriesBounded /\ [UptimeNext]_uptimeVars => (UptimeTyped /\ EntriesBounded)'
  BY TypedStep, BoundedStep
<1> QED BY <1>1, <1>2, PTL DEF UptimeSpec
=============================================================================
