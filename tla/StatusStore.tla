----------------------------- MODULE StatusStore -----------------------------
(***************************************************************************)
(* What the store promises about the statuses of endpoints, as a           *)
(* sequential store: per key the newest results and the newest events.     *)
(***************************************************************************)
EXTENDS StatusRules

VARIABLES
    results,    \* Status.Results per key, none for a key without a status
    events      \* Status.Events per key

vars == <<results, events>>

TypeOK ==
    /\ results \in [Keys -> Seq(BOOLEAN)]
    /\ events \in [Keys -> Seq(EventTypes)]

Init ==
    /\ results = [k \in Keys |-> <<>>]
    /\ events = [k \in Keys |-> <<>>]

InsertEndpointResult(k, success) ==
    /\ results' = [results EXCEPT ![k] = Newest(Append(@, success), MaxResults)]
    /\ events' = [events EXCEPT
            ![k] = Newest(EventsWith(results[k], @, success), MaxEvents)]

DeleteAllEndpointStatusesNotInKeys(keys) ==
    /\ results' = [k \in Keys |-> IF k \in keys THEN results[k] ELSE <<>>]
    /\ events' = [k \in Keys |-> IF k \in keys THEN events[k] ELSE <<>>]

Next ==
    \/ \E k \in Keys, success \in BOOLEAN : InsertEndpointResult(k, success)
    \/ \E keys \in SUBSET Keys : DeleteAllEndpointStatusesNotInKeys(keys)

Spec == Init /\ [][Next]_vars
-----------------------------------------------------------------------------
(***************************************************************************)
(* The newest event of a key is the outcome of its newest result, and no   *)
(* event repeats the one before (NewEventFromResult in event.go).          *)
(***************************************************************************)
EventsFollowResults == \A k \in Keys : InStep(results[k], events[k])
=============================================================================
