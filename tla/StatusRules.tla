----------------------------- MODULE StatusRules -----------------------------
(***************************************************************************)
(* How the store derives the events of an endpoint from its results, and   *)
(* what it shows of both: InsertEndpointResult and the queries of          *)
(* getEndpointStatusByKey (app/storage/store/sql/sql.go).                  *)
(*                                                                         *)
(* A result is its Success, an event its type; timestamps and the rest of  *)
(* a result are left out.                                                  *)
(***************************************************************************)
EXTENDS Naturals, Sequences

CONSTANTS
    Keys,       \* keys of endpoints
    MaxResults, \* maximumNumberOfResults
    MaxEvents   \* maximumNumberOfEvents

ASSUME StoreAssumption ==
    /\ MaxResults \in Nat \ {0}
    /\ MaxEvents \in Nat \ {0}

EventTypes == {"START", "HEALTHY", "UNHEALTHY"}

LastOf(seq) == seq[Len(seq)]

\* The n last elements, oldest first.
Newest(seq, n) ==
    IF Len(seq) <= n THEN seq ELSE SubSeq(seq, Len(seq) - n + 1, Len(seq))

NewEventFromResult(success) == IF success THEN "HEALTHY" ELSE "UNHEALTHY"

\* The events after one more result: START and the outcome for the first one,
\* later the outcome whenever it is not that of the result before.
EventsWith(rs, es, success) ==
    IF rs = <<>> THEN <<"START", NewEventFromResult(success)>>
    ELSE IF LastOf(rs) = success THEN es
    ELSE Append(es, NewEventFromResult(success))

\* The events tell the same story as the results: the newest event is the
\* outcome of the newest result, and no event repeats the one before.
InStep(rs, es) ==
    /\ rs = <<>> <=> es = <<>>
    /\ rs # <<>> => LastOf(es) = NewEventFromResult(LastOf(rs))
    /\ \A n \in 1..Len(es) - 1 : es[n] # es[n + 1]
=============================================================================
