------------------------------- MODULE Paging -------------------------------
(***************************************************************************)
(* Pages of a status, the newest results on the first one: what a request  *)
(* asks for (app/api/util.go) and how the memory store cuts it out         *)
(* (app/storage/store/memory/util.go).  An int wraps around.               *)
(***************************************************************************)
EXTENDS Integers, Sequences

CONSTANTS
    Word,            \* the number of values of an int
    DefaultPageSize

ASSUME PagingAssumption ==
    /\ Word \in Nat \ {0} /\ Word % 2 = 0
    /\ DefaultPageSize \in Nat \ {0}

DefaultPage == 1

Wrap(i) == ((i + Word \div 2) % Word) - Word \div 2

\* The page of a request; a parameter that is missing or no number is
\* like a 0 for the page, and has the default page size.
RequestedPage(asked) == IF asked < 1 THEN DefaultPage ELSE asked

RequestedPageSize(page, asked, maxResults) ==
    IF page = 1 /\ asked > maxResults THEN maxResults
    ELSE IF asked < 1 THEN DefaultPageSize
    ELSE asked

\* getStartAndEndIndex: [from, to) with -1 for what does not exist.
Bounds(n, page, pageSize) ==
    LET start == Wrap(n - Wrap(page * pageSize))
        end   == Wrap(n - Wrap((page - 1) * pageSize))
    IN  IF page < 1 \/ pageSize < 0 THEN [from |-> -1, to |-> -1]
        ELSE [from |-> IF start > n THEN -1 ELSE IF start < 0 THEN 0 ELSE start,
              to   |-> IF end > n THEN n ELSE end]

Exists(bounds) == bounds.from >= 0 /\ bounds.to >= 0

\* The slice expression does not panic.
InRange(bounds, n) == Exists(bounds) => bounds.from <= bounds.to /\ bounds.to <= n

\* The positions of a page, for reference: the newest one has rank 0.
OnPage(n, page, pageSize) ==
    {i \in 1..n : (page - 1) * pageSize <= n - i /\ n - i < page * pageSize}
=============================================================================
