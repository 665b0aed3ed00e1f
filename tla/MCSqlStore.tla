----------------------------- MODULE MCSqlStore -----------------------------
(* Two endpoints, the key of the first one is a prefix of the other key. *)
EXTENDS SqlStore

CONSTANTS core, corefe

MCKeys == {core, corefe}
MCMatches == [k \in MCKeys |-> IF k = core THEN MCKeys ELSE {corefe}]

\* SQLite, and what PostgreSQL can do: two transactions at a time, or failures.
\* Both together have too many states.
SQLite == [connections |-> 1, faults |-> FALSE]
Concurrent == [connections |-> 2, faults |-> FALSE]
Faulty == [connections |-> 1, faults |-> TRUE]

MCConfigurations == {MCKeys, {core}}

MCDatabases == {SQLite, Concurrent, Faulty}
=============================================================================
