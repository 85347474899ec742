--------------------------- MODULE MCTaskExecutor ---------------------------
EXTENDS TaskExecutor, TLC

CONSTANTS fetch, build, test

\* Graphs: test joins two independent tasks; a chain of three.
Join  == (fetch :> {}) @@ (build :> {}) @@ (test :> {fetch, build})
Chain == (fetch :> {}) @@ (build :> {fetch}) @@ (test :> {build})
Pair  == (fetch :> {}) @@ (build :> {fetch})

NoRetries    == [t \in Tasks |-> 0]
OneRetry     == [t \in Tasks |-> 1]
MCReports    == {-1, 1, 3}
RetryOnFetch == [t \in Tasks |-> IF t = fetch THEN 1 ELSE 0]
=============================================================================
