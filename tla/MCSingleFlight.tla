--------------------------- MODULE MCSingleFlight ---------------------------
(* Instances of SingleFlight for TLC: two calls, each in a process.        *)
EXTENDS SingleFlight, TLC

CONSTANTS r1, r2, p1, p2

Pair == r1 :> p1 @@ r2 :> p2

\* The second call may be one that must not run a worker.
SecondMayBeCacheOnly == r1 :> {TRUE} @@ r2 :> {TRUE, FALSE}

BothMayRunWorkers == r1 :> {TRUE} @@ r2 :> {TRUE}

First == {[dep |-> "d1", other |-> "o1"]}
=============================================================================
