------------------------------ MODULE LivePilot ------------------------------
(***************************************************************************)
(* The pilot (minimal_live_pilot.rs): one task observed in up to three     *)
(* arms (the main model alone, Needle with an empty cache, Needle again    *)
(* with what the second arm published), or several tasks in two arms, and  *)
(* the gate over what was observed.  The pilot makes capabilities          *)
(* authoritative by itself, without a user, in a store of its own.         *)
(*                                                                         *)
(* What a session does is an input: an arm says how it ran, what its       *)
(* worker runs and its first resolve were, what it cost and which          *)
(* artifacts it left with a validation certificate.  Any step may fail and *)
(* ends the run without a report.                                          *)
(***************************************************************************)
EXTENDS Integers, Sequences, FiniteSets

Folding == INSTANCE Functions

CONSTANTS
  MainArms, MissArms, HitArms,  \* what the sessions of each arm may do
  MaxTasks                      \* tasks of a multi-task campaign

VARIABLE pilot

pilotVars == <<pilot>>

ASSUME PilotConstants == MaxTasks \in Nat \ {0}

PilotModes == [offline : BOOLEAN, kind : {"legacy", "economic", "trace reuse", "multi task"}]
Economic(m) == m.kind \in {"economic", "trace reuse"}

Unpriced == -1

\* A price is a u64, where there is one.
ASSUME ArmsArePriced ==
  \A arm \in MainArms \cup MissArms \cup HitArms : {arm.main, arm.worker} \subseteq Nat \cup {Unpriced}

NoResolve == [status |-> "none", kind |-> "none", proved |-> FALSE, artifacts |-> {}]

\* skipped: an arm that was not run.
Skipped ==
  [transport |-> FALSE, process |-> FALSE, quality |-> FALSE, runs |-> <<>>, discovery |-> 0,
   evidence |-> 0, main |-> Unpriced, worker |-> Unpriced, resolve |-> NoResolve, need |-> 0,
   plan |-> {}, certified |-> {}, proof |-> FALSE]

IdlePilot ==
  [at |-> "idle", mode |-> [offline |-> TRUE, kind |-> "legacy"], main |-> Skipped,
   miss |-> Skipped, hit |-> Skipped, observed |-> {}, certified |-> {}, authoritative |-> {},
   costs |-> <<>>, tasks |-> <<>>, report |-> "none"]

-----------------------------------------------------------------------------
(* What an arm shows (observe_arm, MinimalLiveArm).                        *)

MAXIMUM_MISS_LOGICAL_WORKERS == 1

\* observe_arm: the worker runs of an arm are the rows added since it began.
Spawns(arm) == Folding!FoldFunction(+, 0, [i \in DOMAIN arm.runs |-> arm.runs[i].spawns])
Turns(arm) == Folding!FoldFunction(+, 0, [i \in DOMAIN arm.runs |-> arm.runs[i].turns])
Repaired(arm) == \E i \in DOMAIN arm.runs : arm.runs[i].repaired
WorkerObserved(arm) == arm.runs # <<>> \/ Spawns(arm) > 0 \/ Turns(arm) > 0

\* total_cost_microcredits
TotalCost(arm) ==
  IF arm.main = Unpriced \/ (WorkerObserved(arm) /\ arm.worker = Unpriced) THEN Unpriced
  ELSE arm.main + (IF WorkerObserved(arm) THEN arm.worker ELSE 0)

valid_worker_count(arm) ==
  Len(arm.runs) = Spawns(arm) /\ Spawns(arm) \in 1..MAXIMUM_MISS_LOGICAL_WORKERS

valid_main_only_arm(arm) ==
  arm.transport /\ arm.process /\ ~WorkerObserved(arm) /\ arm.resolve = NoResolve

valid_miss(arm) ==
  /\ arm.transport /\ arm.process
  /\ valid_worker_count(arm)
  /\ Turns(arm) = Spawns(arm) /\ ~Repaired(arm)
  /\ arm.resolve.status = "generated" /\ arm.resolve.kind = "miss"

\* A coverage hit always carries its proof; `proved' says that the others do.
valid_proof_hit(arm) ==
  /\ arm.transport /\ arm.process /\ arm.runs = <<>>
  /\ arm.resolve.status = "hit" /\ arm.resolve.kind = "coverage"

valid_economic_hit(arm) ==
  /\ arm.transport /\ arm.process /\ ~WorkerObserved(arm)
  /\ arm.resolve.status = "hit"
  /\ arm.resolve.kind = "coverage" \/ (arm.resolve.kind \in {"exact", "composite"} /\ arm.resolve.proved)

ValidHit(m, arm) == valid_proof_hit(arm) \/ (Economic(m) /\ valid_economic_hit(arm))

\* savings_basis_points, or 0 where it gives none.
savings_basis_points(baseline, candidate) ==
  IF baseline \in {Unpriced, 0} \/ candidate = Unpriced THEN 0
  ELSE IF candidate >= baseline THEN -(((candidate - baseline) * 10000) \div baseline)
       ELSE ((baseline - candidate) * 10000) \div baseline

Saves(baseline, candidate) == savings_basis_points(baseline, candidate) > 0

-----------------------------------------------------------------------------
(* The gate (evaluate_report).                                             *)

ReusedArtifacts(p) == p.hit.resolve.artifacts \cup p.hit.plan
ExpectedReuse(m) == IF m.kind = "trace reuse" THEN 2 ELSE 1
SameArtifact(p) ==
  Cardinality(ReusedArtifacts(p)) >= ExpectedReuse(p.mode) /\ ReusedArtifacts(p) \subseteq p.certified

Proof(p) == p.miss.proof \/ p.hit.proof
ZeroWorker(arm) == arm.runs = <<>> /\ arm.resolve # NoResolve /\ arm.resolve.status # "generated"

RequiredPredicates(m) ==
  IF m.kind = "trace reuse" THEN <<"location", "flow", "tests">> ELSE <<"location">>
Promoted(p) == p.authoritative = {RequiredPredicates(p.mode)[i] : i \in DOMAIN RequiredPredicates(p.mode)}

\* The checks both kinds of pilot make.
CommonChecks(p) ==
  /\ valid_miss(p.miss)
  /\ p.miss.quality /\ p.hit.quality /\ (Economic(p.mode) => p.main.quality)
  /\ ValidHit(p.mode, p.hit) /\ Proof(p)
  /\ ZeroWorker(p.hit)
  /\ valid_worker_count(p.miss)
  /\ Turns(p.miss) = Spawns(p.miss) /\ ~Repaired(p.miss)
  /\ p.miss.discovery = 0 /\ p.hit.discovery = 0
  /\ SameArtifact(p)
  /\ TotalCost(p.miss) # Unpriced /\ TotalCost(p.hit) # Unpriced
  /\ Promoted(p)
  /\ p.miss.certified # {}

EconomicChecks(p) ==
  /\ valid_main_only_arm(p.main)
  /\ p.miss.need # 0 /\ p.miss.need = p.hit.need
  /\ TotalCost(p.main) # Unpriced
  /\ Saves(TotalCost(p.main), TotalCost(p.miss))
  /\ Saves(TotalCost(p.miss), TotalCost(p.hit))
  /\ Saves(TotalCost(p.main), TotalCost(p.hit))

ExpectedCertificates(m) ==
  CASE m.kind = "trace reuse" -> 3
    [] m.kind = "economic"    -> 1
    [] OTHER                  -> 2

OfflineChecks(p) ==
  /\ Len(p.miss.runs) = 1 /\ Spawns(p.miss) = 1 /\ p.hit.runs = <<>>
  /\ Cardinality(p.miss.certified) = ExpectedCertificates(p.mode)
  /\ p.miss.evidence <= MAXIMUM_MISS_LOGICAL_WORKERS

evaluate_report(p, clean) ==
  /\ CommonChecks(p) /\ clean
  /\ IF Economic(p.mode) THEN EconomicChecks(p) ELSE TotalCost(p.hit) < TotalCost(p.miss)
  /\ p.mode.offline => OfflineChecks(p)

-----------------------------------------------------------------------------
(* One run of execute.                                                     *)

Report(p, passed) == [p EXCEPT !.at = "ended", !.report = IF passed THEN "passed" ELSE "failed"]

\* load_protocol refuses every manifest: provider runs are closed in this
\* build; the legacy loader serves the offline simulator.
load_protocol(m) == m.offline

\* run: the mode, the loader and the checks of the arguments.
StartPilot(m) ==
  /\ pilot.at = "idle"
  /\ pilot' = IF ~load_protocol(m) THEN [pilot EXCEPT !.mode = m, !.at = "refused"]
              ELSE [pilot EXCEPT !.mode = m,
                                 !.at = CASE m.kind = "multi task" -> "task main"
                                          [] Economic(m) -> "main"
                                          [] OTHER -> "miss"]

\* The main model alone; when it fails, no further session is started.
ObserveMainOnly(arm, clean) ==
  /\ pilot.at = "main"
  /\ LET p == [pilot EXCEPT !.main = arm, !.observed = @ \cup {"main"}]
     IN  pilot' = IF valid_main_only_arm(arm) THEN [p EXCEPT !.at = "miss"]
                  ELSE Report(p, evaluate_report(p, clean))

\* Needle with an empty cache.  A valid miss that left a certified artifact
\* is worth a second visit.
ObserveMiss(arm) ==
  /\ pilot.at = "miss"
  /\ pilot' = [pilot EXCEPT !.miss = arm, !.observed = @ \cup {"miss"}, !.certified = arm.certified,
                            !.at = IF valid_miss(arm) /\ arm.certified # {} THEN "fresh cost"
                                   ELSE "closing"]

\* record_route_cost_observation, first of the observed miss, then of the
\* estimate that stands for a hit.
RecordFreshCost ==
  /\ pilot.at = "fresh cost"
  /\ pilot' = [pilot EXCEPT !.costs = Append(@, "fresh"), !.at = "bootstrap cost"]

RecordBootstrapCost ==
  /\ pilot.at = "bootstrap cost"
  /\ pilot' = [pilot EXCEPT !.costs = Append(@, "reuse_bootstrap"), !.at = "promoting"]

\* set_capability_mode, one transaction per predicate the route needs.
PromoteNext ==
  /\ pilot.at = "promoting"
  /\ ~Promoted(pilot)
  /\ pilot' = [pilot EXCEPT !.authoritative =
                 @ \cup {RequiredPredicates(pilot.mode)[Cardinality(@) + 1]}]

\* Needle again, cache only, in settings for the hit.
ObserveHit(arm) ==
  /\ pilot.at = "promoting"
  /\ Promoted(pilot)
  /\ pilot' = [pilot EXCEPT !.hit = arm, !.observed = @ \cup {"hit"}, !.at = "closing",
                            !.certified = @ \cup arm.certified]

\* A valid hit replaces the estimate by what it cost; then the report.
ClosePilot(clean) ==
  /\ pilot.at = "closing"
  /\ LET priced == ValidHit(pilot.mode, pilot.hit) /\ TotalCost(pilot.hit) # Unpriced
         p == [pilot EXCEPT !.costs = IF priced THEN Append(@, "reuse") ELSE @]
     IN  pilot' = Report(p, evaluate_report(p, clean))

-----------------------------------------------------------------------------
(* A campaign of several tasks, each with a store of its own.              *)

\* observe_pair: the second arm is run whatever became of the first.
ObserveTaskMain(arm) ==
  /\ pilot.at = "task main"
  /\ pilot' = [pilot EXCEPT !.main = arm, !.at = "task miss"]

TaskPassed(main, miss, clean) ==
  /\ main.transport /\ main.process
  /\ main.quality /\ miss.quality
  /\ valid_miss(miss) /\ Spawns(miss) = 1 /\ Turns(miss) = 1 /\ miss.certified # {}
  /\ miss.discovery = 0
  /\ TotalCost(main) # Unpriced /\ TotalCost(miss) # Unpriced
  /\ clean

ObserveTaskMiss(arm, clean) ==
  /\ pilot.at = "task miss"
  /\ LET task == [main |-> pilot.main, miss |-> arm, passed |-> TaskPassed(pilot.main, arm, clean)]
     IN  pilot' = [pilot EXCEPT !.tasks = Append(@, task), !.main = Skipped,
                                !.at = IF Len(pilot.tasks) + 1 = MaxTasks THEN "task report"
                                       ELSE "task main"]

\* The campaign passes when every task does, with as many workers as tasks
\* and a total that can be priced.
ReportTasks(clean) ==
  /\ pilot.at = "task report"
  /\ LET tasks == pilot.tasks
         workers == Folding!FoldFunction(+, 0, [i \in DOMAIN tasks |-> Spawns(tasks[i].miss)])
     IN  pilot' = Report(pilot, /\ \A i \in DOMAIN tasks : tasks[i].passed
                                /\ clean
                                /\ workers = Len(tasks)
                                /\ \A i \in DOMAIN tasks : /\ TotalCost(tasks[i].main) # Unpriced
                                                           /\ TotalCost(tasks[i].miss) # Unpriced)

\* A failing store, file or price ends the run where it is, without a report.
AbortPilot ==
  /\ pilot.at \notin {"idle", "refused", "aborted", "ended"}
  /\ pilot' = [pilot EXCEPT !.at = "aborted"]

-----------------------------------------------------------------------------
PilotInit == pilot = IdlePilot

PilotNext ==
  \/ \E m \in PilotModes : StartPilot(m)
  \/ \E arm \in MainArms : ObserveTaskMain(arm)
  \/ \E arm \in MainArms, clean \in BOOLEAN : ObserveMainOnly(arm, clean)
  \/ \E arm \in MissArms : ObserveMiss(arm)
  \/ \E arm \in MissArms, clean \in BOOLEAN : ObserveTaskMiss(arm, clean)
  \/ RecordFreshCost
  \/ RecordBootstrapCost
  \/ PromoteNext
  \/ \E arm \in HitArms : ObserveHit(arm)
  \/ \E clean \in BOOLEAN : ClosePilot(clean)
  \/ \E clean \in BOOLEAN : ReportTasks(clean)
  \/ AbortPilot

PilotSpec == PilotInit /\ [][PilotNext]_pilotVars

-----------------------------------------------------------------------------
\* A pilot earns what it claims.  However it ends, also when a promotion was
\* cut short, a capability is authoritative only after a valid fresh answer
\* with certified artifacts and both cost rows (execute); a session is started
\* only when the arm before it was worth it; and a report that passes means
\* that the second visit called no worker, reused nothing but artifacts that
\* were certified, and cost less than the first, which in the economic pilot
\* cost less than the main model alone (evaluate_report).
PilotEarnsItsClaims ==
  /\ pilot.authoritative # {} =>
       /\ valid_miss(pilot.miss) /\ pilot.miss.certified # {}
       /\ {"fresh", "reuse_bootstrap"} \subseteq {pilot.costs[i] : i \in DOMAIN pilot.costs}
  /\ "hit" \in pilot.observed => Promoted(pilot)
  /\ Economic(pilot.mode) /\ "miss" \in pilot.observed => valid_main_only_arm(pilot.main)
  /\ pilot.report = "passed" /\ pilot.mode.kind # "multi task" =>
       /\ Spawns(pilot.hit) = 0
       /\ ReusedArtifacts(pilot) # {} /\ ReusedArtifacts(pilot) \subseteq pilot.certified
       /\ TotalCost(pilot.hit) < TotalCost(pilot.miss)
       /\ Economic(pilot.mode) => TotalCost(pilot.miss) < TotalCost(pilot.main)
  /\ pilot.report = "passed" /\ pilot.mode.kind = "multi task" =>
       \A i \in DOMAIN pilot.tasks : Len(pilot.tasks[i].miss.runs) = 1
=============================================================================
