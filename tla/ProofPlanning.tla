---------------------------- MODULE ProofPlanning ----------------------------
(***************************************************************************)
(* The proof planner (needle-runtime/src/proof.rs): an exact set cover of  *)
(* a need's obligations by reusable candidates, computed by a dynamic      *)
(* program over sets of covered obligations.  A first pass finds the best  *)
(* coverage with the fewest candidates, a second the cheapest selection    *)
(* with that coverage.                                                     *)
(*                                                                         *)
(* Obligations are numbered 1 .. N, a mask is a set of them; a candidate   *)
(* is [covers, exact, cost, claims], where covers is the set of the        *)
(* obligations it satisfies and claims is true for a claim component.      *)
(***************************************************************************)
EXTENDS Integers, Sequences, FiniteSets, FiniteSetsExt, Folds

CONSTANTS
  MaxArtifacts   \* budget.max_artifacts

ASSUME MaxArtifactsAssumption == MaxArtifacts \in Nat

Masks(n) == SUBSET (1 .. n)

-----------------------------------------------------------------------------
(* Plan states: a selection, as a set of candidate numbers, and its cost.  *)

NoState == [found |-> FALSE, selected |-> {}, cost |-> 0]

Root == [found |-> TRUE, selected |-> {}, cost |-> 0]

\* Comparison of two sets as bit masks.
BitsLess(a, b) ==
  LET differ == (a \ b) \cup (b \ a) IN differ # {} /\ Max(differ) \in b

\* PlanState::better_than.
FewerThan(s, t) ==
  \/ Cardinality(s.selected) < Cardinality(t.selected)
  \/ Cardinality(s.selected) = Cardinality(t.selected) /\ BitsLess(s.selected, t.selected)

\* EconomicState::better_than.
CheaperThan(s, t) == s.cost < t.cost \/ (s.cost = t.cost /\ FewerThan(s, t))

\* The order of the first pass, which looks for validity, or of the second.
Better(pass, s, t) == IF pass = "validity" THEN FewerThan(s, t) ELSE CheaperThan(s, t)

\* The best of some states.
Best(states, pass) ==
  LET found == {s \in states : s.found}
  IN  IF found = {} THEN NoState
      ELSE CHOOSE s \in found : \A t \in found : t = s \/ Better(pass, s, t)

\* One round of the program, for one candidate.  The masks are visited from the
\* largest down, so that a state never builds on one of the same round.
Round(states, n, number, candidate, pass) ==
  [mask \in Masks(n) |->
     Best({states[mask]} \cup
          {[found |-> TRUE, selected |-> states[m].selected \cup {number},
            cost |-> states[m].cost + candidate.cost]
             : m \in {m \in Masks(n) :
                        /\ candidate.covers # {} /\ m \cup candidate.covers = mask
                        /\ states[m].found
                        /\ Cardinality(states[m].selected) < MaxArtifacts}},
          pass)]

\* All rounds, candidate by candidate.
Rounds(n, candidates, pass) ==
  MapThenFoldSet(LAMBDA k, states : Round(states, n, k, candidates[k], pass),
                 [mask \in Masks(n) |-> IF mask = {} THEN Root ELSE NoState],
                 LAMBDA k : k,
                 LAMBDA S : Max(S),
                 DOMAIN candidates)

\* best_partial_mask: the largest coverage, with the fewest candidates, then
\* the smallest mask.
BestPartialMask(n, states) ==
  LET Beats(m, k) ==
        \/ Cardinality(m) > Cardinality(k)
        \/ /\ Cardinality(m) = Cardinality(k)
           /\ \/ Cardinality(states[m].selected) < Cardinality(states[k].selected)
              \/ /\ Cardinality(states[m].selected) = Cardinality(states[k].selected)
                 /\ BitsLess(m, k)
      found == {m \in Masks(n) : states[m].found}
  IN  CHOOSE m \in found : \A k \in found : k = m \/ Beats(m, k)

\* plan_validity: a full cover when there is one and nothing is residual.
ValidMask(need, states) ==
  IF ~need.residual /\ states[1 .. need.count].found THEN 1 .. need.count
  ELSE BestPartialMask(need.count, states)

StateAt(states, mask) == [covered |-> mask, selected |-> states[mask].selected]

PlanFromStates(need, states) == StateAt(states, ValidMask(need, states))

PlanValidity(need, candidates) ==
  PlanFromStates(need, Rounds(need.count, candidates, "validity"))

\* plan_economics: the cheapest selection with that coverage.
PlanEconomics(need, candidates, mask) ==
  Rounds(need.count, candidates, "economics")[mask].selected

\* ProofResolutionKind.
Kind(need, candidates, selected, full) ==
  IF selected = {} THEN "miss"
  ELSE IF ~full THEN "partial"
  ELSE IF Cardinality(selected) > 1 THEN "composite"
  ELSE IF \E k \in selected : candidates[k].exact THEN "exact" ELSE "coverage"

\* sufficiency_certificate: the first selected candidate that satisfies each
\* obligation.
SatisfactionSteps(covered, candidates, selected) ==
  [o \in {o \in covered : \E k \in selected : o \in candidates[k].covers} |->
     Min({k \in selected : o \in candidates[k].covers})]

\* ProofPlanner::plan.
PlanOf(need, candidates, covered, selected) ==
  LET full == covered = 1 .. need.count /\ ~need.residual
  IN  [covered |-> covered, missing |-> (1 .. need.count) \ covered,
       selected |-> selected, kind |-> Kind(need, candidates, selected, full),
       certified |-> full, steps |-> SatisfactionSteps(covered, candidates, selected)]

CheapestPlan(need, candidates, covered) ==
  PlanOf(need, candidates, covered, PlanEconomics(need, candidates, covered))

Plan(need, candidates) ==
  CheapestPlan(need, candidates, PlanValidity(need, candidates).covered)

\* replay: the certificate accounts for every obligation.
Replays(need, candidates, plan) ==
  plan.certified =>
    /\ ~need.residual
    /\ \A o \in 1 .. need.count :
         /\ o \in DOMAIN plan.steps
         /\ plan.steps[o] \in plan.selected /\ o \in candidates[plan.steps[o]].covers

\* plan_claim_advisory: the selection of the validity pass, when a claim
\* component takes part in it.
AdvisedPlan(need, candidates, covered, selected, claims) ==
  [found |-> claims # {}, covered |-> covered, missing |-> (1 .. need.count) \ covered,
   selected |-> selected, claims |-> claims,
   obligations |-> UNION {candidates[k].covers : k \in claims},
   kind |-> IF covered # 1 .. need.count THEN "partial"
            ELSE IF claims = selected /\ Cardinality(claims) = 1
            THEN "claim" ELSE "claim composite"]

AdviceFrom(need, candidates, validity) ==
  AdvisedPlan(need, candidates, validity.covered, validity.selected,
              {k \in validity.selected : candidates[k].claims})

ClaimPlan(need, candidates) == AdviceFrom(need, candidates, PlanValidity(need, candidates))

-----------------------------------------------------------------------------
(* What a plan promises.                                                   *)

Coverage(candidates, selected) == UNION {candidates[k].covers : k \in selected}

Selections(candidates) == {s \in SUBSET DOMAIN candidates : Cardinality(s) <= MaxArtifacts}

\* The selection covers exactly the mask of the plan.
SelectionCoversMask(candidates, plan) == Coverage(candidates, plan.selected) = plan.covered

\* No selection within the budget covers more, or the same for less.
IsBestCover(candidates, plan) ==
  LET Cost(s) == MapThenSumSet(LAMBDA k : candidates[k].cost, s)
  IN  \A s \in Selections(candidates) :
        /\ Cardinality(Coverage(candidates, s)) <= Cardinality(plan.covered)
        /\ Coverage(candidates, s) = plan.covered
             => \/ Cost(plan.selected) < Cost(s)
                \/ /\ Cost(plan.selected) = Cost(s)
                   /\ Cardinality(plan.selected) <= Cardinality(s)

\* The kind says what was found.
KindIsHonest(need, candidates, plan) ==
  /\ plan.kind \in {"exact", "coverage", "composite"}
       <=> plan.certified /\ plan.selected # {}
  /\ plan.kind = "exact" => \E k \in DOMAIN candidates :
       plan.selected = {k} /\ candidates[k].exact /\ candidates[k].covers = 1 .. need.count
=============================================================================
