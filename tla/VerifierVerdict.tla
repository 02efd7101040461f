--------------------------- MODULE VerifierVerdict --------------------------
(***************************************************************************)
(* How the verifier's answer becomes a verdict (verifier.rs): the test     *)
(* plans associated with a change, their results from captured evidence    *)
(* and the normalisation of the declared verdict.  Pure definitions.       *)
(***************************************************************************)
EXTENDS Integers, SequencesExt, FiniteSets

CONSTANTS
  MaxVerifierPlans   \* MAX_VERIFIER_TEST_PLANS

\* associated_test_plan: every artifact or claim that carries a focused test is
\* a source [plan, single, usable]; single says that it names one identifier,
\* usable that its certificate is fresh and the patch left it alone.  Equal plans
\* collapse and are usable if all of them are and their command is supported; the
\* command is part of the plan's identity.
PlansOf(sources) == {s.plan : s \in {t \in sources : t.single}}

CommandSupported(turn, plan) == plan \notin turn.unsupported

PlanUsable(turn, plan) ==
  /\ CommandSupported(turn, plan)
  /\ \A s \in turn.sources : s.single /\ s.plan = plan => s.usable

TestExpected(sources) == sources # {}

OverCap(sources) == Cardinality(PlansOf(sources)) > MaxVerifierPlans

\* verify: plans are executed only in a trusted repository and a session that
\* may run tests.
PlanAvailable(turn, plan) ==
  turn.trusted /\ turn.canRun /\ PlanUsable(turn, plan)

\* A failed turn leaves no evidence.
EvidenceOf(turn, plan) ==
  {n \in DOMAIN turn.evidence : turn.ended /\ turn.evidence[n].plan = plan}

\* The evidence that was the only one of an earlier plan.
UsedBefore(turn, plan) ==
  {turn.evidence[n].id : n \in UNION {EvidenceOf(turn, p) :
     p \in {q \in PlansOf(turn.sources) : q < plan /\ Cardinality(EvidenceOf(turn, q)) = 1}}}

\* plan_results for one plan: exactly one piece of evidence, of the patched
\* snapshot, valid for the plan and run in its directory, and not also that of
\* an earlier plan.
PlanPassed(turn, plan) ==
  /\ PlanAvailable(turn, plan)
  /\ Cardinality(EvidenceOf(turn, plan)) = 1
  /\ \A n \in EvidenceOf(turn, plan) :
       /\ turn.evidence[n].patched /\ turn.evidence[n].valid
       /\ turn.evidence[n].id \notin UsedBefore(turn, plan)

\* The result kept for one plan: the first piece of evidence is named, unless it
\* was that of an earlier plan, and whatever did not pass has a reason.
PlanResult(turn, plan) ==
  LET ran == EvidenceOf(turn, plan)
      first == CHOOSE n \in ran : \A m \in ran : n <= m IN
  [plan |-> plan, available |-> PlanAvailable(turn, plan), executed |-> ran # {},
   passed |-> PlanPassed(turn, plan), reason |-> ~PlanPassed(turn, plan),
   evidence |-> IF ran = {} THEN {}
                ELSE IF Cardinality(ran) = 1 /\ turn.evidence[first].id \in UsedBefore(turn, plan)
                THEN {} ELSE {turn.evidence[first].id}]

\* plan_results: one per plan in the order of their digests, none over the bound.
PlanResults(turn) ==
  IF OverCap(turn.sources) THEN <<>>
  ELSE [n \in 1 .. Cardinality(PlansOf(turn.sources)) |->
          PlanResult(turn, CHOOSE plan \in PlansOf(turn.sources) :
                             Cardinality({p \in PlansOf(turn.sources) : p <= plan}) = n)]

PlansProven(turn) ==
  /\ PlansOf(turn.sources) # {}
  /\ ~OverCap(turn.sources)
  /\ \A plan \in PlansOf(turn.sources) : PlanPassed(turn, plan)

\* The response as it is taken: a failed turn, an invalid response, one that
\* exceeds a bound or does not cover each criterion once is inconclusive.
TakenVerdict(turn) ==
  IF turn.ended /\ turn.covers # "wrong" /\ turn.verdict # "not_requested"
  THEN turn.verdict ELSE "inconclusive"

\* The findings that count against a verified verdict.
HasFindings(turn) ==
  \/ turn.findings \/ TakenVerdict(turn) = "inconclusive"
  \/ TestExpected(turn.sources) /\ ~PlansProven(turn)

UndeclaredEvidence(turn) ==
  TestExpected(turn.sources)
    /\ \E n \in DOMAIN turn.evidence : turn.evidence[n].plan \notin PlansOf(turn.sources)

\* normalize_verifier_turn
NormalizedVerdict(turn) ==
  LET taken == TakenVerdict(turn)
      tested == IF TestExpected(turn.sources) /\ ~PlansProven(turn)
                     /\ taken \in {"verified", "repairable"}
                THEN "inconclusive" ELSE taken
      bounded == IF turn.ended /\ (OverCap(turn.sources) \/ UndeclaredEvidence(turn))
                 THEN "inconclusive" ELSE tested IN
  IF bounded = "verified" /\ (turn.covers # "addressed" \/ HasFindings(turn) \/ turn.gaps)
  THEN "inconclusive" ELSE bounded

-----------------------------------------------------------------------------
(* The stored artifact.                                                    *)

\* The results' evidence ids, in their order; a result names at most one.
EvidenceIds(results) ==
  FlattenSeq([n \in DOMAIN results |-> SetToSeq(results[n].evidence)])

\* compute_id_with_plan_results: what is hashed.  Without results and inside the
\* bound the evidence ids are sorted, so only their multitude counts.
Identity(artifact) ==
  IF artifact.results = <<>> /\ ~artifact.overCap
  THEN <<artifact.verdict, artifact.findings, SortSeq(artifact.evidence, LAMBDA i, j : i < j)>>
  ELSE <<artifact.verdict, artifact.findings, artifact.evidence, artifact.results, artifact.overCap>>

\* verify: the artifact of a turn; findings says whether the bound is named.
ArtifactOf(turn) ==
  LET artifact == [verdict |-> NormalizedVerdict(turn), results |-> PlanResults(turn),
                   evidence |-> EvidenceIds(PlanResults(turn)),
                   overCap |-> OverCap(turn.sources), findings |-> OverCap(turn.sources)]
  IN  [artifact |-> artifact, id |-> Identity(artifact)]

\* The conditions of is_canonical on one plan's record.
RecordValid(turn, r) ==
  /\ CommandSupported(turn, r.plan)
  /\ r.executed <=> r.evidence # {}
  /\ r.passed => r.available /\ r.executed /\ ~r.reason
  /\ r.passed \/ r.reason

\* is_canonical, without which record_verification_artifact refuses the verdict.
IsCanonical(turn, stored) ==
  LET a == stored.artifact IN
  /\ Len(a.results) <= MaxVerifierPlans \/ a.overCap
  /\ Len(a.evidence) <= MaxVerifierPlans \/ (a.results = <<>> /\ ~a.overCap)
  /\ a.overCap => a.results = <<>> /\ a.evidence = <<>> /\ a.findings
  /\ \A m, n \in DOMAIN a.results : m < n => a.results[m].plan < a.results[n].plan
  /\ IsInjective(a.evidence)
  /\ \A n \in DOMAIN a.results : RecordValid(turn, a.results[n])
  /\ a.results # <<>> => a.evidence = EvidenceIds(a.results)
  /\ a.verdict = "verified" =>
       /\ ~a.overCap
       /\ \A n \in DOMAIN a.results : a.results[n].passed
  /\ stored.id = Identity(a)

\* verify never loses a verdict it has reached: as long as the commands of the
\* plans are supported and no two pieces of evidence share an id, the artifact it
\* builds is one that the store takes, whatever the evidence says.  (A plan with
\* an unsupported command is meant to make the verdict inconclusive; its record
\* is not canonical, so nothing is stored.)
VerdictIsStorable(turn, stored) ==
  /\ \A plan \in PlansOf(turn.sources) : CommandSupported(turn, plan)
  /\ \A m, n \in DOMAIN turn.evidence :
       turn.evidence[m].id = turn.evidence[n].id => m = n
  => IsCanonical(turn, stored)

\* A change counts as verified only if the verifier said so without reserve and
\* every test the change is associated with ran once, in the patched checkout,
\* and passed; a test that is missing, stale, repeated, shared or over the
\* bound never authorises a repair either, and no verdict is invented.
VerdictIsEarned(turn, verdict) ==
  LET plans == {s.plan : s \in {t \in turn.sources : t.single}}
      ran(p) == {n \in DOMAIN turn.evidence : turn.evidence[n].plan = p} IN
  /\ verdict \in {"verified", "repairable"} =>
       /\ turn.ended /\ turn.verdict = verdict
       /\ turn.sources # {} =>
            /\ plans # {} /\ Cardinality(plans) <= MaxVerifierPlans
            /\ turn.trusted
            /\ \A s \in turn.sources : s.single => s.usable /\ s.plan \notin turn.unsupported
            /\ \A p \in plans : \E n \in ran(p) :
                 /\ ran(p) = {n}
                 /\ turn.evidence[n].patched /\ turn.evidence[n].valid
            /\ \A m, n \in DOMAIN turn.evidence :
                 turn.evidence[m].id = turn.evidence[n].id => m = n
  /\ verdict = "verified" => turn.covers = "addressed" /\ ~turn.findings /\ ~turn.gaps
  /\ verdict \in {turn.verdict, "inconclusive"}

=============================================================================
