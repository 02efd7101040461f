----------------------------- MODULE Decisions ------------------------------
(***************************************************************************)
(* The sequential decisions of the system, each as one step from a task to *)
(* its result: what a patch was, what a verdict is worth, which evidence   *)
(* answers a need, whether an old answer answers a new one.  The results   *)
(* are compared with definitions that know nothing of the algorithms.      *)
(***************************************************************************)
EXTENDS ClaimProofs, NeedLedger, ProofPlanning, PatchObservation, VerifierVerdict

CONSTANTS
  PatchTasks,      \* [kind, allowed, before, after, declared]
  VerdictTasks,    \* [kind, turn]
  PlanTasks,       \* [kind, need, candidates]
  ManifestTasks,   \* [kind, fragment, artifact, before, after, trace, closing]
  ClaimTasks,      \* [kind, need, certificates, relations, tree]
  LedgerTasks      \* [kind, first, satisfied, second, order]

\* A task is of the kind of its set.
ASSUME TasksAssumption ==
  /\ \A t \in PatchTasks : t.kind = "patch"
  /\ \A t \in VerdictTasks : t.kind = "verdict"
  /\ \A t \in PlanTasks : t.kind = "plan"
  /\ \A t \in ManifestTasks : t.kind = "manifest"
  /\ \A t \in ClaimTasks : t.kind = "claims"
  /\ \A t \in LedgerTasks : t.kind = "ledger"

\* Paths are sequences, and a tree has no entry for what is absent.
ASSUME PatchTasksAssumption ==
  \A t \in PatchTasks :
    /\ \A tree \in {t.before, t.after} :
         /\ tree \in [DOMAIN tree -> Range(tree)]
         /\ \A p \in DOMAIN tree : p \in Seq(Range(p)) /\ tree[p].kind # "absent"
    /\ \A n \in DOMAIN t.allowed : t.allowed[n].path \in Seq(Range(t.allowed[n].path))

\* A turn has finitely many test sources, its plans are in the order of their
\* digests, and its evidence is a list.
ASSUME VerdictTasksAssumption ==
  /\ MaxVerifierPlans \in Nat
  /\ \A t \in VerdictTasks :
       /\ IsFiniteSet(t.turn.sources) /\ \A s \in t.turn.sources : s.plan \in Nat
       /\ t.turn.evidence \in Seq(Range(t.turn.evidence))

\* Candidates cover obligations of the need.  The resolver offers them free of
\* cost; where they cost something, the budget has room for all of them.
ASSUME PlanTasksAssumption ==
  \A t \in PlanTasks :
    /\ t.need.count \in Nat /\ t.candidates \in Seq(Range(t.candidates))
    /\ \A c \in Range(t.candidates) : c.covers \subseteq 1 .. t.need.count /\ c.cost \in Nat
    /\ \/ \A c \in Range(t.candidates) : c.cost = 0
       \/ Len(t.candidates) <= MaxArtifacts

\* Claims were extracted from their origins and relations from their traces, and
\* a need is compiled to one obligation per predicate.
ASSUME ClaimTasksAssumption ==
  \A t \in ClaimTasks :
    /\ \A o, p \in t.need.required : o.predicate = p.predicate => o = p
    /\ IsFiniteSet(t.certificates)
    /\ \A c \in t.certificates :
         /\ c.origin.kind \in {"code_location", "behavior_trace", "test_plan"}
         /\ c.claim \in Range(ClaimPayloads(c.origin)) /\ IsInjective(ClaimPayloads(c.origin))
         /\ c.origin.kind = "behavior_trace" => c.origin.steps \in Seq(Range(c.origin.steps))
    /\ \A r \in t.relations :
         r \in Precedes([kind |-> "behavior_trace", steps |-> r[1].anchor])

\* A validation is of an artifact of a known kind.
ASSUME ManifestTasksAssumption ==
  \A t \in ManifestTasks :
    /\ t.closing \in BOOLEAN
    /\ t.artifact.kind \in {"code_location", "behavior_trace", "test_plan"}

\* The digests order all the predicates, and a request names no others.
ASSUME LedgerTasksAssumption ==
  \A t \in LedgerTasks :
    /\ t.order \in Seq(Predicates) /\ Range(t.order) = Predicates
    /\ \A request \in {t.first, t.second} :
         /\ request.route \in Routes
         /\ PredicatesOf(request.required \cup request.preferred) \subseteq Predicates

VARIABLES task, result

decisionVars == <<task, result>>

DecisionInit ==
  /\ task \in PatchTasks \cup VerdictTasks \cup PlanTasks \cup ManifestTasks \cup ClaimTasks
                \cup LedgerTasks
  /\ result = <<>>

Undecided(kind) == task.kind = kind /\ result = <<>>

Decided(kind) == task.kind = kind /\ result # <<>>

Decide(value) == result' = <<value>> /\ UNCHANGED task

\* The patcher's checkout is observed.
DecidePatch ==
  /\ Undecided("patch")
  /\ Decide(ObservePatch(task.allowed, task.before, task.after, task.declared))

\* The verifier's turn is normalised and becomes an artifact.
DecideVerdict == Undecided("verdict") /\ Decide(ArtifactOf(task.turn))

\* The planner selects candidates, for delivery and for advice from claims.
DecidePlan ==
  /\ Undecided("plan")
  /\ Decide([plan |-> Plan(task.need, task.candidates),
             advice |-> ClaimPlan(task.need, task.candidates)])

\* An artifact is validated, and validated again in a later tree.
DecideManifest ==
  /\ Undecided("manifest")
  /\ LET valid == Validates(task.fragment, task.artifact, task.before, task.trace, task.closing)
     IN  Decide([valid |-> valid,
                 files |-> IF valid
                           THEN Manifest(task.artifact, task.before, task.trace, task.closing).files
                           ELSE task.before,
                 again |-> Validates(task.fragment, task.artifact, task.after, task.trace,
                                     task.closing)])

\* Claims prove the obligations of a need.
DecideClaims ==
  /\ Undecided("claims")
  /\ LET material == MaterialFor(task.need, task.certificates, task.relations)
     IN  Decide([material |-> material,
                 proofs |-> ClaimProofsFor(task.need, task.need.required, material, task.tree)])

\* A need is compared with the session's ledger, which holds one answered need.
DecideReuse ==
  /\ Undecided("ledger")
  /\ LET first == Compiled(HookIr(task.first), task.order)
         second == Compiled(McpIr(task.second), task.order)
         entry == [need |-> first, satisfied |-> first.required \cap
                     {o \in first.required : o.predicate \in task.satisfied}]
     IN  Decide([first |-> first, second |-> second, satisfied |-> entry.satisfied,
                 relation |-> RelationToLedger(<<entry>>, second),
                 reused |-> FullySatisfiedEntry(entry, second)])

DecisionNext ==
  \/ DecidePatch \/ DecideVerdict \/ DecidePlan
  \/ DecideManifest \/ DecideClaims \/ DecideReuse

DecisionSpec == DecisionInit /\ [][DecisionNext]_decisionVars

-----------------------------------------------------------------------------
(* Properties.                                                             *)

\* The answer to an earlier need is given again only to a need of the same world
\* and subject.  It met every requirement of that need, but for one that the
\* earlier need merely preferred: the identity of a need does not tell the two
\* apart.  A repeat asks for nothing else, and a need that comes through the
\* hook's text and through the MCP tool is the same need.
ReuseIsCovered(r, same) ==
  /\ r.reused =>
       /\ r.first.world = r.second.world /\ r.first.subjects = r.second.subjects
       /\ \A o \in r.second.required :
            \/ \E p \in r.satisfied : Satisfies(p, o)
            \/ r.first.id = r.second.id /\ o \in r.first.preferred
  /\ r.relation = "repeat" => r.first.required \cup r.first.preferred
                                = r.second.required \cup r.second.preferred
  /\ same => r.relation = "repeat"

\* A stored patch leads from the tree before to the tree after and back inside
\* the request's scopes (observe_patch), and a verdict of `verified' or
\* `repairable' was given by the verifier and is backed by exactly one valid
\* run of every associated test in the patched checkout
\* (normalize_verifier_turn), in an artifact the store takes (is_canonical).
ChangeDecisionsHold ==
  /\ Decided("patch") => PatchIsFaithful(task.allowed, task.before, task.after, result[1])
  /\ Decided("verdict") =>
       /\ VerdictIsEarned(task.turn, result[1].artifact.verdict)
       /\ VerdictIsStorable(task.turn, result[1])

\* What was recorded of the files is all that a validation reads of them.
ManifestsSuffice ==
  Decided("manifest") =>
    (result[1].valid /\ DependenciesFresh(result[1].files, task.after) => result[1].again)

\* What the ledger says of the second need is right.
LedgerReuseIsCovered ==
  Decided("ledger") => ReuseIsCovered(result[1], task.first = task.second)

\* The selection is the best there is, and what the plan says of it is true.
PlansAreBestCovers ==
  Decided("plan") =>
    LET plan == result[1].plan IN
    /\ SelectionCoversMask(task.candidates, plan) /\ IsBestCover(task.candidates, plan)
    /\ KindIsHonest(task.need, task.candidates, plan)
    /\ Replays(task.need, task.candidates, plan)
    /\ result[1].advice.covered = plan.covered

\* Claims prove all that they are said to prove.
ClaimsProveTheNeed ==
  Decided("claims") =>
    ClaimProofHolds(task.need, task.need.required, result[1].material, task.tree)

\* The planner's selection is the cheapest of those with the largest coverage,
\* and its certificate replays (proof.rs); an artifact whose recorded files are
\* unchanged would validate again (semantic_validation.rs); a claim proof covers
\* the need with fresh claims and one unbroken flow (claim_proof.rs); an old
\* answer is given again only to a need whose requirements it met, or had as
\* preferences under the same identity (supervised_main.rs, semantic.rs).
EvidenceDecisionsHold ==
  PlansAreBestCovers /\ ManifestsSuffice /\ ClaimsProveTheNeed /\ LedgerReuseIsCovered

\* "Reuse: avoid that worker when certified evidence already satisfies the
\* request" (README.md): an answer given again (fully_satisfied_ledger_entry)
\* satisfies everything the request requires.
ReuseSatisfiesTheRequest ==
  Decided("ledger") /\ result[1].reused =>
    \A o \in result[1].second.required : \E p \in result[1].satisfied : Satisfies(p, o)
=============================================================================
