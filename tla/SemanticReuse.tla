---------------------------- MODULE SemanticReuse ----------------------------
(***************************************************************************)
(* Reuse of validated evidence: the semantic resolver                      *)
(* (needle-runtime/src/semantic_resolver.rs), the store operations it uses *)
(* and the part of the orchestrator that consults it, delivers what it     *)
(* selects and publishes what a worker adds (orchestrator.rs).             *)
(*                                                                         *)
(* One call at a time runs against a working tree that others edit between *)
(* any two of its steps; the store's contradictions and capability modes   *)
(* change likewise.  The captured source of a call is the tree itself.     *)
(* Where files are compared with manifests and where an artifact is        *)
(* validated, the files are read one after another and may change in the   *)
(* meantime; the claim advisory and the answer read them in one step.      *)
(***************************************************************************)
EXTENDS ClaimProofs, ProofPlanning

CONSTANTS
  SemanticNeeds,     \* compiled needs: [subject, required, world, residual]
  WorkerResults,     \* what a worker may return: sequences of [artifact, trace]
  DeclaredPlans,     \* test plans a caller may declare: [canonical, safe, identifiers, target]
  FirstTree,         \* the tree at the start
  Edits,             \* pairs of a path and the content it may get, or none
  MaxSourceEdits,    \* bound on the edits
  MaxCalls,          \* bound on the calls
  MaxAuthority,      \* bound on the changes of contradictions and modes
  MaxDerivation      \* MAX_DERIVATION_DEPTH

ASSUME SemanticReuseAssumption ==
  /\ IsFiniteSet(SemanticNeeds) /\ IsFiniteSet(WorkerResults) /\ IsFiniteSet(Edits)
  /\ IsFiniteSet(DeclaredPlans)
  /\ MaxSourceEdits \in Nat /\ MaxCalls \in Nat /\ MaxAuthority \in Nat
  /\ MaxDerivation \in Nat

\* Need::is_canonical: the obligations are about the need's subject.  A name stands
\* for the id of a subject, of which its kind is a part.
ASSUME NeedsAssumption ==
  \A n \in SemanticNeeds :
    /\ IsFiniteSet(n.required) /\ \A o \in n.required : o.subject = n.subject.name
    /\ \A m \in SemanticNeeds : m.subject.name = n.subject.name => m.subject = n.subject

\* A worker's result is a list of artifacts of the three kinds.
ASSUME ResultsAssumption ==
  \A r \in WorkerResults :
    /\ r \in Seq(Range(r))
    /\ \A k \in DOMAIN r : r[k].artifact.kind \in {"code_location", "behavior_trace", "test_plan"}

VARIABLES
  source,       \* [tree, met, edits]: the working tree, the trees that the running
                \* reading of several files has met, and how often it was edited
  evidence,     \* [artifacts, origins, certificates, claims, relations]: the tables;
                \* [torn]: certificates of a validation during which a file it
                \* depends on changed, which nobody knows of
  authority,    \* [contradicted, modes, changes]: predicates with an active
                \* contradiction, capability classes that are authoritative
  reuse         \* the running call

reuseVars == <<source, evidence, authority, reuse>>

Units == {"artifact", "claim"}

NoDecision == [resolution |-> "none", authoritative |-> FALSE, eligible |-> FALSE,
               allowed |-> FALSE, artifacts |-> {}, claims |-> {}, missing |-> {}]

NoAnswer == [kind |-> "none", claims |-> FALSE, allowed |-> FALSE]

Idle ==
  [phase |-> "idle", calls |-> 0, need |-> CHOOSE n \in SemanticNeeds : TRUE,
   captured |-> FirstTree, seen |-> {}, worth |-> {}, bootstrap |-> FALSE, found |-> {},
   fresh |-> {}, decision |-> NoDecision, fragment |-> {}, declared |-> {},
   results |-> <<>>, observed |-> {}, certified |-> <<>>, outcome |-> NoAnswer]

\* Evidence starts empty; capability classes start as Shadow.
ReuseInit ==
  /\ source = [tree |-> FirstTree, met |-> {FirstTree}, edits |-> 0]
  /\ evidence = [artifacts |-> <<>>, origins |-> {}, certificates |-> <<>>,
                 claims |-> {}, relations |-> {}, torn |-> {}]
  /\ authority = [contradicted |-> {}, modes |-> {}, changes |-> 0]
  /\ reuse = Idle

-----------------------------------------------------------------------------
(* The tables.  The row of an artifact is keyed by its payload: a second   *)
(* validation of the same payload leaves the first row, with its manifest, *)
(* in place.                                                               *)

Stored(artifact) == \E k \in DOMAIN evidence.artifacts : evidence.artifacts[k].artifact = artifact

StoredManifest(artifact) ==
  (CHOOSE row \in Range(evidence.artifacts) : row.artifact = artifact).manifest

\* A request is identified by the fragment, the captured source and the kind.
Request(fragment, tree, kind) == [fragment |-> fragment, source |-> tree, kind |-> kind]

Fragment(need, obligations, inputs) ==
  [subject |-> need.subject, obligations |-> obligations, inputs |-> inputs,
   world |-> need.world]

\* INSERT OR IGNORE, keyed by the artifact.
WithArtifact(rows, row) ==
  IF \E k \in DOMAIN rows : rows[k].artifact = row.artifact THEN rows ELSE Append(rows, row)

\* publish_semantic_artifact: the inputs are certified, every table in one
\* transaction.
InputsCertified(certificate) ==
  \A a \in certificate.inputs : \E c \in Range(evidence.certificates) : c.artifact = a

Published(certificate, request) ==
  [evidence EXCEPT
     !.artifacts = WithArtifact(@, [artifact |-> certificate.artifact,
                                manifest |-> certificate.manifest]),
     !.origins = @ \cup {<<certificate.artifact, request>>},
     !.certificates = IF certificate \in Range(@) THEN @ ELSE Append(@, certificate)]

\* validation_certificate_for_artifact: the one issued last.
LatestCertificate(artifact) ==
  SelectLastInSeq(evidence.certificates, LAMBDA c : c.artifact = artifact)

\* semantic_artifact_has_source.
HasSource(artifact, tree) ==
  \E o \in evidence.origins : o[1] = artifact /\ o[2].source = tree

\* Is the certificate usable in this tree by itself?
UsableAlone(certificate, tree, captured) ==
  /\ FreshWith(StoredManifest(certificate.artifact), certificate, tree)
  /\ \/ StoredManifest(certificate.artifact).scope = "worktree semantic"
     \/ HasSource(certificate.artifact, captured)

\* certificate_inputs_are_fresh, to the depth of MAX_DERIVATION_DEPTH.
InputsFresh(certificate, tree, captured) ==
  LET ok[d \in 0 .. MaxDerivation] ==
        [c \in Range(evidence.certificates) \cup {certificate} |->
           \/ c.inputs = {}
           \/ /\ d > 0
              /\ \A a \in c.inputs :
                   /\ LatestCertificate(a) # 0
                   /\ LET input == evidence.certificates[LatestCertificate(a)]
                      IN  /\ input.world = c.world /\ UsableAlone(input, tree, captured)
                          /\ ok[d - 1][input]]
  IN  ok[MaxDerivation][certificate]

-----------------------------------------------------------------------------
(* The environment.                                                        *)

\* A reading of several files is under way: of the candidates' dependencies, of
\* what an artifact is about.
BetweenReads == reuse.phase \in {"freshness", "certify", "certify_declared"}

EditSource ==
  /\ source.edits < MaxSourceEdits
  /\ \E e \in Edits :
       LET kept == Restrict(source.tree, DOMAIN source.tree \ {e[1]})
           tree == kept @@ [p \in {e[1]} \cap UNION {{e[1]} : c \in e[2]} |->
                              CHOOSE c \in e[2] : TRUE]
       IN  source' = [tree |-> tree, met |-> {tree} \cup (IF BetweenReads THEN source.met ELSE {}),
                      edits |-> source.edits + 1]
  /\ source'.tree # source.tree
  /\ UNCHANGED <<evidence, authority, reuse>>

\* What a reading may have got: each path as it was in a tree there was meanwhile.
Readings ==
  {[p \in {q \in DOMAIN at : q \in DOMAIN at[q]} |-> at[p][p]]
     : at \in [UNION {DOMAIN tree : tree \in source.met} -> source.met]}

ReadingEnds == source' = [source EXCEPT !.met = {source.tree}]

\* record_contradiction: active, or resolved.
RecordContradiction ==
  /\ authority.changes < MaxAuthority
  /\ \E p \in UNION {{o.predicate : o \in n.required} : n \in SemanticNeeds} :
       authority' = [authority EXCEPT !.contradicted = IF p \in @ THEN @ \ {p} ELSE @ \cup {p},
                                      !.changes = @ + 1]
  /\ UNCHANGED <<source, evidence, reuse>>

\* set_capability_mode: all classes of a reuse unit, with evidence.
SetCapabilityMode ==
  /\ authority.changes < MaxAuthority
  /\ \E u \in Units :
       authority' = [authority EXCEPT !.modes = IF u \in @ THEN @ \ {u} ELSE @ \cup {u},
                                      !.changes = @ + 1]
  /\ UNCHANGED <<source, evidence, reuse>>

-----------------------------------------------------------------------------
(* A call: resolve_with_worker_policy up to resolve_for_route.             *)

AtPhase(phase) == UNCHANGED <<source, evidence, authority>> /\ reuse.phase = phase

\* The call returns: what it answered, and whether claims were told.
Over(kind) ==
  [Idle EXCEPT !.calls = reuse.calls,
               !.outcome = [kind |-> kind, claims |-> reuse.decision.claims # {},
                            allowed |-> reuse.decision.allowed]]

\* route_reuse_cost and the measured costs of the route: for which units reuse is
\* worth its price, and whether only a first bootstrap price is known for
\* artifacts, which is asked for when there is no measured one.
ReusePrices == [worth : SUBSET Units, bootstrap : BOOLEAN]

\* The snapshot is captured, the need compiled, the measured costs read.  Whether
\* the call calibrates, and the test plan its caller may have declared, are chosen
\* where they are first looked at.
StartResolve ==
  /\ AtPhase("idle") /\ reuse.calls < MaxCalls
  /\ \E n \in SemanticNeeds, prices \in ReusePrices :
       reuse' = [Idle EXCEPT !.phase = "contradiction", !.calls = reuse.calls + 1,
                             !.need = n, !.captured = source.tree, !.worth = prices.worth,
                             !.bootstrap = prices.bootstrap, !.fragment = n.required]

\* active_contradiction: of one of the need's predicates.
Contradicted(need) == \E o \in need.required : o.predicate \in authority.contradicted

\* A residual intent is never served from evidence; neither is a need with an
\* active contradiction.
CheckContradiction ==
  /\ AtPhase("contradiction")
  /\ LET Refuse(resolution) == [reuse EXCEPT !.phase = "worker",
                                             !.decision.resolution = resolution]
     IN  IF reuse.need.residual THEN reuse' = Refuse("bypass")
         ELSE IF Contradicted(reuse.need)
         THEN reuse' = Refuse("contradicted")
         ELSE reuse' = [reuse EXCEPT !.phase = "lookup"]

\* semantic_candidates: certificates of the predicates, the subject and the
\* world, whatever their facets.
LoadCandidates ==
  /\ AtPhase("lookup")
  /\ LET need == reuse.need
         exact == {Request(Fragment(need, need.required, {}), reuse.captured, KindOf(o.predicate))
                     : o \in need.required}
     IN  reuse' = [reuse EXCEPT !.phase = "freshness",
           !.found = {[certificate |-> c,
                       exact |-> \E r \in exact : <<c.artifact, r>> \in evidence.origins]
                        : c \in {c \in Range(evidence.certificates) :
                                   /\ c.world = need.world
                                   /\ \E o \in need.required, p \in c.coverage :
                                        o.predicate = p.predicate /\ o.subject = p.subject}}]

UsableCandidate(certificate, tree, captured) ==
  UsableAlone(certificate, tree, captured) /\ InputsFresh(certificate, tree, captured)

Filtered(fresh, seen) ==
  LET covers == \A o \in reuse.need.required : \E f \in fresh :
                  \E p \in f.certificate.coverage : Satisfies(p, o)
  IN  reuse' = [reuse EXCEPT !.phase = IF covers THEN "plan" ELSE "claims",
                             !.fresh = fresh, !.seen = seen]

\* Fault: the candidates are compared with the captured snapshot.
FilterFreshAtCapture ==
  /\ reuse.phase = "freshness" /\ ReadingEnds /\ UNCHANGED <<evidence, authority>>
  /\ Filtered({f \in reuse.found :
                 UsableCandidate(f.certificate, reuse.captured, reuse.captured)}, {source.tree})

\* The candidates are compared with the files, one after another.
FilterFresh ==
  /\ reuse.phase = "freshness" /\ ReadingEnds /\ UNCHANGED <<evidence, authority>>
  /\ \E read \in [reuse.found -> Readings] :
       LET fresh == {f \in reuse.found :
                       UsableCandidate(f.certificate, read[f], reuse.captured)}
       IN  Filtered(fresh, {read[f] : f \in fresh})

-----------------------------------------------------------------------------
(* Planning.                                                               *)

\* The obligations as numbers, and the candidates as the planner sees them.
Required == SetToSeq(reuse.need.required)

PlannerNeed == [count |-> Len(Required), residual |-> FALSE]

CoversOf(coverage) ==
  {k \in DOMAIN Required : \E p \in coverage : Satisfies(p, Required[k])}

ArtifactCandidates ==
  LET fresh == SetToSeq(reuse.fresh)
  IN  [k \in DOMAIN fresh |->
         [covers |-> CoversOf(fresh[k].certificate.coverage), exact |-> fresh[k].exact,
          cost |-> 0, claims |-> FALSE]]

\* Origins whose claims may be used although the artifact is stale.
EligibleOrigins ==
  {a \in {c.origin : c \in evidence.claims} :
     /\ Stored(a) /\ LatestCertificate(a) # 0
     /\ StoredManifest(a).scope = "worktree semantic"
     /\ LET c == evidence.certificates[LatestCertificate(a)]
        IN  c.world = reuse.need.world /\ InputsFresh(c, source.tree, reuse.captured)}

MaterialOf(origin) ==
  MaterialFor(reuse.need, {c \in evidence.claims : c.origin = origin}, evidence.relations)

\* The claim components: for an origin and an obligation, one of its proofs.
ComponentProofs(component) ==
  ClaimProofsFor(reuse.need, {component[2]}, MaterialOf(component[1]), source.tree)

ClaimComponents ==
  {component \in EligibleOrigins \X reuse.need.required : ComponentProofs(component) # {}}

\* Without a fresh candidate.
Unserved == IF reuse.found = {} THEN "miss" ELSE "stale"

\* claim_cache_resolution and claim_capability_allows: the plan has claims, and
\* every class it uses is authoritative.
ClaimModesAllow(plan) ==
  /\ "claim" \in authority.modes
  /\ plan.claims # plan.selected => "artifact" \in authority.modes
  /\ ~reuse.need.residual

\* The claim components take part beside the artifacts.
WithComponents(artifacts, components) ==
  artifacts \o [k \in DOMAIN components |->
                  [covers |-> CoversOf({components[k][2]}), exact |-> FALSE, cost |-> 0,
                   claims |-> TRUE]]

\* The decision from a plan with claims, one proof for each component.
DecideFromClaims(plan, proof, allowed) ==
  LET authoritative == allowed /\ "claim" \in reuse.worth
  IN  reuse' = [reuse EXCEPT
        !.phase = IF authoritative \/ reuse.fresh = {} THEN "decided" ELSE "plan",
        !.decision =
          [resolution |-> IF authoritative THEN plan.kind ELSE Unserved,
           authoritative |-> authoritative, eligible |-> allowed, allowed |-> allowed,
           artifacts |-> {SetToSeq(reuse.fresh)[k].certificate.artifact
                            : k \in plan.selected \ plan.claims},
           claims |-> UNION Range(proof),
           missing |-> {Required[k] : k \in plan.missing}]]

AdviseFrom(components, offset, plan) ==
  IF components = <<>> \/ ~plan.found THEN reuse' = [reuse EXCEPT !.phase = "plan"]
  ELSE \E proof \in [plan.claims -> UNION {ComponentProofs(c) : c \in Range(components)}] :
         /\ \A k \in plan.claims : proof[k] \in ComponentProofs(components[k - offset])
         /\ DecideFromClaims(plan, proof, ClaimModesAllow(plan))

AdviseOn(artifacts, components) ==
  AdviseFrom(components, Len(artifacts), ClaimPlan(PlannerNeed, WithComponents(artifacts, components)))

\* publish_claim_set_shadow and record_claim_advisory_plan: what they store is read
\* by nobody but the audit, but an advice that cannot be stored is not given.
AdviceNotStored == reuse' = [reuse EXCEPT !.phase = "plan"]

\* claim_advisory and the decision from it.  The material of an advisory that
\* does not decide stays with the call.
AdviseClaims ==
  /\ AtPhase("claims")
  /\ AdviseOn(ArtifactCandidates, SetToSeq(ClaimComponents)) \/ AdviceNotStored

\* What the planner selected, when its certificate replays, the modes allow it
\* and it is worth its price.
DecideFromPlan(candidates, plan) ==
  LET eligible == /\ plan.kind # "miss" /\ Replays(PlannerNeed, candidates, plan)
                  /\ "artifact" \in authority.modes
      authoritative == eligible /\ "artifact" \in reuse.worth
  IN  reuse' = [reuse EXCEPT
        !.phase = "decided",
        !.decision = [@ EXCEPT
                        !.resolution = IF authoritative THEN plan.kind ELSE "bypass",
                        !.authoritative = authoritative, !.eligible = eligible,
                        !.artifacts = {SetToSeq(reuse.fresh)[k].certificate.artifact
                                         : k \in plan.selected},
                        !.missing = {Required[k] : k \in plan.missing}]]

\* record_proof_plan and record_proof_accounting: a plan that cannot be stored
\* ends the call.
PlanNotStored == reuse' = Over("failed")

\* The decision from artifacts; Miss or Stale when there is none.
PlanArtifacts ==
  /\ AtPhase("plan")
  /\ \/ IF reuse.fresh = {}
        THEN reuse' = [reuse EXCEPT !.phase = "decided",
                                    !.decision = [NoDecision EXCEPT !.resolution = Unserved]]
        ELSE DecideFromPlan(ArtifactCandidates, Plan(PlannerNeed, ArtifactCandidates))
     \/ PlanNotStored

FullHits == {"exact", "coverage", "composite", "claim", "claim composite"}

\* Back in the orchestrator: a bootstrap price serves full hits only, a
\* calibration run takes what is valid but not worth its price.
Taken(calibration) ==
  LET d == reuse.decision
  IN  \/ d.authoritative /\ (reuse.bootstrap => d.resolution \in FullHits \/ d.claims # {})
      \/ calibration /\ d.eligible

\* What the lookup held is dropped when its decision is taken.
Settle(phase, fragment, decision) ==
  reuse' = [Idle EXCEPT !.phase = phase, !.calls = reuse.calls, !.need = reuse.need,
                        !.captured = reuse.captured, !.seen = reuse.seen,
                        !.fragment = fragment, !.decision = decision]

Refused == [NoDecision EXCEPT !.resolution = reuse.decision.resolution]

\* Fault: the fragment is cut down although nothing is reused.
ConsultCutsAlways ==
  /\ AtPhase("decided")
  /\ \E calibration \in BOOLEAN :
     LET d == reuse.decision
     IN  IF Taken(calibration) /\ d.missing = {} THEN Settle("deliver", {}, d)
         ELSE Settle("worker", IF d.missing = {} THEN reuse.fragment ELSE d.missing,
                     IF Taken(calibration) THEN d ELSE Refused)

Consult ==
  /\ AtPhase("decided")
  /\ \E calibration \in BOOLEAN :
     LET d == reuse.decision
     IN  IF Taken(calibration) /\ d.missing = {} THEN Settle("deliver", {}, d)
         ELSE IF Taken(calibration) /\ d.missing # reuse.need.required THEN Settle("worker", d.missing, d)
         ELSE Settle("worker", reuse.need.required, Refused)

\* Does the answer of a full hit come from claims?
FromClaims == reuse.decision.claims # {} /\ (reuse.decision.allowed
                /\ reuse.decision.resolution \notin {"exact", "coverage", "composite"})

Paths(artifacts, claims) ==
  UNION {{Locations(a)[k].path : k \in DOMAIN Locations(a)} : a \in artifacts}
    \cup {c.claim.location.path : c \in {d \in claims : d.claim.kind = "location"}}
    \cup {c.claim.step.location.path : c \in {d \in claims : d.claim.kind = "flow"}}

\* semantic_artifact_outcome: the files are read again for the answer.
DeliverEvidence ==
  /\ AtPhase("deliver")
  /\ LET d == reuse.decision
         projected == /\ Paths(d.artifacts, d.claims) \subseteq DOMAIN source.tree
                      /\ FromClaims => Projectable(d.claims, evidence.relations, d.artifacts)
     IN  reuse' = Over(IF projected THEN "hit" ELSE "failed")

-----------------------------------------------------------------------------
(* The worker and what becomes of its result: materialize_worker_artifact. *)

\* generate: a result for another source than the captured one is refused.
WorkerResult ==
  /\ AtPhase("worker")
  /\ \/ /\ source.tree = reuse.captured
        /\ \E r \in WorkerResults, declared \in {{}} \cup {{plan} : plan \in DeclaredPlans} :
             reuse' = [reuse EXCEPT
               !.phase = "publish", !.declared = declared, !.results = r,
               !.observed = UNION {r[k].trace.files : k \in DOMAIN r}
                              \cup Paths({r[k].artifact : k \in DOMAIN r}, {})]
     \/ reuse' = Over("failed")

WorkerFragment == Fragment(reuse.need, reuse.fragment, reuse.decision.artifacts)

\* The validation of the worker's next artifact begins; its test plans are passed
\* over when the caller declared one.
ReadArtifact ==
  /\ AtPhase("publish") /\ reuse.results # <<>>
  /\ reuse' = IF reuse.declared # {} /\ Head(reuse.results).artifact.kind = "test_plan"
              THEN [reuse EXCEPT !.results = Tail(@)]
              ELSE [reuse EXCEPT !.phase = "certify"]

\* parent_owned_test_plan_artifact: the declared plan, with the paths the worker
\* observed or named as evidence, or as many of them as a plan may have.
ParentOwned(plan, paths) ==
  [kind |-> "test_plan", canonical |-> plan.canonical, safe |-> plan.safe,
   identifiers |-> plan.identifiers, selection |-> "representative", evidence |-> paths,
   target |-> plan.target]

Unobserved == [files |-> {}, gaps |-> FALSE]

TestsRequired == \E o \in reuse.fragment : o.predicate = "tests"

\* The declared plan follows the worker's artifacts when tests are required.
DeclareTests ==
  /\ AtPhase("publish") /\ reuse.results = <<>> /\ TestsRequired
  /\ \E plan \in reuse.declared, paths \in SUBSET reuse.observed :
       /\ paths = reuse.observed \/ Cardinality(paths) = MaxEvidencePaths
       /\ reuse' = [reuse EXCEPT
            !.phase = "certify_declared", !.declared = {},
            !.results = <<[artifact |-> ParentOwned(plan, paths), trace |-> Unobserved]>>]

\* record_semantic_validation_rejection: the attempt and its reason, for the audit.
RecordRejection(rest) == reuse' = rest /\ UNCHANGED evidence

\* A dependency of the artifact changed during the reading.  What a test plan
\* depends on is hashed as it was validated.
Changed(artifact, trace) ==
  /\ artifact.kind # "test_plan"
  /\ \E p \in DependencyPaths(artifact, source.tree, trace, TRUE), t1, t2 \in source.met :
       p \in DOMAIN t1 /\ (p \in DOMAIN t2 => t1[p] # t2[p])

WithTorn(tables, certificate, torn) ==
  IF torn THEN [tables EXCEPT !.torn = @ \cup {certificate}] ELSE tables

\* The artifact is validated in the files as they were read; dependency_manifest
\* reads those of locations once more to hash them.
Certify(r, validated, hashed, closing) ==
  LET certificate == Certificate(WorkerFragment, r.artifact, hashed, r.trace, closing)
      rest == [reuse EXCEPT !.phase = "publish", !.results = Tail(@)]
  IN  IF \/ ~Validates(WorkerFragment, r.artifact, validated, r.trace, closing)
         \/ ~(DependencyPaths(r.artifact, hashed, r.trace, closing) \subseteq DOMAIN hashed)
      THEN RecordRejection(rest)
      ELSE IF ~InputsCertified(certificate)
      THEN reuse' = Over("failed") /\ UNCHANGED evidence
      ELSE /\ evidence' = WithTorn(Published(certificate,
                                     Request(WorkerFragment, reuse.captured, r.artifact.kind)),
                                   certificate, Changed(r.artifact, r.trace))
           /\ reuse' = [rest EXCEPT !.phase = "claim shadow", !.certified = Append(@, certificate)]

\* The artifact is published, or its rejection recorded.  A declared plan is asked
\* for no declared target, but the last evidence of its execution has to be valid
\* (validate_semantic_test_plan, .._with_evidence).  A store that fails ends the call.
PublishArtifact ==
  /\ reuse.phase \in {"certify", "certify_declared"}
  /\ LET r == Head(reuse.results)
     IN  \/ \E validated, hashed \in Readings :
              /\ r.artifact.kind = "test_plan" => hashed = validated
              /\ Certify(r, validated, hashed, reuse.phase = "certify")
         \/ /\ reuse.phase = "certify_declared"
            /\ RecordRejection([reuse EXCEPT !.phase = "publish", !.results = Tail(@)])
         \/ reuse' = Over("failed") /\ UNCHANGED evidence
  /\ ReadingEnds /\ UNCHANGED authority

\* publish_claims_shadow: the claims with their origins and certificates, then
\* the relations between them, in one transaction.
WithClaims(tables, c) == [tables EXCEPT !.claims = @ \cup ClaimCertificates(c)]

WithRelations(tables, c) == [tables EXCEPT !.relations = @ \cup Precedes(c.artifact)]

\* publish_claim_shadow: a transaction of its own, whose failure is only told.
PublishClaims ==
  /\ reuse.phase = "claim shadow"
  /\ reuse' = [reuse EXCEPT !.phase = "publish"]
  /\ LET c == Last(reuse.certified)
     IN  \/ Extractable(c.artifact) /\ evidence' = WithRelations(WithClaims(evidence, c), c)
         \/ UNCHANGED evidence
  /\ UNCHANGED <<source, authority>>

\* missing_certified_obligations, then the brief of all that is known: with
\* claim material at hand, the claims are told too.
FinishWorker ==
  /\ AtPhase("publish") /\ reuse.results = <<>>
  /\ reuse.declared = {} \/ ~TestsRequired
  /\ LET certified == UNION {c.coverage : c \in Range(reuse.certified)}
         d == reuse.decision
         told == d.artifacts \cup {c.artifact : c \in Range(reuse.certified)}
         complete == /\ \A o \in reuse.fragment : \E p \in certified : Satisfies(p, o)
                     /\ Paths(told, d.claims) \subseteq DOMAIN source.tree
                     /\ d.claims # {} => Projectable(d.claims, evidence.relations, told)
     IN  reuse' = Over(IF complete THEN "generated" ELSE "failed")

ReuseNext ==
  \/ EditSource \/ RecordContradiction \/ SetCapabilityMode
  \/ StartResolve \/ CheckContradiction \/ LoadCandidates \/ FilterFresh \/ AdviseClaims
  \/ PlanArtifacts \/ Consult \/ DeliverEvidence
  \/ WorkerResult \/ ReadArtifact \/ DeclareTests \/ PublishArtifact \/ PublishClaims
  \/ FinishWorker

ReuseSpec == ReuseInit /\ [][ReuseNext]_reuseVars

-----------------------------------------------------------------------------
(* Properties.                                                             *)

OfDeclaredPlan(artifact) ==
  /\ artifact.kind = "test_plan"
  /\ \E plan \in DeclaredPlans : artifact = ParentOwned(plan, artifact.evidence)

\* A worker's plan has to close on a declared target, a caller's plan need not.
HoldsFor(artifact, obligation, tree) ==
  \E closing \in BOOLEAN :
    /\ closing \/ OfDeclaredPlan(artifact)
    /\ Validates(Fragment(reuse.need, {obligation}, {}), artifact, tree, Unobserved, closing)

\* What is reused instead of running a worker still held when the resolver read
\* the files: unless claims answer, for every required obligation a selected
\* artifact would validate again in the files as they were read for it
\* (resolve_for_route trusts the stored manifests and certificates, and never
\* validates again).  The exception is an artifact of whose files one changed
\* while it was validated, and was hashed as it was afterwards.
ReusedEvidenceHolds ==
  /\ reuse.phase = "deliver" /\ ~FromClaims
  => \A o \in reuse.need.required : \E a \in reuse.decision.artifacts :
       \/ \E tree \in reuse.seen : HoldsFor(a, o, tree)
       \/ \E c \in evidence.torn : c.artifact = a

\* A partial hit leaves the worker exactly what is not covered: the fragment and
\* the selection together cover the need (resolve_with_worker_policy builds the
\* fragment from the plan's missing mask).
FragmentAndReuseCoverTheNeed ==
  reuse.phase \in {"worker", "publish", "certify", "certify_declared", "claim shadow"} =>
    \A o \in reuse.need.required :
      \/ o \in reuse.fragment
      \/ \E c \in Range(evidence.certificates) : c.artifact \in reuse.decision.artifacts
           /\ \E p \in c.coverage : Satisfies(p, o)
      \/ \E c \in reuse.decision.claims : \E p \in c.obligations : Satisfies(p, o)

=============================================================================
