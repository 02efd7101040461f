------------------------- MODULE SemanticValidation -------------------------
(***************************************************************************)
(* Validation of a worker's artifact against the repository                *)
(* (needle-runtime/src/semantic_validation.rs, test_plan.rs and claims.rs).*)
(* The validator derives the obligation the artifact covers from the files *)
(* it names, and records these files, with their contents, as dependencies;*)
(* later the artifact is fresh while all of them are unchanged.            *)
(*                                                                         *)
(* A tree maps the paths that exist to their contents, a content is        *)
(*   [words, cargo, target]                                                *)
(* where words is the sequence of words of the file (byte offsets count    *)
(* words), and cargo says what a Cargo.toml declares about the test target *)
(* of interest: "none" (not a manifest), "auto", "manual" (no target of    *)
(* that name, with and without autotests), "named" (a target without a     *)
(* path), "path" (a target at the path `target`) or "escapes".  A digest   *)
(* of a file is its content.  An optional value is a set of at most one.   *)
(***************************************************************************)
EXTENDS NeedCompilation, Functions, SequencesExt

CONSTANTS
  TestSources,         \* paths with a component `tests`
  MaxClaims,           \* MAX_CLAIMS_PER_ARTIFACT
  MaxEvidencePaths     \* evidence paths of a test plan

-----------------------------------------------------------------------------
(* Reading evidence.                                                       *)

Unranged(location) == location.start = {} /\ location.end = {}

\* The words a location's range holds, the whole file's without a range.
RangeWords(tree, location) ==
  LET words == tree[location.path].words
  IN  IF location.start = {} \/ location.end = {} THEN Range(words)
      ELSE UNION {{words[k] : k \in (s + 1) .. e}
                    : s \in location.start, e \in location.end}

\* validate_location: the file can be read, a range is complete and inside it.
LocationValid(tree, location) ==
  /\ location.path \in DOMAIN tree
  /\ (location.start = {}) = (location.end = {})
  /\ \A s \in location.start, e \in location.end :
       s < e /\ e <= Len(tree[location.path].words)

\* location_symbol_is_observed: every segment of the symbol is in the file.
SymbolObserved(tree, location) ==
  /\ location.symbol # {} /\ location.path \in DOMAIN tree
  /\ \A segments \in location.symbol : segments \subseteq Range(tree[location.path].words)

\* location_matches_subject.
MatchesSubject(tree, location, subject, rangeScoped) ==
  IF subject.kind = "file" THEN location.path = subject.name
  ELSE IF rangeScoped THEN subject.name \in RangeWords(tree, location)
  ELSE subject.name \in Range(tree[location.path].words)

-----------------------------------------------------------------------------
(* Test plans.                                                             *)

\* validate_test_plan_proposal.
Proposable(plan) ==
  /\ plan.canonical /\ plan.safe /\ Len(plan.identifiers) = 1
  /\ plan.selection = "representative"
  /\ plan.evidence # {} /\ Cardinality(plan.evidence) <= MaxEvidencePaths

ManifestsWith(tree, files, form) == {p \in files : tree[p].cargo = form}

DeclaredTargets(tree, files) == {tree[p].target : p \in ManifestsWith(tree, files, "path")}

\* close_test_target_from_declared_manifest: `--test` names a target that the
\* declared manifests place at one path, or at the conventional one.
TargetCloses(tree, plan) ==
  \/ plan.target = {}
  \/ /\ ManifestsWith(tree, plan.evidence, "escapes") = {}
     /\ LET declared == DeclaredTargets(tree, plan.evidence)
        IN  \/ /\ declared = {} /\ plan.target \cap plan.evidence # {}
               /\ \/ ManifestsWith(tree, plan.evidence, "auto") # {}
                  \/ ManifestsWith(tree, plan.evidence, "named") # {}
            \/ Cardinality(declared) = 1 /\ declared \subseteq DOMAIN tree

\* validate_test_plan_proof: the identifier is in the evidence, and it or the
\* evidence names the subject.
ProofValid(tree, plan, subject, closing) ==
  /\ plan.evidence \subseteq DOMAIN tree
  /\ LET words == UNION {Range(tree[p].words) : p \in plan.evidence}
         identifier == plan.identifiers[1]
     IN  identifier \in words /\ (identifier = subject.name \/ subject.name \in words)
  /\ closing => TargetCloses(tree, plan)

ProofFiles(tree, plan, closing) ==
  IF closing /\ plan.target # {}
  THEN plan.evidence \cup DeclaredTargets(tree, plan.evidence) ELSE plan.evidence

-----------------------------------------------------------------------------
(* Coverage.                                                               *)

FlowRoles == {"producer", "carrier", "transformation", "precedence", "consumer"}

\* The locations an artifact names, in order.
Locations(artifact) ==
  CASE artifact.kind = "code_location" -> artifact.locations
    [] artifact.kind = "behavior_trace" ->
         [k \in DOMAIN artifact.steps |-> artifact.steps[k].location]
    [] artifact.kind = "test_plan" -> <<>>

\* A primary location outside the tests, exact or with an observed symbol.
PrimaryCovers(tree, location, subject) ==
  /\ location.role = "primary"
  /\ subject.kind = "test" \/ location.path \notin TestSources
  /\ ~Unranged(location) \/ SymbolObserved(tree, location)
  /\ MatchesSubject(tree, location, subject, TRUE)

\* Every role, a step tied to the subject, every symbol observed.
FlowCovers(tree, steps, subject) ==
  /\ FlowRoles \subseteq {steps[k].role : k \in DOMAIN steps}
  /\ \E k \in DOMAIN steps : MatchesSubject(tree, steps[k].location, subject, FALSE)
  /\ \A k \in DOMAIN steps : SymbolObserved(tree, steps[k].location)

\* derive_coverage: an artifact of each kind covers one obligation.
Covers(artifact, tree, subject) ==
  CASE artifact.kind = "code_location" ->
         ~artifact.gaps /\ \E k \in DOMAIN artifact.locations :
                             PrimaryCovers(tree, artifact.locations[k], subject)
    [] artifact.kind = "behavior_trace" ->
         /\ ~artifact.gaps /\ artifact.scenario = "default"
         /\ FlowCovers(tree, artifact.steps, subject)
    [] artifact.kind = "test_plan" -> TRUE

PredicateOfKind(kind) ==
  CASE kind = "code_location" -> "location" [] kind = "behavior_trace" -> "flow"
    [] kind = "test_plan" -> "tests"

KindOf(predicate) ==
  CHOOSE kind \in {"code_location", "behavior_trace", "test_plan"} :
    PredicateOfKind(kind) = predicate

\* What validation certifies is at least what the routes require.
Derived(artifact, subject) ==
  Obligation(subject.name,
    Expression(PredicateOfKind(artifact.kind),
      CASE artifact.kind = "code_location" ->
             {Facet("granularity", "exact-location"), Facet("polarity", "positive"),
              Facet("selection", "primary")}
        [] artifact.kind = "behavior_trace" ->
             {Facet("completeness", "contract-complete"), Facet("granularity", "stepwise"),
              Facet("scenario", "default")}
        [] artifact.kind = "test_plan" ->
             {Facet("completeness", "open-world"), Facet("polarity", "positive"),
              Facet("selection", artifact.selection)}))

\* Fault: only the files of the primary locations are dependencies.
DependencyPathsPrimary(artifact, tree, trace, closing) ==
  IF artifact.kind = "test_plan" THEN ProofFiles(tree, artifact, closing)
  ELSE {Locations(artifact)[k].path : k \in {k \in DOMAIN Locations(artifact) :
                                               Locations(artifact)[k].role = "primary"}}

\* dependency_manifest: the files named, and the files the worker was observed
\* to read.
DependencyPaths(artifact, tree, trace, closing) ==
  IF artifact.kind = "test_plan" THEN ProofFiles(tree, artifact, closing)
  ELSE {Locations(artifact)[k].path : k \in DOMAIN Locations(artifact)} \cup trace.files

Manifest(artifact, tree, trace, closing) ==
  [scope |-> IF artifact.kind = "test_plan" \/ ~trace.gaps
             THEN "worktree semantic" ELSE "snapshot exact",
   files |-> Restrict(tree, DependencyPaths(artifact, tree, trace, closing))]

\* validate_semantic_artifact_with_evidence.
Validates(fragment, artifact, tree, trace, closing) ==
  /\ artifact.kind = "test_plan" => /\ Proposable(artifact)
                                    /\ ProofValid(tree, artifact, fragment.subject, closing)
  /\ \A k \in DOMAIN Locations(artifact) : LocationValid(tree, Locations(artifact)[k])
  /\ Covers(artifact, tree, fragment.subject)
  /\ \E o \in fragment.obligations : Satisfies(Derived(artifact, fragment.subject), o)
  /\ DependencyPaths(artifact, tree, trace, closing) # {}
  /\ DependencyPaths(artifact, tree, trace, closing) \subseteq DOMAIN tree

Certificate(fragment, artifact, tree, trace, closing) ==
  [artifact |-> artifact, inputs |-> fragment.inputs, world |-> fragment.world,
   coverage |-> {Derived(artifact, fragment.subject)},
   manifest |-> Manifest(artifact, tree, trace, closing)]

-----------------------------------------------------------------------------
(* Freshness.                                                              *)

\* dependency_is_fresh, for every dependency of a manifest.
DependenciesFresh(files, tree) ==
  \A p \in DOMAIN files : p \in DOMAIN tree /\ tree[p] = files[p]

\* artifact_and_certificate_are_fresh: the certificate is about the manifest
\* stored with the artifact, and this manifest is fresh.
FreshWith(manifest, certificate, tree) ==
  certificate.manifest = manifest /\ DependenciesFresh(manifest.files, tree)

-----------------------------------------------------------------------------
(* Claims.                                                                 *)

ClaimPayloads(artifact) ==
  CASE artifact.kind = "code_location" ->
         [k \in DOMAIN artifact.locations |->
            [kind |-> "location", location |-> artifact.locations[k]]]
    [] artifact.kind = "behavior_trace" ->
         [k \in DOMAIN artifact.steps |->
            [kind |-> "flow", anchor |-> artifact.steps, step |-> artifact.steps[k]]]
    [] artifact.kind = "test_plan" -> <<[kind |-> "tests", plan |-> artifact]>>

\* A claim depends on the file of its own location, a test on the whole proof.
ClaimFiles(claim, manifest) ==
  CASE claim.kind = "location" -> Restrict(manifest.files, {claim.location.path})
    [] claim.kind = "flow" -> Restrict(manifest.files, {claim.step.location.path})
    [] claim.kind = "tests" -> manifest.files

\* extract_validated_claims: every claim is certified for all that the artifact
\* covers; twice the same claim is refused when the claims are published.
Extractable(artifact) ==
  /\ Len(ClaimPayloads(artifact)) \in 1 .. MaxClaims
  /\ IsInjective(ClaimPayloads(artifact))

ClaimCertificates(certificate) ==
  {[claim |-> claim, origin |-> certificate.artifact, world |-> certificate.world,
    files |-> ClaimFiles(claim, certificate.manifest), obligations |-> certificate.coverage]
     : claim \in Range(ClaimPayloads(certificate.artifact))}

Precedes(artifact) ==
  LET claims == ClaimPayloads(artifact)
  IN  IF artifact.kind # "behavior_trace" THEN {}
      ELSE {<<claims[k], claims[k + 1]>> : k \in 1 .. Len(claims) - 1}

-----------------------------------------------------------------------------
(* What a manifest promises: an artifact that validates in one tree and is *)
(* fresh in another would validate there again.                            *)

=============================================================================
