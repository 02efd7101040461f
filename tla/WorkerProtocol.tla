--------------------------- MODULE WorkerProtocol ---------------------------
(***************************************************************************)
(* What an evidence worker is asked for and what becomes of its responses  *)
(* (needle-platform-codex/src/worker.rs and worker/protocol.rs): each      *)
(* response is normalised, invalid parts are dropped with a diagnostic, a  *)
(* repair turn may add a second response, and the sum is accepted or not.  *)
(*                                                                         *)
(* A request is [route, requested, fragment, declared]: the kinds asked    *)
(* for, whether it carries a semantic fragment, and the declared test plan *)
(* as a set of at most one.  A response is                                 *)
(*   [schema, entries, plan]                                               *)
(* where schema is "semantic", "artifact", "legacy" or "none", entries are *)
(* [kind, path, form, plan] with form "ok", "bad" (refused alone) or       *)
(* "malformed" (refused by the parser), and plan is the plan beside the    *)
(* groups of an artifact response.                                         *)
(***************************************************************************)
EXTENDS Naturals, Sequences, FiniteSets

-----------------------------------------------------------------------------
(* The request.                                                            *)

ArtifactKinds == {"code_location", "behavior_trace", "test_plan"}

\* The nodes of a route's plan, without the brief.
RouteKinds(route) ==
  CASE route = "locate.implementation" -> {"code_location", "test_plan"}
    [] route = "trace.state-flow" -> ArtifactKinds
    [] route = "tests.relevant" -> {"test_plan"}

\* requested_model_artifact_kinds: a declared plan is not asked for again, and
\* a trace stands for its locations unless the request is semantic.
ModelKinds(request) ==
  LET asked == IF request.requested = {} THEN RouteKinds(request.route) ELSE request.requested
      undeclared == IF request.declared = {} THEN asked ELSE asked \ {"test_plan"}
  IN  IF ~request.fragment /\ "behavior_trace" \in undeclared
      THEN undeclared \ {"code_location"} ELSE undeclared

\* effective_test_plan.
EffectivePlan(request) ==
  IF request.requested = {} \/ "test_plan" \in request.requested THEN request.declared ELSE {}

-----------------------------------------------------------------------------
(* One response.                                                           *)

\* schema_failure, and the response before anything is added.
NothingNormal == [groups |-> {}, plan |-> {}, schema |-> {}, semantic |-> {}, problem |-> FALSE]

SchemaFailure == [NothingNormal EXCEPT !.problem = TRUE]

\* discard_unrequested_semantic_values happens before parsing.
Considered(response, kinds) ==
  IF response.schema = "semantic" /\ kinds # {}
  THEN {e \in response.entries : e.kind \in kinds} ELSE response.entries

Group(kind, path) == [kind |-> kind, path |-> path]

Valid(entries) == {e \in entries : e.form = "ok"}

\* normalize_semantic_artifact and adapt_semantic_artifact: each valid artifact
\* also stands as a group, a plan among them as the plan.
SemanticNormal(entries) ==
  LET plans == UNION {e.plan : e \in {x \in Valid(entries) : x.kind = "test_plan"}}
  IN  [groups |-> {Group(e.kind, e.path) : e \in Valid(entries)},
       plan |-> IF plans = {} THEN {} ELSE {CHOOSE p \in plans : TRUE},
       schema |-> {"semantic"}, semantic |-> Valid(entries), problem |-> entries # Valid(entries)]

\* normalize_response: typed groups, and a plan beside them.
ArtifactNormal(entries, plan) ==
  [groups |-> {Group(e.kind, e.path) : e \in Valid(entries)}, plan |-> plan \ {"bad"},
   schema |-> {"artifact"}, semantic |-> {},
   problem |-> entries # Valid(entries) \/ "bad" \in plan]

\* normalize_legacy_response: every group is a location.
LegacyNormal(entries) ==
  [groups |-> {Group("code_location", e.path) : e \in Valid(entries)}, plan |-> {},
   schema |-> {"need result"}, semantic |-> {}, problem |-> entries # Valid(entries)]

\* deserialize_and_normalize: one malformed value refuses the whole response.
Parsed(response, kinds) ==
  LET entries == Considered(response, kinds)
  IN  IF response.schema = "none" \/ \E e \in entries : e.form = "malformed"
      THEN SchemaFailure
      ELSE CASE response.schema = "semantic" -> SemanticNormal(entries)
             [] response.schema = "artifact" -> ArtifactNormal(entries, response.plan)
             [] response.schema = "legacy" -> LegacyNormal(entries)

HasKind(normal, kind) ==
  (kind = "test_plan" /\ normal.plan # {}) \/ \E g \in normal.groups : g.kind = kind

Missing(normal, kinds) == {k \in kinds : ~HasKind(normal, k)}

\* discard_unrequested_kinds and record_missing_requested_kinds.  What is discarded as unrequested is no
\* reason for a repair.
Normalized(response, kinds) ==
  LET parsed == Parsed(response, kinds)
      kept == [parsed EXCEPT !.groups = {g \in @ : g.kind \in kinds},
                             !.semantic = {e \in @ : e.kind \in kinds},
                             !.plan = IF "test_plan" \in kinds THEN @ ELSE {}]
  IN  [kept EXCEPT !.problem = @ \/ Missing(kept, kinds) # {}]

HasFacts(normal) == normal.groups # {} \/ normal.plan # {}

-----------------------------------------------------------------------------
(* The repair turn.                                                        *)

\* test_evidence_error: some command ran, and none of them was the declared test
\* with a valid result.
TestError(request, commands) ==
  EffectivePlan(request) # {} /\ commands # <<>> /\ \A k \in DOMAIN commands : ~commands[k]

\* artifact_repair_is_actionable.
Actionable(request, response) ==
  ModelKinds(request) = {"test_plan"} =>
    (\E e \in response.entries : e.kind = "test_plan") \/ response.plan # {}

\* should_repair and repair_required.
RepairRequired(policy, request, response, normal, commands) ==
  /\ policy = "repair once"
  /\ \/ TestError(request, commands)
     \/ (~HasFacts(normal) \/ normal.problem) /\ Actionable(request, response)

\* Agreement of two optional values: the only one, the common one, or none.
Agreed(left, right) ==
  IF left = {} THEN right ELSE IF right # {} /\ left # right THEN {} ELSE left

\* NormalizedResponse::merge.
MergedResponse(first, second) ==
  [groups |-> first.groups \cup second.groups, plan |-> Agreed(first.plan, second.plan),
   schema |-> Agreed(first.schema, second.schema),
   semantic |-> first.semantic \cup second.semantic,
   problem |-> first.problem \/ second.problem]

-----------------------------------------------------------------------------
(* Acceptance.                                                             *)

\* The checks after the last turn, in their order.
Verdict(request, normal, commands) ==
  IF TestError(request, commands) THEN "test_evidence_invalid"
  ELSE IF Missing(normal, ModelKinds(request)) # {} THEN "artifact_protocol_incomplete"
  ELSE IF ~HasFacts(normal) THEN "no_valid_evidence"
  ELSE IF normal.schema = {} THEN "artifact_protocol_ambiguous" ELSE "accepted"

\* What acceptance promises: every kind the caller asked for is there, is declared
\* or is told by a trace; nothing is kept that was refused or not asked for; and a
\* declared plan was not run badly.
AcceptanceIsEarned(request, normal, commands) ==
  LET asked == IF request.requested = {} THEN RouteKinds(request.route) ELSE request.requested
  IN  /\ \A k \in asked :
           \/ HasKind(normal, k)
           \/ k = "test_plan" /\ request.declared # {}
           \/ k = "code_location" /\ ~request.fragment /\ HasKind(normal, "behavior_trace")
      /\ request.declared # {} => ~HasKind(normal, "test_plan")
      /\ \A e \in normal.semantic : e.form = "ok" /\ e.kind \in asked
      /\ commands # <<>> /\ EffectivePlan(request) # {} => \E k \in DOMAIN commands : commands[k]
=============================================================================
