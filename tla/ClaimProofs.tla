----------------------------- MODULE ClaimProofs -----------------------------
(***************************************************************************)
(* Proofs from claims (needle-runtime/src/claim_proof.rs) and what the     *)
(* agent is told of them (semantic_claim_projection.rs).  An obligation is *)
(* proven by one fresh claim, or, for a runtime flow, by the fresh steps   *)
(* of one validated trace when these form a path with every role.          *)
(*                                                                         *)
(* Where the code takes the smallest digest, the model has every choice:   *)
(* a proof is one of a set of proofs.                                      *)
(***************************************************************************)
EXTENDS SemanticValidation

CONSTANTS
  MaxSelectedClaims,   \* MAX_SELECTED_CLAIMS
  MaxClaimCandidates,  \* MAX_CLAIM_CANDIDATES
  MaxClaimOrigins      \* MAX_CLAIM_ORIGINS

ASSUME MaxSelectedAssumption == MaxSelectedClaims \in Nat

-----------------------------------------------------------------------------
(* Material: certificates, one claim each, and the order of flow steps.    *)

ClaimsIn(certificates) == {c.claim : c \in certificates}

\* claim_proof_material_for_artifacts and filter_claim_material_for_need.
MaterialFor(need, certificates, relations) ==
  LET usable == {c \in certificates :
                   /\ c.world = need.world
                   /\ \E o \in c.obligations, r \in need.required : Satisfies(o, r)}
  IN  [certificates |-> usable,
       relations |-> {r \in relations : {r[1], r[2]} \subseteq ClaimsIn(usable)}]

\* validate_material: the bounds and the world.
MaterialUsable(need, material) ==
  /\ need.required # {} /\ ~need.residual
  /\ Cardinality(material.certificates) \in 1 .. MaxClaimCandidates
  /\ Cardinality(material.relations) <= MaxClaimCandidates
  /\ \A c \in material.certificates :
       /\ c.world = need.world
       /\ \A o \in c.obligations : o.predicate = c.claim.kind /\ o.subject = need.subject.name

-----------------------------------------------------------------------------
(* Selection.                                                              *)

\* certificate_satisfying.
Satisfying(material, obligation, tree) ==
  {c \in material.certificates : /\ \E o \in c.obligations : Satisfies(o, obligation)
                                 /\ DependenciesFresh(c.files, tree)}

\* select_single_claim: a primary location, or a focused test.
SingleProofs(material, obligation, tree) ==
  {{c} : c \in {c \in Satisfying(material, obligation, tree) :
                  c.claim.kind = "location" => c.claim.location.role = "primary"}}

\* connected_flow: as many edges as a path has, one start, one end, no branch,
\* and the walk from the start visits every step.
Connected(claims, relations) ==
  LET edges == {r \in relations : {r[1], r[2]} \subseteq claims}
      In(c) == Cardinality({e \in edges : e[2] = c})
      Out(c) == Cardinality({e \in edges : e[1] = c})
      Next(c) == (CHOOSE e \in edges : e[1] = c)[2]
      walk[k \in 1 .. Cardinality(claims)] ==
        IF k = 1 THEN CHOOSE c \in claims : In(c) = 0
        ELSE IF Out(walk[k - 1]) = 0 THEN walk[k - 1] ELSE Next(walk[k - 1])
  IN  /\ Cardinality(edges) + 1 = Cardinality(claims)
      /\ Cardinality({c \in claims : In(c) = 0}) = 1
      /\ Cardinality({c \in claims : Out(c) = 0}) = 1
      /\ \A c \in claims : In(c) <= 1 /\ Out(c) <= 1
      /\ Range(walk) = claims

\* select_runtime_flow: the steps of one trace that are fresh.  A claim has one
\* of its certificates.
FlowProofs(material, obligation, tree) ==
  LET fresh == Satisfying(material, obligation, tree)
      Steps(anchor) == {c \in fresh : c.claim.anchor = anchor}
      Roles(steps) == {c.claim.step.role : c \in steps}
  IN  UNION {{chosen \in SUBSET Steps(anchor) :
                /\ ClaimsIn(chosen) = ClaimsIn(Steps(anchor))
                /\ Cardinality(chosen) = Cardinality(ClaimsIn(chosen))
                /\ FlowRoles \subseteq Roles(chosen)
                /\ Cardinality(chosen) <= MaxSelectedClaims
                /\ Connected(ClaimsIn(chosen), material.relations)}
               : anchor \in {c.claim.anchor : c \in fresh}}

ProofsOf(material, obligation, tree) ==
  IF obligation.predicate = "flow" THEN FlowProofs(material, obligation, tree)
  ELSE SingleProofs(material, obligation, tree)

\* select_claim_proof, build_claim_component_certificate: a proof of each of the
\* obligations, within the bounds.
ClaimProofsFor(need, obligations, material, tree) ==
  IF ~MaterialUsable(need, material) \/ obligations = {} THEN {}
  ELSE {UNION Range(proof) :
          proof \in {f \in [obligations -> UNION {ProofsOf(material, o, tree) : o \in obligations}] :
                       /\ \A o \in obligations : f[o] \in ProofsOf(material, o, tree)
                       /\ Cardinality(UNION Range(f)) <= MaxSelectedClaims
                       /\ Cardinality({c.origin : c \in UNION Range(f)}) <= MaxClaimOrigins}}

-----------------------------------------------------------------------------
(* Projection.                                                             *)

FlowOf(proof) == {c.claim : c \in {d \in proof : d.claim.kind = "flow"}}

\* order_flow_claims.
FlowOrders(claims, relations) ==
  {order \in [1 .. Cardinality(claims) -> claims] :
     /\ IsInjective(order)
     /\ \A k \in 1 .. Cardinality(claims) - 1 : <<order[k], order[k + 1]>> \in relations}

\* project_claim_brief: one certificate a claim, primary locations, at most one
\* test, one flow in order, and nothing that the base artifacts already tell.
Projectable(proof, relations, base) ==
  /\ Cardinality(proof) \in 1 .. MaxSelectedClaims
  /\ Cardinality(ClaimsIn(proof)) = Cardinality(proof)
  /\ \A c \in proof : c.claim.kind = "location" => c.claim.location.role = "primary"
  /\ Cardinality({c.claim.plan : c \in {d \in proof : d.claim.kind = "tests"}}
                   \cup {a \in base : a.kind = "test_plan"}) <= 1
  /\ FlowOf(proof) # {} =>
       /\ \A a \in base : a.kind # "behavior_trace"
       /\ Cardinality({c.anchor : c \in FlowOf(proof)}) = 1
       /\ Cardinality({r \in relations : {r[1], r[2]} \subseteq FlowOf(proof)}) + 1
            = Cardinality(FlowOf(proof))
       /\ FlowOrders(FlowOf(proof), relations) # {}

-----------------------------------------------------------------------------
(* What a claim proof promises.                                            *)

\* The flow of a proof is an unbroken stretch of the trace that was validated,
\* with every role.
FlowIsAStretch(proof) ==
  FlowOf(proof) # {} =>
    \E anchor \in {c.anchor : c \in FlowOf(proof)} :
      \E first, last \in DOMAIN anchor :
        /\ {c.step : c \in FlowOf(proof)} = {anchor[k] : k \in first .. last}
        /\ FlowRoles \subseteq {anchor[k].role : k \in first .. last}

\* A proof covers its obligations with fresh claims only, tells one flow, and
\* can be projected beside artifacts that cover other predicates.
ClaimProofHolds(need, obligations, material, tree) ==
  \A proof \in ClaimProofsFor(need, obligations, material, tree) :
    /\ \A o \in obligations : \E c \in proof : \E p \in c.obligations : Satisfies(p, o)
    /\ \A c \in proof : DependenciesFresh(c.files, tree)
    /\ FlowIsAStretch(proof)
    /\ Projectable(proof, material.relations, {})

=============================================================================
