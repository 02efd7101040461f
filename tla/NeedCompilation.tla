--------------------------- MODULE NeedCompilation ---------------------------
(***************************************************************************)
(* From a need as the agent writes it to the need the resolver works on    *)
(* (needle-core/src/semantic.rs, needle-app/src/mcp/schema.rs): what the   *)
(* route demands and what the agent declares are merged, one obligation    *)
(* per predicate, and the compiled need gets an identity.  The hook's text *)
(* grammar and the MCP tool's JSON lead to the same intermediate form.     *)
(*                                                                         *)
(* A digest is modelled by what it is computed from, as a sequence of      *)
(* fields: equal sequences, and only those, have equal digests.            *)
(***************************************************************************)
EXTENDS Naturals, SequencesExt, FiniteSets

-----------------------------------------------------------------------------
(* Predicates, facets and the built-in contracts.                          *)

Predicates == {"location", "flow", "tests"}

Facet(key, value) == <<key, value>>

Expression(predicate, facets) == [predicate |-> predicate, facets |-> facets]

\* built_in_predicate_contracts: the facets a predicate may carry.
AllowedFacets(predicate) ==
  CASE predicate = "location" -> {"granularity", "polarity", "selection"}
    [] predicate = "flow" -> {"completeness", "granularity", "scenario"}
    [] predicate = "tests" -> {"completeness", "polarity", "selection"}

Routes == {"locate.implementation", "trace.state-flow", "tests.relevant"}

\* built_in_route_contracts: what a route requires by itself.
RouteRequired(route) ==
  CASE route = "locate.implementation" ->
         {Expression("location", {Facet("granularity", "exact-location"),
                                  Facet("polarity", "positive"),
                                  Facet("selection", "primary")})}
    [] route = "trace.state-flow" ->
         {Expression("location", {Facet("polarity", "positive"),
                                  Facet("selection", "primary")}),
          Expression("flow", {Facet("completeness", "contract-complete"),
                              Facet("granularity", "stepwise"),
                              Facet("scenario", "default")})}
    [] route = "tests.relevant" ->
         {Expression("tests", {Facet("completeness", "open-world"),
                               Facet("polarity", "positive"),
                               Facet("selection", "representative")})}

RoutePreferred(route) ==
  IF route = "trace.state-flow"
  THEN {Expression("tests", {Facet("selection", "representative")})} ELSE {}

AllowedPredicates(route) ==
  CASE route = "locate.implementation" -> {"location", "tests"}
    [] route = "trace.state-flow" -> Predicates
    [] route = "tests.relevant" -> {"tests"}

-----------------------------------------------------------------------------
(* Merging and compiling.                                                  *)

PredicatesOf(expressions) == {e.predicate : e \in expressions}

\* merge_obligation_expressions: one expression per predicate, with the facets
\* of all of them.
Merged(expressions) ==
  {Expression(p, UNION {e.facets : e \in {x \in expressions : x.predicate = p}})
     : p \in PredicatesOf(expressions)}

\* ConflictingDeclaration: a facet with two values.
Conflicts(expressions) ==
  \E e \in Merged(expressions) : \E f, g \in e.facets : f[1] = g[1] /\ f[2] # g[2]

\* Obligation::new.
Obligation(subject, expression) ==
  [predicate |-> expression.predicate, subject |-> subject, facets |-> expression.facets]

\* Obligation::satisfies: at least as specific as the requested one.
Satisfies(provided, requested) ==
  /\ provided.predicate = requested.predicate /\ provided.subject = requested.subject
  /\ requested.facets \subseteq provided.facets

\* compile_obligations.
Supported(route, expressions) ==
  \A e \in expressions :
    /\ e.predicate \in AllowedPredicates(route)
    /\ \A f \in e.facets : f[1] \in AllowedFacets(e.predicate)

RequiredExpressions(ir) == Merged(RouteRequired(ir.route) \cup ir.required)

\* A predicate that is required is no longer preferred.
PreferredExpressions(ir) ==
  {e \in Merged(RoutePreferred(ir.route) \cup ir.preferred) :
     e.predicate \notin PredicatesOf(RequiredExpressions(ir))}

\* The world's facets: known keys, one value each.
WorldKeys == {"source", "platform", "features", "configuration", "toolchain"}

WorldSupported(world) ==
  /\ \A k \in DOMAIN world : world[k][1] \in WorldKeys
  /\ \A j, k \in DOMAIN world : world[j][1] = world[k][1] => j = k

WorldValue(world, key, default) ==
  IF \E k \in DOMAIN world : world[k][1] = key
  THEN world[CHOOSE k \in DOMAIN world : world[k][1] = key][2] ELSE default

SemanticWorld(world) ==
  [source |-> WorldValue(world, "source", "current"),
   platform |-> WorldValue(world, "platform", "current"),
   features |-> WorldValue(world, "features", "default"),
   configuration |-> WorldValue(world, "configuration", "none"),
   toolchain |-> WorldValue(world, "toolchain", "none")]

\* compile_need succeeds.
Compiles(ir) ==
  /\ Cardinality(ir.subjects) = 1
  /\ ~Conflicts(RouteRequired(ir.route) \cup ir.required)
  /\ ~Conflicts(RoutePreferred(ir.route) \cup ir.preferred)
  /\ Supported(ir.route, RequiredExpressions(ir) \cup PreferredExpressions(ir))
  /\ WorldSupported(ir.world)

\* undeclared_exact_anchor: the body names an exact thing that is no subject.
HasUndeclaredAnchor(ir) == ~(ir.anchors \subseteq ir.subjects)

Residual(ir) == ir.constraints # {} \/ HasUndeclaredAnchor(ir)

\* The obligations of one list in the order of their digests, which the caller
\* gives as an order of the predicates.
InOrder(obligations, order) ==
  FlattenSeq([k \in DOMAIN order |-> SetToSeq({o \in obligations : o.predicate = order[k]})])

\* NeedId: the fields that are hashed.  The required and the preferred
\* obligations follow each other without a mark between them.
NeedIdentity(subject, required, preferred, ir, order) ==
  [obligations |-> InOrder(required, order) \o InOrder(preferred, order),
   subject |-> subject, constraints |-> ir.constraints, world |-> SemanticWorld(ir.world)]

Compiled(ir, order) ==
  LET subject == CHOOSE s \in ir.subjects : TRUE
      required == {Obligation(subject, e) : e \in RequiredExpressions(ir)}
      preferred == {Obligation(subject, e) : e \in PreferredExpressions(ir)}
  IN  [id |-> NeedIdentity(subject, required, preferred, ir, order),
       subjects |-> ir.subjects, required |-> required, preferred |-> preferred,
       constraints |-> ir.constraints, world |-> SemanticWorld(ir.world),
       residual |-> Residual(ir)]

-----------------------------------------------------------------------------
(* The two transports.                                                     *)

\* The MCP tool: one subject, at most one capability per predicate over both
\* lists, a world that always names its three selectors.
McpCapability(predicate, keys) ==
  Expression(predicate,
    {f \in UNION {e.facets : e \in UNION {RouteRequired(r) : r \in Routes}} :
       f[1] \in keys /\ \E r \in Routes : \E e \in RouteRequired(r) :
         e.predicate = predicate /\ f \in e.facets})

McpAccepts(request) ==
  /\ PredicatesOf(request.required) \cap PredicatesOf(request.preferred) = {}
  /\ \A list \in {request.required, request.preferred} :
       Cardinality(list) = Cardinality(PredicatesOf(list))

\* validate_and_map.
McpIr(request) ==
  [route |-> request.route, subjects |-> {request.subject}, required |-> request.required,
   preferred |-> request.preferred, constraints |-> {}, anchors |-> request.anchors,
   world |-> <<Facet("features", request.features), Facet("platform", "current"),
               Facet("source", request.source)>>]

\* The hook's text: the same declarations, with the world's facets only where
\* they differ from the defaults.
HookIr(request) ==
  [McpIr(request) EXCEPT !.world =
     (IF request.features = "default" THEN <<>> ELSE <<Facet("features", request.features)>>)
     \o (IF request.source = "current" THEN <<>> ELSE <<Facet("source", request.source)>>)]
=============================================================================
