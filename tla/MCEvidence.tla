----------------------------- MODULE MCEvidence -----------------------------
(***************************************************************************)
(* A main session asks for evidence (MainSession), evidence is reused      *)
(* between calls (SemanticReuse), and decisions are made on the way        *)
(* (Decisions), over small sets of inputs.  A behaviour is about one of    *)
(* the three: `focus' says which.                                          *)
(***************************************************************************)
EXTENDS MainSession, SemanticReuse, Decisions

VARIABLE focus

-----------------------------------------------------------------------------
(* Files, artifacts and needs.                                             *)

File(words) == [words |-> words, cargo |-> "none", target |-> "none"]
Cargo(form, path) == [words |-> <<>>, cargo |-> form, target |-> path]
Subject == [kind |-> "symbol", name |-> "s"]
RequiredBy(route) == {Obligation("s", e) : e \in RouteRequired(route)}
NeedFor(required) ==
  [subject |-> Subject, required |-> required, world |-> "w", residual |-> FALSE]
At(path, start, end, role) ==
  [path |-> path, symbol |-> {}, start |-> {start}, end |-> {end}, role |-> role]
LocationArtifact(locations) ==
  [kind |-> "code_location", locations |-> locations, gaps |-> FALSE]
TestArtifact(proof, target) ==
  [kind |-> "test_plan", canonical |-> TRUE, safe |-> TRUE, identifiers |-> <<"t1">>,
   selection |-> "representative", evidence |-> proof, target |-> target]
Traced(files) == [files |-> files, gaps |-> FALSE]

-----------------------------------------------------------------------------
(* Reuse between calls.                                                    *)

MCNeeds == {NeedFor(RequiredBy("locate.implementation")),
            NeedFor(RequiredBy("locate.implementation") \cup RequiredBy("tests.relevant"))}
Located == [artifact |-> LocationArtifact(<<At("a", 0, 1, "primary")>>), trace |-> Traced({"b"})]
Tested == [artifact |-> TestArtifact({"t"}, {}), trace |-> Traced({"t"})]
MCResults == {<<Tested>>, <<Located, Tested>>}
MCDeclared == {[canonical |-> TRUE, safe |-> TRUE, identifiers |-> <<"t1">>, target |-> {"t"}]}
MCTree ==
  ("a" :> File(<<"s", "x">>)) @@ ("b" :> File(<<"q">>)) @@ ("t" :> File(<<"t1", "s">>))
MCEdits == {<<"a", {File(<<"z">>)}>>, <<"b", {File(<<"r">>)}>>, <<"t", {}>>}

-----------------------------------------------------------------------------
(* Patches: every pair of trees over three paths, under two scopes.        *)

PatchEntry(kind, digest, bytes, text) ==
  [kind |-> kind, digest |-> digest, bytes |-> bytes, text |-> text]
PatchEntries == {PatchEntry("file", 1, 1, TRUE), PatchEntry("file", 2, 2, TRUE),
                 PatchEntry("symlink", 3, 0, TRUE)}
PatchPaths == {<<"d", "b", "x">>, <<"d", "c">>, <<"d", ".git">>}
PatchTrees == UNION {[paths -> PatchEntries] : paths \in SUBSET PatchPaths}
Scope(path, subtree) == [path |-> path, subtree |-> subtree]
MCPatchTasks ==
  {[kind |-> "patch", allowed |-> allowed, before |-> before, after |-> after, declared |-> {}] :
     allowed \in {<<Scope(<<"d">>, TRUE)>>, <<Scope(<<"d", "b">>, TRUE)>>},
     before \in PatchTrees, after \in PatchTrees}

-----------------------------------------------------------------------------
(* Verdicts: every response to a plain turn, and every evidence for an     *)
(* unreserved one.                                                         *)

TestSourcesOf == [plan : 1 .. 2, single : BOOLEAN, usable : BOOLEAN]
Evidence == [plan : 1 .. 3, id : 1 .. 2, patched : BOOLEAN, valid : BOOLEAN]
Ran(plan, id) == [plan |-> plan, id |-> id, patched |-> TRUE, valid |-> TRUE]
PlainTurn(sources, ran, unsupported) ==
  [sources |-> sources, evidence |-> ran, unsupported |-> unsupported, trusted |-> TRUE, canRun |-> TRUE,
   ended |-> TRUE, verdict |-> "verified", covers |-> "addressed", findings |-> FALSE,
   gaps |-> FALSE]
TooMany == [plan : 1 .. 3, single : {TRUE}, usable : {TRUE}]
UsualSource == [plan |-> 1, single |-> TRUE, usable |-> TRUE]
MCVerdictTasks ==
  {[kind |-> "verdict", turn |-> PlainTurn(sources, ran, unsupported)] :
     unsupported \in {{}, {1}}, sources \in {S \in SUBSET TestSourcesOf : Cardinality(S) <= 2} \cup {TooMany},
     ran \in {<<>>} \cup {<<e>> : e \in Evidence}
                    \cup {<<e, Ran(p, i)>> : e \in Evidence, p \in 1 .. 2, i \in 1 .. 2}}
  \cup
  {[kind |-> "verdict",
    turn |-> [sources |-> sources, evidence |-> ran, unsupported |-> {}, trusted |-> trusted, canRun |-> canRun,
              ended |-> ended, verdict |-> verdict, covers |-> covers, findings |-> findings,
              gaps |-> gaps]] :
     sources \in {{}, {UsualSource}}, ran \in {<<>>, <<Ran(1, 1)>>},
     trusted \in BOOLEAN, canRun \in BOOLEAN, ended \in BOOLEAN,
     verdict \in {"verified", "repairable", "inconclusive", "not_requested"},
     covers \in {"addressed", "open", "wrong"}, findings \in BOOLEAN, gaps \in BOOLEAN}

-----------------------------------------------------------------------------
(* Plans: two candidates, or three free of cost, which is one more than    *)
(* the budget has room for, for three obligations.                         *)

Candidates ==
  {c \in [covers : SUBSET (1 .. 3), exact : BOOLEAN, cost : 0 .. 1, claims : BOOLEAN] :
     (c.exact => c.covers = 1 .. 3) /\ ~(c.exact /\ c.claims)}
MCPlanTasks ==
  {[kind |-> "plan", need |-> [count |-> 3, residual |-> residual], candidates |-> candidates] :
     residual \in BOOLEAN,
     candidates \in [1 .. 2 -> Candidates] \cup [1 .. 3 -> {c \in Candidates : c.cost = 0}]}

-----------------------------------------------------------------------------
(* Manifests: locations, a flow and tests in trees that differ.            *)

FlowStep(role, path) ==
  [role |-> role, location |-> [At(path, 0, 1, "primary") EXCEPT !.symbol = {{"s"}}]]
FlowArtifact(flow) ==
  [kind |-> "behavior_trace", gaps |-> FALSE, scenario |-> "default", steps |-> flow]
ShortFlow == <<FlowStep("producer", "a"), FlowStep("carrier", "a"), FlowStep("transformation", "b"),
               FlowStep("precedence", "b"), FlowStep("consumer", "a")>>
LongFlow == <<FlowStep("producer", "a"), FlowStep("carrier", "a"), FlowStep("carrier", "b"),
              FlowStep("transformation", "a"), FlowStep("precedence", "a"),
              FlowStep("consumer", "a"), FlowStep("consumer", "c")>>
SourceTrees ==
  {tree \in UNION {[paths -> {File(<<"s", "x">>), File(<<"x">>), File(<<"t1", "s">>),
                              Cargo("auto", "none"), Cargo("path", "u")}] :
                     paths \in SUBSET {"a", "b", "t", "m", "u"}} :
     \A p \in DOMAIN tree :
       /\ p = "m" <=> tree[p].cargo # "none"
       /\ p \in {"t", "u"} <=> tree[p] = File(<<"t1", "s">>)}
FullTrees == {tree \in SourceTrees : {"a", "b", "t"} \subseteq DOMAIN tree
                                       /\ tree["a"] = tree["b"] /\ tree["a"] = File(<<"s", "x">>)}
MCFragment(routes) ==
  [subject |-> Subject, world |-> "w", inputs |-> {},
   obligations |-> UNION {RequiredBy(r) : r \in routes}]
MCManifestTasks ==
  {[kind |-> "manifest", artifact |-> given[1], before |-> before, after |-> after,
    trace |-> Traced(given[2]), closing |-> given[3], fragment |-> MCFragment(Routes)] :
     given \in {<<LocationArtifact(<<At("a", 0, 1, "primary"), At("b", 0, 1, "supporting")>>), {}, FALSE>>,
                <<LocationArtifact(<<At("a", 0, 1, "primary")>>), {"b"}, FALSE>>,
                <<FlowArtifact(ShortFlow), {}, FALSE>>,
                <<TestArtifact({"t", "m"}, {"t"}), {}, TRUE>>,
                <<TestArtifact({"t"}, {}), {}, TRUE>>, <<TestArtifact({"t"}, {"t"}), {}, FALSE>>},
     before \in FullTrees, after \in SourceTrees}

-----------------------------------------------------------------------------
(* Claims: those of three artifacts that were valid, in every later tree.  *)

ClaimedTree == ("a" :> File(<<"s", "x">>)) @@ ("b" :> File(<<"s", "x">>))
               @@ ("c" :> File(<<"s", "x">>)) @@ ("t" :> File(<<"t1", "s">>))
LaterTrees == {tree \in UNION {[paths -> {File(<<"s", "x">>), File(<<"x">>), File(<<"t1", "s">>)}] :
                                 paths \in SUBSET {"a", "b", "c", "t"}} :
                 \A p \in DOMAIN tree : p = "t" <=> tree[p] = File(<<"t1", "s">>)}
ClaimedArtifacts == {LocationArtifact(<<At("a", 0, 1, "primary"), At("b", 0, 1, "primary")>>),
                     FlowArtifact(LongFlow), TestArtifact({"t"}, {})}
MCClaimTasks ==
  {[kind |-> "claims", tree |-> tree, need |-> NeedFor(UNION {RequiredBy(r) : r \in routes}),
    certificates |-> UNION {ClaimCertificates(Certificate(MCFragment(Routes), a, ClaimedTree,
                                                          Traced({}), TRUE)) : a \in ClaimedArtifacts},
    relations |-> UNION {Precedes(a) : a \in ClaimedArtifacts}] :
     tree \in LaterTrees, routes \in {{"locate.implementation"}, {"trace.state-flow"},
                                       {"tests.relevant"}, {"trace.state-flow", "tests.relevant"}}}

-----------------------------------------------------------------------------
(* Ledgers: two needs of a session, the first answered in part or whole.   *)

Asked(route, subject, required, at, anchors) ==
  [route |-> route, subject |-> subject, required |-> required, preferred |-> {},
   features |-> "default", source |-> at, anchors |-> anchors]
MCRequests ==
  {r \in {Asked(route, "s", required, at, {}) :
            route \in Routes, at \in {"current", "head"},
            required \in {{}, {McpCapability("tests", {"selection"})},
                         {McpCapability("tests", {"selection", "polarity"})}}}
          \cup {Asked("tests.relevant", "r", {}, "current", {}),
               Asked("tests.relevant", "s", {}, "current", {"q"}),
               [Asked("locate.implementation", "s", {}, "current", {}) EXCEPT
                  !.preferred = {McpCapability("tests", {"selection"})}]} :
     McpAccepts(r) /\ Compiles(McpIr(r))}
MCLedgerTasks ==
  {[kind |-> "ledger", first |-> first, satisfied |-> satisfied, second |-> second, order |-> order] :
     first \in MCRequests, second \in MCRequests, satisfied \in SUBSET Predicates,
     order \in {<<"location", "flow", "tests">>, <<"tests", "location", "flow">>}}

-----------------------------------------------------------------------------
(* The parts side by side.                                                 *)

NoTask == [kind |-> "none"]

NothingToDecide == task = NoTask /\ result = <<>>

NothingToAsk == MainInit /\ loop.driver = "direct" /\ loop.continues

EvidenceInit ==
  \/ focus = "main" /\ MainInit /\ ReuseInit /\ NothingToDecide
  \/ focus = "reuse" /\ NothingToAsk /\ ReuseInit /\ NothingToDecide
  \/ focus = "decisions" /\ NothingToAsk /\ ReuseInit /\ DecisionInit

EvidenceNext ==
  \/ focus = "main" /\ MainNext /\ UNCHANGED <<reuseVars, decisionVars, focus>>
  \/ focus = "reuse" /\ ReuseNext /\ UNCHANGED <<mainVars, decisionVars, focus>>
  \/ focus = "decisions" /\ DecisionNext /\ UNCHANGED <<mainVars, reuseVars, focus>>
=============================================================================
