----------------------------- MODULE MCServices -----------------------------
(***************************************************************************)
(* Small inputs for the processes around the engine.                       *)
(***************************************************************************)
EXTENDS Services

-----------------------------------------------------------------------------
(* Role profiles: valid and invalid definitions, one of them not canonical.*)

Profile == [role |-> "implementer", tool |-> "isolated_write", fs |-> "disposable_checkout",
            command |-> "none", test |-> "disabled", rest |-> 1, routes |-> <<1>>]
MCInputs ==
  {Profile, [Profile EXCEPT !.routes = <<1, 1>>], [Profile EXCEPT !.rest = 2, !.routes = <<2, 1>>],
   [Profile EXCEPT !.role = "reviewer"],
   [Profile EXCEPT !.role = "verifier", !.tool = "read_only", !.fs = "read_only_checkout",
                   !.command = "certified_tests", !.test = "certified"]}

-----------------------------------------------------------------------------
(* Worker requests with and without a declared plan, and responses of      *)
(* every schema, complete or not.                                          *)

AskedOf(route, requested, fragment, declared) ==
  [route |-> route, requested |-> requested, fragment |-> fragment, declared |-> declared]
MCWorkerRequests ==
  {AskedOf("trace.state-flow", {}, FALSE, {}),
   AskedOf("locate.implementation", {"code_location", "test_plan"}, TRUE, {"t"})}
Entry(kind, form, plan) == [kind |-> kind, path |-> "p", form |-> form, plan |-> plan]
Reply(schema, entries, plan) == [schema |-> schema, entries |-> entries, plan |-> plan]
MCResponses ==
  {Reply("semantic", {Entry("code_location", "ok", {}), Entry("test_plan", "ok", {"u"})}, {}),
   Reply("artifact", {Entry("behavior_trace", "ok", {})}, {"t"}),
   Reply("artifact", {Entry("code_location", "malformed", {})}, {}),
   Reply("none", {}, {})}
MCCommandRuns == {<<>>, <<FALSE>>}

-----------------------------------------------------------------------------
(* Policies and a file whose settings would not pass as an edit.           *)

MCPolicyInputs == {FixedOrder({}), CheapestValidatedFirst({1})}
MCConfigFiles ==
  {[settings |-> [executable |-> "other", rest |-> 0], policy |-> FixedOrder({2}),
    route |-> [definition |-> 2, enabled |-> FALSE]]}

-----------------------------------------------------------------------------
(* Three builds: the current one, an older one, and one that disagrees on  *)
(* the second migration.                                                   *)

MCMigrations == [server |-> <<"a", "b", "c">>, hook |-> <<"a", "b">>, other |-> <<"a", "x">>]

-----------------------------------------------------------------------------
(* Arms that pass the gate in one mode or another, and arms that fail it   *)
(* in one respect.                                                         *)

Run1 == [spawns |-> 1, turns |-> 1, repaired |-> FALSE]
MainArm == [Skipped EXCEPT !.transport = TRUE, !.process = TRUE, !.quality = TRUE, !.main = 9]
MCMainArms == {MainArm, [MainArm EXCEPT !.process = FALSE], [MainArm EXCEPT !.main = 5]}
MissArm ==
  [MainArm EXCEPT !.main = 4, !.worker = 2, !.runs = <<Run1>>, !.need = 1, !.certified = {"a"},
                  !.resolve = [status |-> "generated", kind |-> "miss", proved |-> FALSE, artifacts |-> {}]]
MCMissArms ==
  {MissArm, [MissArm EXCEPT !.certified = {"a", "b"}], [MissArm EXCEPT !.certified = {"a", "b", "c"}],
   [MissArm EXCEPT !.certified = {}], [MissArm EXCEPT !.runs = <<[Run1 EXCEPT !.turns = 2, !.repaired = TRUE]>>],
   [MissArm EXCEPT !.runs = <<Run1, Run1>>], [MissArm EXCEPT !.worker = Unpriced, !.proof = TRUE]}
HitArm(kind, artifacts) ==
  [MainArm EXCEPT !.main = 2, !.need = 1, !.proof = TRUE,
                  !.resolve = [status |-> "hit", kind |-> kind, proved |-> TRUE, artifacts |-> artifacts]]
MCHitArms ==
  {HitArm("coverage", {"a"}), HitArm("exact", {"a"}), HitArm("composite", {"a", "b"}),
   HitArm("coverage", {"d"}), [HitArm("exact", {"a"}) EXCEPT !.resolve.proved = FALSE],
   [HitArm("coverage", {"a"}) EXCEPT !.main = 7], [HitArm("coverage", {"a"}) EXCEPT !.need = 2],
   [HitArm("coverage", {"a"}) EXCEPT !.runs = <<Run1>>, !.worker = 1],
   [HitArm("composite", {"a", "b"}) EXCEPT !.main = 6]}
=============================================================================
