------------------------- MODULE MCCommandApprovals -------------------------
(* The instance of CommandApprovals: two workers that wait at the same time,  *)
(* a worker next to a patcher, a worker with a declared test, a verifier.     *)
EXTENDS CommandApprovals, TLC

MCTogether == {{"w", "w2"}, {"w", "p"}, {"t"}, {"v"}}

MCCommandOf ==
    "i1" :> "unknown" @@ "i2" :> "t1" @@ "i3" :> "t1" @@ "i4" :> "t2"
        @@ "i5" :> "read" @@ "i6" :> "network"

MCAsks ==
    "w" :> {"i1"} @@ "w2" :> {"i1"} @@ "p" :> {"i1"} @@ "t" :> {"i1", "i2"}
        @@ "v" :> {"i2", "i3", "i4", "i5", "i6"}

\* Two plans that share their argv, and one of its own.
MCPlans == <<"t1", "t1", "t2">>
=============================================================================
