----------------------------- MODULE MCChanges ------------------------------
(***************************************************************************)
(* The records of a change under any order of transactions (`records'),    *)
(* the sessions that make these transactions (`sessions'), and the hooks   *)
(* of the other transport, which share nothing with them (`hooks').        *)
(***************************************************************************)
EXTENDS ChangeSessions, HookSession, TLC

CONSTANTS patchA, patchB, a1, a2, s1, s2, p1, p2

VARIABLE focus

MCFrozenProfile == [phase \in WorkerPhases |-> phase]

\* The claim of the first turn is the one that is pruned.
MCDigestRank(key) == IF key[2] = "t1" THEN 1 ELSE 2

MCSymmetry == Permutations({s1, s2}) \cup Permutations({p1, p2})

\* An experiment answers without looking at the session row or at what it would
\* freeze, so there the runs do without session starts and reconfiguration.
NoRowsInExperiments ==
  world.experiment => <<world'.starts, world'.active, world'.routes>> = <<0, 0, 1>>

ChangesInit ==
  /\ SessionInit /\ HookInit
  /\ focus \in {"records", "sessions", "hooks"}
  /\ world.experiment => focus = "hooks"

ChangesNext ==
  \/ focus = "records" /\ Next /\ UNCHANGED <<sessionVars, hookVars, focus>>
  \/ focus = "sessions" /\ SessionNext /\ UNCHANGED <<hookVars, focus>>
  \/ focus = "hooks" /\ HookNext /\ NoRowsInExperiments /\ UNCHANGED <<allVars, focus>>
=============================================================================
