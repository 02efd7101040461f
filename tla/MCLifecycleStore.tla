-------------------------- MODULE MCLifecycleStore --------------------------
(***************************************************************************)
(* The stored record of a change and its patch in the worktree, in small   *)
(* instances.  The two meet only in ChangeStore, so a behaviour here is    *)
(* about one of them: `focus' says which.                                  *)
(***************************************************************************)
EXTENDS LifecycleStore, MCActiveApply

CONSTANTS p1, p2, patchA, patchB

VARIABLE focus

MCFrozenProfile == [phase \in WorkerPhases |-> phase]

\* One list that is fine, one that validate() refuses.
MCArtifactLists == {<<1, 2>>, <<2, 1>>}

MCInit == focus \in {"lifecycle", "apply"} /\ Init /\ ApplyInit

MCNext ==
  \/ focus = "lifecycle" /\ Next /\ UNCHANGED <<applyVars, focus>>
  \/ focus = "apply" /\ ApplyNext /\ UNCHANGED <<vars, focus>>

MCSpec == MCInit /\ [][MCNext]_<<vars, applyVars, focus>> /\ WF_applyVars(ServerStep)
=============================================================================
