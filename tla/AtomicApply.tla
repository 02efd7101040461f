----------------------------- MODULE AtomicApply ----------------------------
(***************************************************************************)
(* What applying a verified change promises: from the journal entry on the *)
(* worktree is in doubt, and the doubt ends in exactly the patched tree, in*)
(* exactly the base tree, or in a recorded failure.  Paths somebody edits  *)
(* meanwhile belong to the editor and are outside the promise.             *)
(***************************************************************************)
CONSTANTS
  Paths,         \* the paths of the worktree
  BaseTree,      \* path -> content the patch was prepared on
  PatchedTree,   \* path -> content after the patch
  InDoubt        \* the worktree while no promise holds

VARIABLES
  ledger,        \* the status of the journalled apply
  view           \* the promised content of the unedited paths, or InDoubt

vars == <<ledger, view>>

Restrict(tree, paths) == [p \in paths |-> tree[p]]

Init == ledger = "None" /\ view = BaseTree

\* Somebody edits a path.
Edit ==
  /\ view # InDoubt
  /\ \E paths \in SUBSET DOMAIN view : view' = Restrict(view, paths)
  /\ UNCHANGED ledger

\* The worktree is found to be the base, whatever was edited before.
Observe ==
  /\ ledger \in {"None", "RolledBack"}
  /\ view' = BaseTree
  /\ UNCHANGED ledger

Begin ==
  /\ ledger \in {"None", "RolledBack"}
  /\ ledger' = "Applying" /\ view' = InDoubt

Commit ==
  /\ ledger = "Applying" /\ ledger' = "Applied"
  /\ \E paths \in SUBSET Paths : view' = Restrict(PatchedTree, paths)

Abort ==
  /\ ledger = "Applying" /\ ledger' = "RolledBack"
  /\ \E paths \in SUBSET Paths : view' = Restrict(BaseTree, paths)

Fail ==
  /\ ledger = "Applying" /\ ledger' \in {"RollbackFailed", "RecoveryConflict"}
  /\ UNCHANGED view

Next == Edit \/ Observe \/ Begin \/ Commit \/ Abort \/ Fail

Spec == Init /\ [][Next]_vars
=============================================================================
