----------------------------- MODULE ActiveApply ----------------------------
(***************************************************************************)
(* Applying a verified change to the user's worktree, and recovering from  *)
(* it: crates/needle-runtime/src/changes.rs, called by the control plane of*)
(* crates/needle-app/src/server.rs.                                        *)
(*                                                                         *)
(* One server holds the instance lock of the data directory, so one apply  *)
(* or recovery runs at a time.  It writes the files of the patch one by    *)
(* one; it may crash between any two steps or in the middle of a write, its*)
(* file and database operations may fail, and the user edits the worktree  *)
(* at any moment.  Each read of the whole worktree is one step: an edit    *)
(* during the read has the effect of one before or after it.               *)
(***************************************************************************)
EXTENDS Integers, Sequences, Functions

CONSTANTS
  Files,         \* patch.files: the paths of the patch, in order
  Operation,     \* path of the patch -> "Create" | "Update" | "Delete"
  OtherPaths,    \* paths the patch does not touch
  MaxFaults,     \* bound: crashes and failed operations
  MaxEdits,      \* bound: edits of the user
  InDoubt        \* the worktree of AtomicApply while no promise holds

PatchPaths == Range(Files)
Paths == PatchPaths \cup OtherPaths

\* observe_patch refuses an empty difference.
ASSUME PatchAssumption ==
  /\ Files \in Seq(PatchPaths) /\ Files # <<>>
  /\ Operation \in [PatchPaths -> {"Create", "Update", "Delete"}]
  /\ PatchPaths \cap OtherPaths = {}
  /\ IsInjective(Files)
  /\ MaxFaults \in Nat /\ MaxEdits \in Nat

VARIABLES
  tree,          \* path -> content
  row,           \* status of the change_applies row, "None" before the first
  state,         \* change_requests.state
  superseded,    \* the pending patch is no longer the latest revision
  pc,            \* what the server does next
  task,          \* on whose behalf: startup, preapply, apply
  index,         \* position in Files
  result,        \* the status finish_change_apply is about to record
  edited,        \* history: paths edited since the server last checked them
  faults, edits  \* counters

applyVars == <<tree, row, state, superseded, pc, task, index, result, edited,
               faults, edits>>

Contents == {"absent", "before", "after", "torn", "user"}
Finished == {"Applied", "RolledBack", "RollbackFailed", "RecoveryConflict"}

\* InDoubt is not a worktree.
ASSUME InDoubtAssumption == \A S \in SUBSET Paths : InDoubt \notin [S -> Contents]

Changes(p, operation) == p \in PatchPaths /\ Operation[p] = operation
BaseTree == [p \in Paths |-> IF Changes(p, "Create") THEN "absent" ELSE "before"]
PatchedTree ==
  [p \in Paths |-> IF p \in OtherPaths THEN "before"
                   ELSE IF Changes(p, "Delete") THEN "absent" ELSE "after"]

ApplyInit ==
  /\ tree = BaseTree
  /\ row = "None" /\ state = "verified" /\ superseded = FALSE
  /\ pc = "down" /\ task = "startup" /\ index = 0 /\ result = "None"
  /\ edited = {} /\ faults = 0 /\ edits = 0

applyRows == <<row, state, superseded>>
counters == <<faults, edits>>

\* Where an error return leaves the server: run() gives up at startup, a
\* request handler answers with an error.
Return == IF task = "startup" THEN "down" ELSE "idle"

-----------------------------------------------------------------------------
(* Entry points *)

\* run(): the instance lock, then recovery.
StartServer ==
  /\ pc = "down"
  /\ pc' = "recover" /\ task' = "startup"
  /\ UNCHANGED <<tree, applyRows, index, result, edited, counters>>

\* apply_change under apply_lock; recovery comes first.
RequestApply ==
  /\ pc = "idle"
  /\ pc' = "recover" /\ task' = "preapply"
  /\ UNCHANGED <<tree, applyRows, index, result, edited, counters>>

-----------------------------------------------------------------------------
(* recover_pending_change_applies *)

RecoverDone ==
  /\ pc = "recover" /\ row # "Applying"
  /\ pc' = IF task = "startup" THEN "idle" ELSE "check"
  /\ UNCHANGED <<tree, applyRows, task, index, result, edited, counters>>

\* Fault: recovery leaves an ambiguous apply for later.
SkipConflict ==
  /\ pc = "recover" /\ row = "Applying" /\ superseded
  /\ pc' = Return
  /\ UNCHANGED <<tree, applyRows, task, index, result, edited, counters>>

RecoverConflict ==
  /\ pc = "recover" /\ row = "Applying" /\ superseded
  /\ pc' = "finish" /\ result' = "RecoveryConflict"
  /\ UNCHANGED <<tree, applyRows, task, index, edited, counters>>

RecoverRollback ==
  /\ pc = "recover" /\ row = "Applying" /\ ~superseded
  /\ pc' = "rollback" /\ index' = Len(Files)
  /\ UNCHANGED <<tree, applyRows, task, result, edited, counters>>

-----------------------------------------------------------------------------
(* apply_verified_change_with_lifecycle *)

\* The change is verified and the worktree is the base of the patch.
Check ==
  /\ pc = "check"
  /\ IF state = "verified" /\ ~superseded /\ tree = BaseTree
       THEN pc' = "validate" /\ edited' = {}
       ELSE pc' = "idle" /\ UNCHANGED edited
  /\ UNCHANGED <<tree, applyRows, task, index, result, counters>>

BaseMatches == \A p \in PatchPaths : tree[p] = BaseTree[p]

\* Fault: the files are written before the journal entry exists.
ValidateAndWrite ==
  /\ pc = "validate"
  /\ pc' = IF BaseMatches THEN "revalidate" ELSE "idle"
  /\ UNCHANGED <<tree, applyRows, task, index, result, edited, counters>>

\* validate_patch_artifact_base before the journal entry
ValidateBase ==
  /\ pc = "validate"
  /\ pc' = IF BaseMatches THEN "begin" ELSE "idle"
  /\ UNCHANGED <<tree, applyRows, task, index, result, edited, counters>>

\* begin_change_apply_with_lifecycle
Begin ==
  /\ pc = "begin"
  /\ IF state = "verified" /\ ~superseded
       THEN /\ row' = "Applying" /\ state' = "applying"
            /\ pc' = "revalidate" /\ task' = "apply"
       ELSE pc' = "idle" /\ UNCHANGED <<row, state, task>>
  /\ UNCHANGED <<tree, superseded, index, result, edited, counters>>

GiveUp == pc' = "rollback" /\ index' = Len(Files)

\* materialize_patch_artifact: validates the base once more
Revalidate ==
  /\ pc = "revalidate"
  /\ IF BaseMatches THEN pc' = "write" /\ index' = 1 ELSE GiveUp
  /\ UNCHANGED <<tree, applyRows, task, result, edited, counters>>

\* materialize_patch_artifact: one file; removing an absent file fails.
Write ==
  /\ pc = "write"
  /\ LET p == Files[index]
     IN  IF Operation[p] = "Delete" /\ tree[p] = "absent"
           THEN GiveUp /\ UNCHANGED tree
           ELSE /\ tree' = [tree EXCEPT ![p] = PatchedTree[p]]
                /\ IF index = Len(Files)
                     THEN pc' = "inspect" /\ UNCHANGED index
                     ELSE index' = index + 1 /\ UNCHANGED pc
  /\ UNCHANGED <<applyRows, task, result, edited, counters>>

\* Fault: only the files that still exist are read back.
InspectExisting ==
  /\ pc = "inspect"
  /\ IF \A p \in PatchPaths : tree[p] # "absent" => tree[p] = PatchedTree[p]
       THEN /\ pc' = "finish" /\ result' = "Applied" /\ UNCHANGED index
            /\ edited' = edited \ PatchPaths
       ELSE GiveUp /\ UNCHANGED <<result, edited>>
  /\ UNCHANGED <<tree, applyRows, task, counters>>

\* materialize_patch_artifact: reads the files back
Inspect ==
  /\ pc = "inspect"
  /\ IF \A p \in PatchPaths : tree[p] = PatchedTree[p]
       THEN /\ pc' = "finish" /\ result' = "Applied" /\ UNCHANGED index
            /\ edited' = edited \ PatchPaths
       ELSE GiveUp /\ UNCHANGED <<result, edited>>
  /\ UNCHANGED <<tree, applyRows, task, counters>>

-----------------------------------------------------------------------------
(* rollback_patch_and_verify *)

\* rollback_patch: one file, in reverse order, whatever is there now.
Rollback ==
  /\ pc = "rollback"
  /\ tree' = [tree EXCEPT ![Files[index]] = BaseTree[Files[index]]]
  /\ IF index = 1 THEN pc' = "restored" /\ UNCHANGED index
                  ELSE index' = index - 1 /\ UNCHANGED pc
  /\ UNCHANGED <<applyRows, task, result, edited, counters>>

\* The snapshot decides whether the rollback succeeded.
Restored ==
  /\ pc = "restored"
  /\ pc' = "finish"
  /\ IF tree = BaseTree
       THEN result' = "RolledBack" /\ edited' = {}
       ELSE result' = "RollbackFailed" /\ UNCHANGED edited
  /\ UNCHANGED <<tree, applyRows, task, index, counters>>

\* finish_change_apply; a recovery that rolled back goes on, every other end
\* returns.
Finish ==
  /\ pc = "finish"
  /\ row' = result
  /\ state' = CASE result = "Applied" -> "applied"
                [] result = "RolledBack" -> "verified"
                [] OTHER -> "failed"
  /\ pc' = IF task # "apply" /\ result = "RolledBack" THEN "recover" ELSE Return
  /\ UNCHANGED <<tree, superseded, task, index, result, edited, counters>>

-----------------------------------------------------------------------------
(* Faults *)

Fault == faults < MaxFaults /\ faults' = faults + 1

\* A write that fails or is cut short leaves the file half written.
Torn ==
  /\ pc \in {"write", "rollback"}
  /\ \E content \in {"torn", tree[Files[index]]} :
       tree' = [tree EXCEPT ![Files[index]] = content]

\* The process dies, possibly in the middle of a write.
Crash ==
  /\ Fault
  /\ pc # "down" /\ pc' = "down"
  /\ Torn \/ UNCHANGED tree
  /\ UNCHANGED <<applyRows, task, index, result, edited, edits>>

\* A file operation of materialize_patch_artifact, or the snapshot after it,
\* fails.
MaterializeFault ==
  /\ Fault
  /\ \/ pc = "write" /\ Torn
     \/ pc \in {"revalidate", "inspect"} /\ UNCHANGED tree
  /\ GiveUp
  /\ UNCHANGED <<applyRows, task, result, edited, edits>>

\* A file operation of rollback_patch, or the snapshot after it, fails.
RollbackFault ==
  /\ Fault
  /\ \/ pc = "rollback" /\ Torn
     \/ pc = "restored" /\ UNCHANGED tree
  /\ pc' = "finish" /\ result' = "RollbackFailed"
  /\ UNCHANGED <<applyRows, task, index, edited, edits>>

\* A read before the journal entry, or a transaction, fails (a clock that went
\* backwards is enough for the lifecycle to refuse to finish).
StoreFault ==
  /\ Fault
  /\ pc \in {"recover", "check", "validate", "begin", "finish"}
  /\ pc' = Return
  /\ UNCHANGED <<tree, applyRows, task, index, result, edited, edits>>

-----------------------------------------------------------------------------
(* Environment *)

\* The user edits, creates or deletes a file.
UserEdit(p, content) ==
  /\ edits < MaxEdits /\ edits' = edits + 1
  /\ tree' = [tree EXCEPT ![p] = content]
  /\ edited' = edited \cup {p}
  /\ UNCHANGED <<applyRows, pc, task, index, result, faults>>

\* A late repairable verdict and its repair make a new revision (ChangeStore).
Supersede ==
  /\ row = "Applying" /\ ~superseded
  /\ superseded' = TRUE /\ state' = "prepared"
  /\ UNCHANGED <<tree, row, pc, task, index, result, edited, counters>>

ServerStep ==
  \/ RecoverDone \/ RecoverConflict \/ RecoverRollback
  \/ Check \/ ValidateBase \/ Begin \/ Revalidate \/ Write \/ Inspect
  \/ Rollback \/ Restored \/ Finish

ApplyNext ==
  \/ StartServer
  \/ RequestApply
  \/ ServerStep
  \/ Crash \/ MaterializeFault \/ RollbackFault \/ StoreFault
  \/ \E p \in Paths, content \in {"user", "absent"} : UserEdit(p, content)
  \/ Supersede

ApplySpec == ApplyInit /\ [][ApplyNext]_applyVars /\ WF_applyVars(ServerStep)

-----------------------------------------------------------------------------
(* Properties *)

\* The worktree, the journal and the server are in states of their types.
ApplyTypeOK ==
  /\ tree \in [Paths -> Contents]
  /\ row \in {"None", "Applying"} \cup Finished
  /\ state \in {"verified", "prepared", "applying", "applied", "failed"}
  /\ superseded \in BOOLEAN
  /\ pc \in {"down", "idle", "recover", "check", "validate", "begin",
             "revalidate", "write", "inspect", "rollback", "restored", "finish"}
  /\ task \in {"startup", "preapply", "apply"}
  /\ index \in 0..Len(Files)
  /\ result \in {"None"} \cup Finished
  /\ edited \subseteq Paths
  /\ faults \in 0..MaxFaults /\ edits \in 0..MaxEdits

\* What the journal says of an apply is true of the worktree, whatever crashed,
\* tore or drifted on the way: one recorded as applied left every path as the
\* patch says, one recorded as rolled back left no trace of the patch and no
\* edit that was there when the snapshot was compared; edits made after the
\* tree was read back do not count (materialize_patch_artifact, rollback).
JournalIsTrue ==
  /\ row = "Applied" => \A p \in Paths \ edited : tree[p] = PatchedTree[p]
  /\ row = "RolledBack" => \A p \in Paths \ edited : tree[p] = BaseTree[p]

\* The file-by-file apply with its crashes and recoveries implements the
\* atomic one.
Atomic ==
  INSTANCE AtomicApply WITH
    ledger <- row,
    view <- IF row \in {"Applying", "RollbackFailed", "RecoveryConflict"}
              THEN InDoubt
              ELSE [p \in Paths \ edited |-> tree[p]]
AppliesAtomically == Atomic!Spec

\* Recovery settles every pending apply: once no more faults happen, a
\* recovery pass, at startup or before the next apply, ends the doubt.
RecoverySettles ==
  (faults = MaxFaults /\ pc = "recover") ~> (row # "Applying")

\* An apply that meets drift leaves the drifted file alone: "active source
\* drift during apply -> `409`, no merge and no write" (docs/ARCHITECTURE.md).
RollbackKeepsUserEdits ==
  [][\A p \in Paths : Rollback /\ tree[p] = "user" => tree'[p] = "user"]_applyVars

=============================================================================
