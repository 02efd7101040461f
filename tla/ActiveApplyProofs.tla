-------------------------- MODULE ActiveApplyProofs -------------------------
(***************************************************************************)
(* Theorems about ActiveApply, for patches of any number of files and any  *)
(* number of crashes, failed operations and edits: the journal is true, and*)
(* the file-by-file apply implements AtomicApply.                          *)
(***************************************************************************)
EXTENDS ActiveApply, TLAPS

-----------------------------------------------------------------------------
(* The inductive invariant *)

\* The files of the patch are touched only under a journal entry.
WritesAreJournalled ==
  /\ pc \in {"revalidate", "write", "inspect", "rollback", "restored", "finish"} =>
       row = "Applying"
  /\ pc \in {"write", "rollback"} => index \in 1..Len(Files)
  /\ pc = "finish" => result \in Finished
  /\ state = "verified" => row \in {"None", "RolledBack"}

\* From the check of the worktree on, nobody but the user touches a path that
\* is not the patch's.
OthersKept ==
  pc \in {"validate", "begin", "revalidate", "write", "inspect"} =>
    \A p \in OtherPaths \ edited : tree[p] = "before"

\* What the journal says, or is about to say, of the unedited paths.
VerdictIsTrue ==
  /\ row \in {"None", "RolledBack"} \/ (pc = "finish" /\ result = "RolledBack") =>
       \A p \in Paths \ edited : tree[p] = BaseTree[p]
  /\ row = "Applied" \/ (pc = "finish" /\ result = "Applied") =>
       \A p \in Paths \ edited : tree[p] = PatchedTree[p]

ApplyInv == ApplyTypeOK /\ WritesAreJournalled /\ OthersKept /\ VerdictIsTrue

-----------------------------------------------------------------------------
(* Facts about the trees *)

\* The base and the patched tree are worktrees that agree on the other paths,
\* and every position of the patch names one of its paths.
LEMMA TreeFacts ==
  /\ BaseTree \in [Paths -> Contents] /\ PatchedTree \in [Paths -> Contents]
  /\ \A p \in OtherPaths : BaseTree[p] = "before" /\ PatchedTree[p] = "before"
  /\ \A i \in 1..Len(Files) :
       Files[i] \in PatchPaths /\ Files[i] \in Paths /\ Files[i] \notin OtherPaths
  /\ Len(Files) \in Nat /\ Len(Files) >= 1
<1>1. BaseTree \in [Paths -> Contents] /\ PatchedTree \in [Paths -> Contents]
  BY DEF BaseTree, PatchedTree, Contents
<1>2. \A p \in OtherPaths : BaseTree[p] = "before" /\ PatchedTree[p] = "before"
  BY PatchAssumption DEF BaseTree, PatchedTree, Changes, Paths
<1>3. Files \in Seq(PatchPaths) /\ Files # <<>>
  BY PatchAssumption
<1>4. \A i \in 1..Len(Files) : Files[i] \in PatchPaths
  BY <1>3
<1>5. Len(Files) \in Nat /\ Len(Files) >= 1
  BY <1>3
<1> QED BY <1>1, <1>2, <1>4, <1>5, PatchAssumption DEF Paths

-----------------------------------------------------------------------------
(* The invariant is inductive *)

\* A verified change and the base tree.
LEMMA ApplyInvInit == ApplyInit => ApplyInv
<1> SUFFICES ASSUME ApplyInit PROVE ApplyInv
  OBVIOUS
<1>1. 0 \in 0..Len(Files) /\ 0 \in 0..MaxFaults /\ 0 \in 0..MaxEdits
  BY TreeFacts, PatchAssumption
<1>2. tree \in [Paths -> Contents] /\ edited \subseteq Paths
  BY TreeFacts DEF ApplyInit
<1>3. ApplyTypeOK
  BY <1>1, <1>2 DEF ApplyInit, ApplyTypeOK
<1>4. \A p \in Paths : tree[p] = BaseTree[p]
  BY DEF ApplyInit
<1> QED
  BY <1>3, <1>4 DEF ApplyInit, ApplyInv, WritesAreJournalled, OthersKept, VerdictIsTrue

\* Starting the server, a request, and the reads of recovery.
LEMMA EntryStep ==
  ASSUME ApplyInv,
         StartServer \/ RequestApply \/ RecoverDone \/ RecoverConflict \/ RecoverRollback
  PROVE  ApplyInv'
<1>1. UNCHANGED <<tree, row, state, superseded, edited, faults, edits>>
  BY DEF StartServer, RequestApply, RecoverDone, RecoverConflict, RecoverRollback,
         applyRows, counters
<1>2. ApplyTypeOK'
  BY <1>1, TreeFacts DEF ApplyInv, ApplyTypeOK, StartServer, RequestApply, RecoverDone,
         RecoverConflict, RecoverRollback, Finished
<1>3. WritesAreJournalled'
  BY <1>1, TreeFacts DEF ApplyInv, WritesAreJournalled, StartServer, RequestApply,
         RecoverDone, RecoverConflict, RecoverRollback, Finished
<1>4. pc' \notin {"validate", "begin", "revalidate", "write", "inspect"}
  BY DEF StartServer, RequestApply, RecoverDone, RecoverConflict, RecoverRollback
<1>5. pc' = "finish" => result' = "RecoveryConflict"
  BY DEF StartServer, RequestApply, RecoverDone, RecoverConflict, RecoverRollback
<1>6. VerdictIsTrue'
  BY <1>1, <1>5 DEF ApplyInv, VerdictIsTrue
<1> QED BY <1>2, <1>3, <1>4, <1>6 DEF ApplyInv, OthersKept

\* The checks before the journal entry, and the entry.
LEMMA CheckStep ==
  ASSUME ApplyInv, Check \/ ValidateBase \/ Begin
  PROVE  ApplyInv'
<1>1. UNCHANGED <<tree, superseded, index, result, faults, edits>>
  BY DEF Check, ValidateBase, Begin, applyRows, counters
<1>2. ApplyTypeOK'
  BY <1>1 DEF ApplyInv, ApplyTypeOK, Check, ValidateBase, Begin, applyRows
<1>3. WritesAreJournalled'
  BY <1>1 DEF ApplyInv, WritesAreJournalled, Check, ValidateBase, Begin, applyRows
<1>4. OthersKept'
  <2>1. CASE Check
    BY <1>1, <2>1, TreeFacts DEF OthersKept, Check
  <2>2. CASE ValidateBase \/ Begin
    BY <1>1, <2>2 DEF ApplyInv, OthersKept, ValidateBase, Begin
  <2> QED BY <2>1, <2>2
<1>5. VerdictIsTrue'
  <2>1. pc' # "finish"
    BY DEF Check, ValidateBase, Begin
  <2>2. CASE Check
    <3>1. edited' = edited \/ (tree = BaseTree /\ state = "verified" /\ edited' = {})
      BY <2>2 DEF Check
    <3>2. row' = row
      BY <2>2 DEF Check, applyRows
    <3> QED BY <1>1, <2>1, <3>1, <3>2 DEF ApplyInv, VerdictIsTrue, WritesAreJournalled
  <2>3. CASE ValidateBase \/ Begin
    BY <1>1, <2>1, <2>3 DEF ApplyInv, VerdictIsTrue, ValidateBase, Begin, applyRows
  <2> QED BY <2>2, <2>3
<1> QED BY <1>2, <1>3, <1>4, <1>5 DEF ApplyInv

\* materialize_patch_artifact: only paths of the patch are written, and what
\* is about to be recorded as applied was read back.
LEMMA MaterializeStep ==
  ASSUME ApplyInv, Revalidate \/ Write \/ Inspect
  PROVE  ApplyInv'
<1>1. /\ UNCHANGED <<row, state, superseded, task, faults, edits>>
      /\ row = "Applying" /\ ApplyTypeOK
  BY DEF Revalidate, Write, Inspect, applyRows, counters, ApplyInv, WritesAreJournalled
<1>2. CASE Revalidate
  <2>1. UNCHANGED <<tree, result, edited>>
    BY <1>2 DEF Revalidate
  <2>2. ApplyTypeOK' /\ WritesAreJournalled'
    BY <1>1, <1>2, <2>1, TreeFacts
       DEF ApplyInv, ApplyTypeOK, WritesAreJournalled, Revalidate, GiveUp
  <2>3. OthersKept' /\ VerdictIsTrue'
    BY <1>1, <1>2, <2>1
       DEF ApplyInv, OthersKept, VerdictIsTrue, Revalidate, GiveUp
  <2> QED BY <2>2, <2>3 DEF ApplyInv
<1>3. CASE Write
  <2>1. index \in 1..Len(Files) /\ UNCHANGED <<result, edited>> /\ pc = "write"
    BY <1>3 DEF ApplyInv, WritesAreJournalled, Write
  <2>2. \/ UNCHANGED tree
        \/ tree' = [tree EXCEPT ![Files[index]] = PatchedTree[Files[index]]]
    BY <1>3 DEF Write
  <2>3. /\ tree' \in [Paths -> Contents]
        /\ \A p \in OtherPaths : tree'[p] = tree[p]
    BY <1>1, <2>1, <2>2, TreeFacts DEF ApplyTypeOK, Paths
  <2>4. /\ pc' \in {"write", "inspect", "rollback"} /\ index' \in 1..Len(Files)
    BY <1>3, <2>1, TreeFacts DEF Write, GiveUp
  <2>5. ApplyTypeOK' /\ WritesAreJournalled'
    BY <1>1, <2>1, <2>3, <2>4 DEF ApplyInv, ApplyTypeOK, WritesAreJournalled
  <2>6. OthersKept' /\ VerdictIsTrue'
    BY <1>1, <2>1, <2>3, <2>4 DEF ApplyInv, OthersKept, VerdictIsTrue
  <2> QED BY <2>5, <2>6 DEF ApplyInv
<1>4. CASE Inspect
  <2>1. UNCHANGED tree /\ pc = "inspect"
    BY <1>4 DEF Inspect
  <2>2. ApplyTypeOK' /\ WritesAreJournalled'
    BY <1>1, <1>4, <2>1, TreeFacts
       DEF ApplyInv, ApplyTypeOK, WritesAreJournalled, Inspect, GiveUp, Finished
  <2>3. OthersKept'
    BY <1>4 DEF OthersKept, Inspect, GiveUp
  <2>4. pc' = "finish" =>
          /\ result' = "Applied" /\ \A p \in PatchPaths : tree[p] = PatchedTree[p]
          /\ edited' = edited \ PatchPaths
    BY <1>4 DEF Inspect, GiveUp
  <2>5. \A p \in OtherPaths \ edited : tree[p] = PatchedTree[p]
    BY <2>1, TreeFacts DEF ApplyInv, OthersKept
  <2>6. VerdictIsTrue'
    BY <1>1, <2>1, <2>4, <2>5 DEF VerdictIsTrue, Paths
  <2> QED BY <2>2, <2>3, <2>6 DEF ApplyInv
<1> QED BY <1>2, <1>3, <1>4

\* rollback_patch_and_verify: the snapshot decides what is recorded.
LEMMA RollbackStep ==
  ASSUME ApplyInv, Rollback \/ Restored
  PROVE  ApplyInv'
<1>1. /\ UNCHANGED <<row, state, superseded, task, faults, edits>>
      /\ row = "Applying" /\ ApplyTypeOK
  BY DEF Rollback, Restored, applyRows, counters, ApplyInv, WritesAreJournalled
<1>2. CASE Rollback
  <2>1. index \in 1..Len(Files) /\ UNCHANGED <<result, edited>>
    BY <1>2 DEF ApplyInv, WritesAreJournalled, Rollback
  <2>2. tree' \in [Paths -> Contents]
    BY <1>1, <1>2, <2>1, TreeFacts DEF ApplyTypeOK, Rollback
  <2>3. pc' \in {"restored", "rollback"} /\ index' \in 1..Len(Files)
    BY <1>2, <2>1, TreeFacts DEF Rollback
  <2>4. ApplyTypeOK' /\ WritesAreJournalled'
    BY <1>1, <2>1, <2>2, <2>3 DEF ApplyInv, ApplyTypeOK, WritesAreJournalled
  <2>5. OthersKept' /\ VerdictIsTrue'
    BY <1>1, <2>3 DEF OthersKept, VerdictIsTrue
  <2> QED BY <2>4, <2>5 DEF ApplyInv
<1>3. CASE Restored
  <2>1. ApplyTypeOK' /\ WritesAreJournalled'
    BY <1>1, <1>3 DEF ApplyInv, ApplyTypeOK, WritesAreJournalled, Restored, Finished
  <2>2. OthersKept' /\ VerdictIsTrue'
    BY <1>1, <1>3 DEF OthersKept, VerdictIsTrue, Restored
  <2> QED BY <2>1, <2>2 DEF ApplyInv
<1> QED BY <1>2, <1>3

\* finish_change_apply records what was found.
LEMMA FinishStep ==
  ASSUME ApplyInv, Finish
  PROVE  ApplyInv'
<1>1. /\ UNCHANGED <<tree, superseded, task, index, result, edited, faults, edits>>
      /\ row = "Applying" /\ row' = result /\ result \in Finished /\ pc = "finish"
      /\ pc' \in {"recover", "down", "idle"}
      /\ state' \in {"applied", "verified", "failed"}
      /\ state' = "verified" <=> result = "RolledBack"
  BY DEF Finish, counters, ApplyInv, WritesAreJournalled, Return
<1>2. ApplyTypeOK' /\ WritesAreJournalled'
  BY <1>1 DEF ApplyInv, ApplyTypeOK, WritesAreJournalled, Finished
<1>3. OthersKept' /\ VerdictIsTrue'
  BY <1>1 DEF ApplyInv, OthersKept, VerdictIsTrue, Finished
<1> QED BY <1>2, <1>3 DEF ApplyInv

\* A crash or a failed operation, with whatever it leaves of a file.
LEMMA FaultStep ==
  ASSUME ApplyInv, Crash \/ MaterializeFault \/ RollbackFault \/ StoreFault
  PROVE  ApplyInv'
<1>1. /\ UNCHANGED <<row, state, superseded, task, edited, edits>> /\ ApplyTypeOK
      /\ faults' \in 0..MaxFaults
      /\ pc' \in {"down", "idle", "rollback", "finish"}
  BY PatchAssumption
     DEF Crash, MaterializeFault, RollbackFault, StoreFault, applyRows, ApplyInv, Fault,
         GiveUp, Return, ApplyTypeOK
<1>2. Torn => row = "Applying" /\ tree' \in [Paths -> Contents]
  <2> SUFFICES ASSUME Torn PROVE row = "Applying" /\ tree' \in [Paths -> Contents]
    OBVIOUS
  <2>1. row = "Applying" /\ index \in 1..Len(Files)
    BY DEF Torn, ApplyInv, WritesAreJournalled
  <2>2. tree[Files[index]] \in Contents /\ Files[index] \in Paths
    BY <1>1, <2>1, TreeFacts DEF ApplyTypeOK
  <2> QED BY <1>1, <2>1, <2>2 DEF Torn, ApplyTypeOK, Contents
<1>3. /\ tree' \in [Paths -> Contents]
      /\ UNCHANGED tree \/ row = "Applying"
  BY <1>1, <1>2 DEF Crash, MaterializeFault, RollbackFault, StoreFault, ApplyTypeOK
<1>4. /\ pc' = "rollback" => row = "Applying" /\ index' = Len(Files)
      /\ pc' = "finish" => row = "Applying" /\ result' = "RollbackFailed"
      /\ index' = index \/ index' = Len(Files)
      /\ result' = result \/ result' = "RollbackFailed"
  BY DEF Crash, MaterializeFault, RollbackFault, StoreFault, GiveUp, Return, ApplyInv,
         WritesAreJournalled
<1>5. ApplyTypeOK' /\ WritesAreJournalled'
  BY <1>1, <1>3, <1>4, TreeFacts DEF ApplyInv, ApplyTypeOK, WritesAreJournalled, Finished
<1>6. OthersKept' /\ VerdictIsTrue'
  BY <1>1, <1>3, <1>4 DEF ApplyInv, OthersKept, VerdictIsTrue
<1> QED BY <1>5, <1>6 DEF ApplyInv

\* The user, and a late repair.
LEMMA EnvironmentStep ==
  ASSUME ApplyInv,
         \/ \E p \in Paths, content \in {"user", "absent"} : UserEdit(p, content)
         \/ Supersede
  PROVE  ApplyInv'
<1>1. CASE \E p \in Paths, content \in {"user", "absent"} : UserEdit(p, content)
  <2>1. PICK p \in Paths, content \in {"user", "absent"} : UserEdit(p, content)
    BY <1>1
  <2>2. /\ UNCHANGED <<row, state, superseded, pc, task, index, result, faults>>
        /\ tree' = [tree EXCEPT ![p] = content] /\ edited' = edited \cup {p}
        /\ edits < MaxEdits /\ edits' = edits + 1
    BY <2>1 DEF UserEdit, applyRows
  <2>3. ApplyTypeOK'
    BY <2>2, PatchAssumption DEF ApplyInv, ApplyTypeOK, Contents
  <2>4. WritesAreJournalled'
    BY <2>2 DEF ApplyInv, WritesAreJournalled
  <2>5. \A q \in Paths \ edited' : tree'[q] = tree[q] /\ q \notin edited
    BY <2>2 DEF ApplyInv, ApplyTypeOK
  <2>6. OthersKept' /\ VerdictIsTrue'
    BY <2>2, <2>5 DEF ApplyInv, OthersKept, VerdictIsTrue, Paths
  <2> QED BY <2>3, <2>4, <2>6 DEF ApplyInv
<1>2. CASE Supersede
  <2>1. ApplyTypeOK' /\ WritesAreJournalled'
    BY <1>2 DEF ApplyInv, ApplyTypeOK, WritesAreJournalled, Supersede, counters
  <2>2. OthersKept' /\ VerdictIsTrue'
    BY <1>2 DEF ApplyInv, OthersKept, VerdictIsTrue, Supersede
  <2> QED BY <2>1, <2>2 DEF ApplyInv
<1> QED BY <1>1, <1>2

\* Every step keeps the invariant.
LEMMA ApplyInvStep == ApplyInv /\ [ApplyNext]_applyVars => ApplyInv'
<1> SUFFICES ASSUME ApplyInv, [ApplyNext]_applyVars PROVE ApplyInv'
  OBVIOUS
<1>1. CASE ApplyNext
  BY <1>1, EntryStep, CheckStep, MaterializeStep, RollbackStep, FinishStep, FaultStep,
     EnvironmentStep
     DEF ApplyNext, ServerStep
<1>2. CASE UNCHANGED applyVars
  BY <1>2 DEF applyVars, ApplyInv, ApplyTypeOK, WritesAreJournalled, OthersKept, VerdictIsTrue
<1> QED BY <1>1, <1>2

\* Every reachable state satisfies the inductive invariant.
THEOREM ApplyInvariant == ApplySpec => []ApplyInv
<1> QED BY ApplyInvInit, ApplyInvStep, PTL DEF ApplySpec

\* The worktree, the journal and the server always have the states of their
\* types (changes.rs).
THEOREM ApplyTypes == ApplySpec => []ApplyTypeOK
<1>1. ApplyInv => ApplyTypeOK
  BY DEF ApplyInv
<1> QED BY <1>1, ApplyInvariant, PTL

\* What the journal says of an apply is true of the worktree, for every patch
\* and after every mix of crashes, torn writes, failed operations and edits
\* (materialize_patch_artifact, rollback_patch_and_verify).
THEOREM JournalTells == ApplySpec => []JournalIsTrue
<1>1. ApplyInv => JournalIsTrue
  BY DEF ApplyInv, VerdictIsTrue, JournalIsTrue
<1> QED BY <1>1, ApplyInvariant, PTL

-----------------------------------------------------------------------------
(* The file-by-file apply implements the atomic one *)

Doubtful == row \in {"Applying", "RollbackFailed", "RecoveryConflict"}
Unedited == [p \in Paths \ edited |-> tree[p]]
View == IF Doubtful THEN InDoubt ELSE Unedited

\* A worktree seen through its unedited paths is not InDoubt.
LEMMA UneditedIsNoDoubt ==
  ASSUME ApplyTypeOK
  PROVE  Unedited # InDoubt
<1>1. Unedited \in [Paths \ edited -> Contents]
  BY DEF Unedited, ApplyTypeOK
<1> QED BY <1>1, InDoubtAssumption

\* A step that leaves the journal, and in doubt nothing else or otherwise the
\* worktree too, alone is not seen above.
LEMMA UnseenStep ==
  ASSUME UNCHANGED row, Doubtful \/ UNCHANGED <<tree, edited>>
  PROVE  UNCHANGED Atomic!vars
<1>1. View' = View
  BY DEF View, Doubtful, Unedited
<1> QED BY <1>1 DEF View, Doubtful, Unedited, Atomic!vars

\* Init of AtomicApply.
LEMMA AtomicInit == ApplyInit => Atomic!Init
<1> SUFFICES ASSUME ApplyInit PROVE Atomic!Init
  OBVIOUS
<1>1. ~Doubtful /\ Unedited = [p \in Paths |-> BaseTree[p]]
  BY DEF ApplyInit, Doubtful, Unedited
<1>2. [p \in Paths |-> BaseTree[p]] = BaseTree
  BY DEF BaseTree
<1> QED BY <1>1, <1>2 DEF ApplyInit, Atomic!Init, Doubtful, Unedited

\* A check that succeeds finds the base; one that fails is not seen.
LEMMA CheckObserves ==
  ASSUME ApplyInv, Check
  PROVE  Atomic!Next \/ UNCHANGED Atomic!vars
<1>1. UNCHANGED <<tree, row>>
  BY DEF Check, applyRows
<1>2. CASE edited' = edited
  BY <1>1, <1>2, UnseenStep
<1>3. CASE edited' # edited
  <2>1. state = "verified" /\ tree = BaseTree /\ edited' = {}
    BY <1>3 DEF Check
  <2>2. row \in {"None", "RolledBack"}
    BY <2>1 DEF ApplyInv, WritesAreJournalled
  <2>3. [p \in Paths \ edited' |-> tree'[p]] = BaseTree
    BY <1>1, <2>1 DEF BaseTree
  <2>4. Atomic!Observe
    BY <1>1, <2>2, <2>3 DEF Atomic!Observe
  <2> QED BY <2>4 DEF Atomic!Next
<1> QED BY <1>2, <1>3

\* The journal entry puts the worktree in doubt.
LEMMA BeginBegins ==
  ASSUME ApplyInv, Begin
  PROVE  Atomic!Next \/ UNCHANGED Atomic!vars
<1>1. UNCHANGED <<tree, edited>>
  BY DEF Begin
<1>2. CASE row' = row
  BY <1>1, <1>2, UnseenStep
<1>3. CASE row' # row
  <2>1. state = "verified" /\ row' = "Applying"
    BY <1>3 DEF Begin
  <2>2. row \in {"None", "RolledBack"}
    BY <2>1 DEF ApplyInv, WritesAreJournalled
  <2>3. Atomic!Begin
    BY <2>1, <2>2 DEF Atomic!Begin
  <2> QED BY <2>3 DEF Atomic!Next
<1> QED BY <1>2, <1>3

\* The verdict ends the doubt in the patched tree, in the base or in a
\* recorded failure.
LEMMA FinishEnds ==
  ASSUME ApplyInv, Finish
  PROVE  Atomic!Next
<1>1. row = "Applying" /\ result \in Finished
  BY DEF Finish, ApplyInv, WritesAreJournalled
<1>2. row' = result /\ UNCHANGED <<tree, edited>>
  BY DEF Finish
<1>3. Paths \ edited \in SUBSET Paths
  OBVIOUS
<1>4. CASE result = "Applied"
  <2>1. \A p \in Paths \ edited : tree[p] = PatchedTree[p]
    BY <1>4 DEF Finish, ApplyInv, VerdictIsTrue
  <2>2. [p \in Paths \ edited |-> tree[p]] = [p \in Paths \ edited |-> PatchedTree[p]]
    BY <2>1
  <2>3. [p \in Paths \ edited' |-> tree'[p]]
          = Atomic!Restrict(PatchedTree, Paths \ edited)
    BY <1>2, <2>2 DEF Atomic!Restrict
  <2>4. Atomic!Commit
    BY <1>1, <1>2, <1>3, <1>4, <2>3 DEF Atomic!Commit
  <2> QED BY <2>4 DEF Atomic!Next
<1>5. CASE result = "RolledBack"
  <2>1. \A p \in Paths \ edited : tree[p] = BaseTree[p]
    BY <1>5 DEF Finish, ApplyInv, VerdictIsTrue
  <2>2. [p \in Paths \ edited |-> tree[p]] = [p \in Paths \ edited |-> BaseTree[p]]
    BY <2>1
  <2>3. [p \in Paths \ edited' |-> tree'[p]]
          = Atomic!Restrict(BaseTree, Paths \ edited)
    BY <1>2, <2>2 DEF Atomic!Restrict
  <2>4. Atomic!Abort
    BY <1>1, <1>2, <1>3, <1>5, <2>3 DEF Atomic!Abort
  <2> QED BY <2>4 DEF Atomic!Next
<1>6. CASE result \in {"RollbackFailed", "RecoveryConflict"}
  BY <1>1, <1>2, <1>6 DEF Atomic!Fail, Atomic!Next
<1> QED BY <1>1, <1>4, <1>5, <1>6 DEF Finished

\* An edit takes its path out of the promise, unless it is in doubt.
LEMMA UserEdits ==
  ASSUME ApplyInv, NEW p \in Paths, NEW content, UserEdit(p, content)
  PROVE  Atomic!Next \/ UNCHANGED Atomic!vars
<1>1. /\ UNCHANGED row /\ edited' = edited \cup {p}
      /\ tree' = [tree EXCEPT ![p] = content]
  BY DEF UserEdit, applyRows
<1>2. CASE Doubtful
  BY <1>1, <1>2, UnseenStep
<1>3. CASE ~Doubtful
  <2>1. Unedited # InDoubt
    BY UneditedIsNoDoubt DEF ApplyInv
  <2>2. Paths \ edited' \in SUBSET DOMAIN Unedited
    BY <1>1 DEF Unedited
  <2>3. \A q \in Paths \ edited' : tree'[q] = Unedited[q]
    BY <1>1 DEF Unedited, ApplyInv, ApplyTypeOK
  <2>4. Unedited' = Atomic!Restrict(Unedited, Paths \ edited')
    BY <2>3 DEF Unedited, Atomic!Restrict
  <2>5. View = Unedited /\ View' = Unedited'
    BY <1>1, <1>3 DEF View, Doubtful
  <2>6. /\ View # InDoubt /\ UNCHANGED row
        /\ \E paths \in SUBSET DOMAIN View : View' = Atomic!Restrict(View, paths)
    BY <1>1, <2>1, <2>2, <2>4, <2>5
  <2>7. Atomic!Edit
    BY <2>6 DEF Atomic!Edit, View, Doubtful, Unedited, Atomic!Restrict
  <2> QED BY <2>7 DEF Atomic!Next
<1> QED BY <1>2, <1>3

\* Every other step is a stutter: it leaves the journal alone, and it touches
\* the worktree only while that is in doubt.
LEMMA OtherSteps ==
  ASSUME ApplyInv,
         \/ StartServer \/ RequestApply
         \/ RecoverDone \/ RecoverConflict \/ RecoverRollback
         \/ ValidateBase \/ Revalidate \/ Write \/ Inspect \/ Rollback \/ Restored
         \/ Crash \/ MaterializeFault \/ RollbackFault \/ StoreFault
         \/ Supersede
  PROVE  UNCHANGED Atomic!vars
<1>1. UNCHANGED row
  BY DEF StartServer, RequestApply, RecoverDone, RecoverConflict, RecoverRollback,
         ValidateBase, Revalidate, Write, Inspect, Rollback, Restored, Crash,
         MaterializeFault, RollbackFault, StoreFault, Supersede, applyRows
<1>2. row = "Applying" \/ UNCHANGED <<tree, edited>>
  BY DEF StartServer, RequestApply, RecoverDone, RecoverConflict, RecoverRollback,
         ValidateBase, Revalidate, Write, Inspect, Rollback, Restored, Crash,
         MaterializeFault, RollbackFault, StoreFault, Supersede, Torn, ApplyInv,
         WritesAreJournalled
<1> QED BY <1>1, <1>2, UnseenStep DEF Doubtful

\* Writing the files one by one, with its crashes, torn writes, rollbacks and
\* recoveries, implements the atomic apply of AtomicApply
\* (apply_verified_change_with_lifecycle, recover_pending_change_applies).
THEOREM ApplyIsAtomic == ApplySpec => AppliesAtomically
<1>1. ApplyInv /\ [ApplyNext]_applyVars => [Atomic!Next]_(Atomic!vars)
  <2> SUFFICES ASSUME ApplyInv, [ApplyNext]_applyVars
               PROVE  Atomic!Next \/ UNCHANGED Atomic!vars
    OBVIOUS
  <2>1. CASE ApplyNext
    BY <2>1, CheckObserves, BeginBegins, FinishEnds, UserEdits, OtherSteps
       DEF ApplyNext, ServerStep
  <2>2. CASE UNCHANGED applyVars
    BY <2>2, UnseenStep DEF applyVars
  <2> QED BY <2>1, <2>2
<1> QED BY <1>1, AtomicInit, ApplyInvariant, PTL DEF ApplySpec, AppliesAtomically, Atomic!Spec

=============================================================================
