----------------------------- MODULE ChangeStore ----------------------------
(***************************************************************************)
(* The records of one verified change and the lifecycle that may be bound  *)
(* to it: crates/needle-runtime/src/store/changes.rs, with the calls it    *)
(* makes into store/lifecycles.rs.                                         *)
(*                                                                         *)
(* The tables are change_requests (one row), patch_artifacts,              *)
(* verification_artifacts, change_applies and change_lifecycles.  Patchers,*)
(* verifiers, MCP sessions, kernels and the control plane are separate     *)
(* processes on the same database; each call is one SQLite transaction, in *)
(* any order and with any arguments, and a call whose checks fail changes  *)
(* nothing.  The lifecycle journal is the subject of LifecycleStore and is *)
(* left out here.                                                          *)
(***************************************************************************)
EXTENDS LifecycleMachine, FiniteSets

CONSTANTS
  Times            \* bound: values of created_unix_ms

\* Digests and timestamps are compared by the ORDER BY clauses.
ASSUME OrderAssumption ==
  /\ VerificationIds \subseteq Nat
  /\ Times \subseteq Nat

VARIABLES
  change,          \* the row of change_requests, None before the request
  patches,         \* patch_artifacts: patch ids by revision
  verifs,          \* verification_artifacts
  applies,         \* change_applies: apply id -> row, None if absent
  lc               \* change_lifecycles: the bound lifecycle, or None

vars == <<change, patches, verifs, applies, lc>>

ChangeStates ==
  {"requested", "prepared", "repairing", "failed", "applying", "applied",
   "verified", "rejected", "repairable", "inconclusive"}
ChangeRows ==
  [state : ChangeStates, revision : 0..2, attempted : BOOLEAN]
VerificationRows ==
  [id : VerificationIds, patch : PatchIds, verdict : VerificationVerdicts,
   at : Times]
ApplyRows ==
  [patch : PatchIds, status : {"Applying"} \cup FinishedApply]

\* None is no row.
ASSUME NoneIsNoRow == None \notin ChangeRows \cup VerificationRows \cup ApplyRows

\* The snake_case name of a verdict, which is also a change state.
VerdictState(verdict) ==
  CASE verdict = "Verified" -> "verified"
    [] verdict = "Rejected" -> "rejected"
    [] verdict = "Repairable" -> "repairable"
    [] verdict = "Inconclusive" -> "inconclusive"

Init ==
  /\ change = None
  /\ patches = <<>>
  /\ verifs = {}
  /\ applies = [id \in ApplyIds |-> None]
  /\ lc = None

-----------------------------------------------------------------------------
(* Reads *)

\* The patch joined on latest_patch_revision.
LatestPatch == patches[change.revision]

\* ORDER BY created_unix_ms DESC, verification_id LIMIT 1
IsLatest(v, rows) ==
  /\ v \in rows
  /\ \A w \in rows : w.at < v.at \/ (w.at = v.at /\ v.id <= w.id)

VerificationsOf(patch) == {v \in verifs : v.patch = patch}

Bound == lc # None

\* Fault: the phase of the lifecycle is not consulted.
AnyPhase(phase) == TRUE

\* require_lifecycle_worker_phase, with the profile frozen for the phase.
WorkerPhaseOpen(phase) == Bound => lc.phase = phase /\ lc.status = "Active"

\* persist_transition on the projection of this transaction.
Persist(t) == Accepted(lc, t) /\ lc' = Transition(lc, t)

-----------------------------------------------------------------------------
(* Transactions of changes.rs *)

\* record_change_request_with_provenance; the same request again is a no-op.
RecordChangeRequest ==
  /\ change = None
  /\ change' = [state |-> "requested", revision |-> 0, attempted |-> FALSE]
  /\ UNCHANGED <<patches, verifs, applies, lc>>

\* Fault: a repairable change takes a second revision without a repair.
PrepareWithoutRepair(revision) ==
  \/ change = None /\ revision = 1
  \/ /\ change # None
     /\ \/ change.state = "requested" /\ revision = 1
        \/ change.state \in {"repairing", "repairable"} /\ revision = 2

\* record_prepared_change_with_provenance
MayPrepare(revision) ==
  \/ change = None /\ revision = 1
  \/ /\ change # None
     /\ \/ /\ change.revision = 0 /\ ~change.attempted
           /\ change.state = "requested" /\ revision = 1
        \/ /\ change.revision = 1 /\ change.attempted
           /\ change.state = "repairing" /\ revision = 2

RecordPreparedChange(patch, revision) ==
  /\ WorkerPhaseOpen("Implement")
  /\ MayPrepare(revision)
  /\ \A r \in 1..Len(patches) : patches[r] # patch    \* PRIMARY KEY
  /\ change' = [state |-> "prepared", revision |-> revision,
                attempted |-> change # None /\ change.attempted]
  /\ patches' = Append(patches, patch)
  /\ UNCHANGED <<verifs, applies, lc>>

\* record_change_failure, whatever state the change is in.
RecordChangeFailure ==
  /\ change # None
  /\ change' = [change EXCEPT !.state = "failed"]
  /\ IF Bound
       THEN /\ lc.status = "Active" /\ lc.phase \in {"Explore", "Implement"}
            /\ Persist([kind |-> "Fail"])
       ELSE UNCHANGED lc
  /\ UNCHANGED <<patches, verifs, applies>>

\* begin_change_repair
RepairAllowed ==
  change.state = "repairable" /\ change.revision = 1 /\ ~change.attempted

\* The repairable verification must be the latest one and, with a lifecycle,
\* the one whose repair the lifecycle has reserved.
RepairRequestedBy(v) ==
  /\ IsLatest(v, VerificationsOf(LatestPatch))
  /\ v.verdict = "Repairable"
  /\ Bound =>
       /\ lc.patch # None /\ lc.patch.id = LatestPatch
       /\ lc.verification # None /\ lc.verification.id = v.id
       /\ Accepted(lc, [kind |-> "ConsumeRepair"])

CanBeginRepair ==
  /\ change # None
  /\ RepairAllowed
  /\ \E v \in verifs : RepairRequestedBy(v)

BeginChangeRepair ==
  /\ CanBeginRepair
  /\ change' = [change EXCEPT !.state = "repairing", !.attempted = TRUE]
  /\ IF Bound THEN Persist([kind |-> "ConsumeRepair"]) ELSE UNCHANGED lc
  /\ UNCHANGED <<patches, verifs, applies>>

\* record_verification_artifact_with_provenance: the verdict becomes the
\* state of the change, whatever that was.
RecordVerificationArtifact(v) ==
  /\ change # None /\ change.revision > 0
  /\ v.patch = LatestPatch
  /\ WorkerPhaseOpen("Verify")
  /\ \A w \in verifs : w.id # v.id                    \* PRIMARY KEY
  /\ verifs' = verifs \cup {v}
  /\ change' = [change EXCEPT !.state = VerdictState(v.verdict)]
  /\ UNCHANGED <<patches, applies, lc>>

\* begin_change_apply_with_lifecycle.  The expected change digest is that of
\* the current record, or the call is refused; knowsLifecycle says that the
\* caller passes the current lifecycle digest.
NoLiveApply ==
  \A id \in ApplyIds :
    applies[id] # None => applies[id].status \notin {"Applying", "Applied"}

\* Fault: a caller without a lifecycle digest gets past the lifecycle.
BypassLifecycle(id, verification, knowsLifecycle) ==
  IF knowsLifecycle
    THEN Bound /\ Persist([kind |-> "StartApply", apply_id |-> id])
    ELSE UNCHANGED lc

\* begin_lifecycle_apply
BeginLifecycleApply(id, verification, knowsLifecycle) ==
  /\ Bound <=> knowsLifecycle
  /\ IF Bound
       THEN /\ lc.patch # None /\ lc.patch.id = LatestPatch
            /\ lc.verification # None /\ lc.verification.id = verification
            /\ Persist([kind |-> "StartApply", apply_id |-> id])
       ELSE UNCHANGED lc

\* Only the latest verification of the latest patch counts.
AuthorisesApply(v) ==
  IsLatest(v, VerificationsOf(LatestPatch)) /\ v.verdict = "Verified"

BeginChangeApply(id, knowsLifecycle) ==
  /\ applies[id] = None
  /\ change # None /\ change.revision > 0
  /\ change.state = "verified"
  /\ NoLiveApply
  /\ \E v \in verifs :
       /\ AuthorisesApply(v)
       /\ BeginLifecycleApply(id, v.id, knowsLifecycle)
  /\ applies' = [applies EXCEPT ![id] = [patch |-> LatestPatch,
                                         status |-> "Applying"]]
  /\ change' = [change EXCEPT !.state = "applying"]
  /\ UNCHANGED <<patches, verifs>>

FinishedState(status) ==
  CASE status = "Applied" -> "applied"
    [] status = "RolledBack" -> "verified"
    [] status \in {"RollbackFailed", "RecoveryConflict"} -> "failed"

\* finish_change_apply, by the process that applied or by recovery.
FinishChangeApply(id, status) ==
  /\ applies[id] # None /\ applies[id].status = "Applying"
  /\ applies' = [applies EXCEPT ![id].status = status]
  /\ change' = [change EXCEPT !.state = FinishedState(status)]
  /\ IF Bound
       THEN Persist([kind |-> "FinishApply", apply_id |-> id, status |-> status])
       ELSE UNCHANGED lc
  /\ UNCHANGED <<patches, verifs>>

-----------------------------------------------------------------------------
(* Transactions of lifecycles.rs *)

\* create_lifecycle: only before implementation.
CreateLifecycle ==
  /\ lc = None
  /\ change # None
  /\ change = [state |-> "requested", revision |-> 0, attempted |-> FALSE]
  /\ lc' = NewLifecycle
  /\ UNCHANGED <<change, patches, verifs, applies>>

\* Fault: any stored patch of the revision will do.
AnyPatchStored(t) ==
  t.kind = "CompleteVerify" =>
    \E v \in verifs :
      t.verification = [id |-> v.id, patch |-> v.patch, verdict |-> v.verdict]

\* validate_transition_artifacts, for the kinds whose evidence is kept here.
ArtifactsStored(t) ==
  /\ t.kind = "CompleteImplement" =>
       /\ change.revision > 0
       /\ t.patch = [id |-> LatestPatch, revision |-> change.revision]
  /\ t.kind = "CompleteVerify" =>
       \E v \in verifs :
         t.verification = [id |-> v.id, patch |-> v.patch, verdict |-> v.verdict]

Worker(phase) ==
  [depth |-> 1, spawns |-> 1, profile |-> FrozenProfile[phase], turns |-> 1]

\* The parent transitions a caller may ask for.
ParentTransitions ==
  [kind : {"CompleteExplore"}, worker : {Worker("Explore")}, artifacts : {<<1>>}]
    \cup
  [kind : {"CompleteImplement"}, worker : {Worker("Implement")}, patch : PatchRefs]
    \cup
  [kind : {"CompleteTest"}, worker : {Worker("Test")},
   results : [1..TestPlanCount -> TestOutcomes]]
    \cup
  [kind : {"CompleteReview"}, worker : {Worker("Review")}, review : Reviews]
    \cup
  [kind : {"CompleteVerify"}, worker : {Worker("Verify")},
   verification : Verifications]
    \cup
  [kind : {"Cancel", "Fail"}]

\* parent_transition_lifecycle with the current digest.
ParentTransitionLifecycle ==
  /\ Bound
  /\ \E t \in ParentTransitions : ArtifactsStored(t) /\ Persist(t)
  /\ UNCHANGED <<change, patches, verifs, applies>>

\* approve_lifecycle_apply with the current digest.
ApproveLifecycleApply ==
  /\ Bound
  /\ lc.phase = "Apply" /\ lc.status = "AwaitingApproval"
  /\ Persist([kind |-> "ApproveApply",
              approval |-> [digest |-> StateDigest(lc), patch |-> lc.patch.id,
                            verification |-> lc.verification.id]])
  /\ UNCHANGED <<change, patches, verifs, applies>>

Next ==
  \/ RecordChangeRequest
  \/ \E patch \in PatchIds, revision \in 1..2 :
       RecordPreparedChange(patch, revision)
  \/ RecordChangeFailure
  \/ BeginChangeRepair
  \/ \E v \in VerificationRows : RecordVerificationArtifact(v)
  \/ \E id \in ApplyIds, knows \in BOOLEAN : BeginChangeApply(id, knows)
  \/ \E id \in ApplyIds, status \in FinishedApply : FinishChangeApply(id, status)
  \/ CreateLifecycle
  \/ ParentTransitionLifecycle
  \/ ApproveLifecycleApply

Spec == Init /\ [][Next]_vars

-----------------------------------------------------------------------------
(* Properties *)

\* The tables hold well-formed rows.
TypeOK ==
  /\ change \in ChangeRows \cup {None}
  /\ patches \in Seq(PatchIds)
  /\ verifs \subseteq VerificationRows
  /\ applies \in [ApplyIds -> ApplyRows \cup {None}]
  /\ lc \in LifecycleState \cup {None}

\* One repair per change, after a repairable verdict on the first revision:
\* however late verdicts, failures and applies rewrite the state, there is
\* never a third revision, nor a second one that no verdict asked for.
RepairOnce ==
  change # None =>
    /\ Len(patches) = change.revision
    /\ change.revision = 2 => change.attempted
    /\ change.attempted =>
         \E v \in verifs : v.patch = patches[1] /\ v.verdict = "Repairable"

Live(id) == applies[id] # None /\ applies[id].status \in {"Applying", "Applied"}

\* A change is never applied twice, nor while another apply of it is open.
OneLiveApply == \A i, j \in ApplyIds : Live(i) /\ Live(j) => i = j

\* No apply is journalled for a patch that no verifier accepted.
AppliedWasVerified ==
  \A id \in ApplyIds : applies[id] # None =>
    \E v \in verifs : v.patch = applies[id].patch /\ v.verdict = "Verified"

\* A change that has a lifecycle is applied only with the user's approval of
\* the very patch and verification.
BoundApplyApproved ==
  Bound =>
    \A id \in ApplyIds : applies[id] # None =>
      /\ lc.apply_id = id
      /\ lc.approval # None
      /\ lc.approval.patch = applies[id].patch
      /\ lc.approval.digest.status = "AwaitingApproval"

\* begin_change_apply_with_lifecycle and finish_change_apply: every apply in the
\* journal was licensed, and at most one of them is open or done, although late
\* verdicts and failures overwrite 'applying' and 'applied', and although there
\* is an entry point that passes no lifecycle digest.
AppliesAreLicensed == OneLiveApply /\ AppliedWasVerified /\ BoundApplyApproved

\* The lifecycle and the change it is bound to tell the same story.
BoundAgreement ==
  Bound =>
    /\ lc.repair_consumed <=> change.attempted
    /\ lc.patch # None =>
         /\ change.revision > 0
         /\ lc.patch = [id |-> LatestPatch, revision |-> change.revision]
    /\ lc.verification # None =>
         \E v \in verifs : lc.verification =
           [id |-> v.id, patch |-> v.patch, verdict |-> v.verdict]
    /\ lc.status = "Applying" <=> change.state = "applying"
    /\ lc.outcome = "Applied" <=> change.state = "applied"
    /\ change.state = "failed" => lc.status = "Failed"

\* A bound change that failed stays failed: the late verdict that revives an
\* unbound change is refused.
BoundFailureIsFinal ==
  [][Bound /\ change.state = "failed" => change' = change]_vars

=============================================================================
