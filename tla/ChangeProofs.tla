---------------------------- MODULE ChangeProofs ----------------------------
(***************************************************************************)
(* Theorems about verified changes, for every value of the constants: the  *)
(* transactions of ChangeStore in any order, and the processes that make   *)
(* them, any number of each: the MCP sessions of ChangeSessions (any       *)
(* calls, edits and outcomes) and the execution kernels of LifecycleKernel *)
(* (any crashes and worker turns).  The processes only ever make           *)
(* transactions of ChangeStore, so that what is proved there holds of them.*)
(***************************************************************************)
EXTENDS ChangeSessions, LifecycleKernel, LifecycleMachineProofs

-----------------------------------------------------------------------------
(* The store: the inductive invariant *)

\* Nothing refers to a change that was not requested, and every verification
\* is of a stored patch.
RowsHaveOwners ==
  /\ change = None => patches = <<>> /\ lc = None
  /\ \A v \in verifs : \E r \in 1..Len(patches) : v.patch = patches[r]

\* The bound lifecycle is one the machine can reach, and the approval it holds
\* was given to a state that awaited it.
LifecycleIsGood ==
  Bound =>
    /\ Good(lc)
    /\ lc.approval # None => lc.approval.digest.status = "AwaitingApproval"

ChangeInv ==
  /\ TypeOK
  /\ RowsHaveOwners
  /\ LifecycleIsGood
  /\ RepairOnce
  /\ AppliesAreLicensed
  /\ BoundAgreement

-----------------------------------------------------------------------------
(* What the shape of a lifecycle says *)

\* In a good lifecycle an implementation has no patch yet, an apply is named
\* only while it runs or when all is over, and it starts from an approval.
LEMMA GoodShape ==
  ASSUME NEW s \in LifecycleState, Good(s)
  PROVE  /\ ArtifactChain(s)
         /\ s.status = "Active" =>
              /\ s.outcome = None /\ ~Terminal(s)
              /\ s.approval = None /\ s.apply_id = None
              /\ s.phase = "Implement" => s.patch = None
         /\ s.apply_id # None => Terminal(s) \/ s.status = "Applying"
         /\ s.status = "Applying" => s.outcome = None
         /\ s.status = "Approved" => s.approval # None /\ s.apply_id = None
         /\ s.status = "AwaitingApproval" => s.approval = None /\ s.patch # None
         /\ Terminal(s) <=> s.outcome # None
<1>1. ArtifactChain(s) /\ (Terminal(s) <=> s.outcome # None)
  BY DEF Good, Validate
<1>2. ~Terminal(s) => ActiveShape(s)
  BY DEF Good, Validate, StatusShape
<1>3. s.status \in {"Active", "Applying", "Approved", "AwaitingApproval"} => ~Terminal(s)
  BY DEF Terminal, TerminalStatuses
<1>4. s.status = "Active" => s.approval = None /\ s.apply_id = None
  BY ActiveFacts
<1>5. ~Terminal(s) /\ s.apply_id # None => s.status = "Applying"
  BY <1>1, <1>2 DEF ActiveShape, ArtifactChain
<1>6. s.status = "AwaitingApproval" => s.approval = None /\ s.patch # None
  BY <1>1, <1>2, <1>3 DEF ActiveShape, ArtifactChain
<1>7. s.status = "Approved" => s.approval # None /\ s.apply_id = None
  BY <1>2, <1>3 DEF ActiveShape
<1>8. s.status = "Active" /\ s.phase = "Implement" => s.patch = None
  BY <1>2, <1>3 DEF ActiveShape
<1> QED BY <1>1, <1>3, <1>4, <1>5, <1>6, <1>7, <1>8

\* What the parent proposes is a transition of the machine.
LEMMA ParentsAreTransitions == ParentTransitions \subseteq Transitions
<1>1. \A phase \in WorkerPhases : Worker(phase) \in WorkerCompletions
  BY SpecAssumption DEF Worker, WorkerCompletions
<1>2. <<1>> \in Seq(Nat)
  OBVIOUS
<1>3. [1..TestPlanCount -> TestOutcomes] \subseteq Seq(TestOutcomes)
  BY SpecAssumption DEF MAX_LIFECYCLE_TEST_PLANS
<1> SUFFICES ASSUME NEW t \in ParentTransitions PROVE t \in Transitions
  OBVIOUS
<1> USE <1>1 DEF Transitions, WorkerPhases
<1>4. CASE t \in [kind : {"CompleteExplore"}, worker : {Worker("Explore")},
                  artifacts : {<<1>>}]
  BY <1>2, <1>4
<1>5. CASE t \in [kind : {"CompleteImplement"}, worker : {Worker("Implement")},
                  patch : PatchRefs]
  BY <1>5
<1>6. CASE t \in [kind : {"CompleteTest"}, worker : {Worker("Test")},
                  results : [1..TestPlanCount -> TestOutcomes]]
  BY <1>3, <1>6
<1>7. CASE t \in [kind : {"CompleteReview"}, worker : {Worker("Review")},
                  review : Reviews]
  BY <1>7
<1>8. CASE t \in [kind : {"CompleteVerify"}, worker : {Worker("Verify")},
                  verification : Verifications]
  BY <1>8
<1>9. CASE t \in [kind : {"Cancel", "Fail"}]
  BY <1>9
<1> QED BY <1>4, <1>5, <1>6, <1>7, <1>8, <1>9 DEF ParentTransitions

\* persist_transition takes a good lifecycle to a good one and writes only
\* what its transition is about.
LEMMA PersistStep ==
  ASSUME TypeOK, LifecycleIsGood, Bound, NEW t \in Transitions, Persist(t)
  PROVE  /\ lc \in LifecycleState /\ Good(lc) /\ ~Terminal(lc) /\ Guard(lc, t)
         /\ lc' \in LifecycleState /\ Good(lc') /\ Bound'
         /\ WritesOnlyItsOwn(lc, t, lc')
         /\ lc'.status = "Applying" <=> t.kind = "StartApply"
         /\ lc.status = "Applying" <=> t.kind = "FinishApply"
         /\ lc'.outcome = "Applied" <=> t.kind = "FinishApply" /\ t.status = "Applied"
<1>1. /\ lc \in LifecycleState /\ Good(lc) /\ ~Terminal(lc) /\ Guard(lc, t)
      /\ Accepted(lc, t) /\ lc' = Transition(lc, t)
  BY DEF TypeOK, LifecycleIsGood, Bound, Persist, Accepted
<1>2. lc' \in LifecycleState /\ Good(lc')
  BY <1>1, AcceptedIsGood
<1>3. WritesOnlyItsOwn(lc, t, lc')
  BY <1>1, TransitionWrites
<1> QED BY <1>1, <1>2, <1>3, TransitionApplies, NoneIsNotData DEF Bound

\* With a patch prepared, the latest one is stored.
LEMMA LatestIsStored ==
  ASSUME TypeOK, RepairOnce, change # None, change.revision > 0
  PROVE  /\ change.revision \in 1..Len(patches)
         /\ LatestPatch \in PatchIds
<1>1. change.revision \in 0..2 /\ Len(patches) = change.revision
  BY DEF TypeOK, RepairOnce, ChangeRows
<1>2. patches \in Seq(PatchIds)
  BY DEF TypeOK
<1>3. change.revision \in 1..Len(patches)
  BY <1>1
<1> QED BY <1>2, <1>3 DEF LatestPatch

-----------------------------------------------------------------------------
(* One lemma per transaction *)

\* An empty database satisfies the invariant.
LEMMA ChangeInvInit == Init => ChangeInv
  BY DEF Init, ChangeInv, TypeOK, RowsHaveOwners, LifecycleIsGood, RepairOnce,
         AppliesAreLicensed, OneLiveApply, AppliedWasVerified, BoundApplyApproved,
         BoundAgreement, Bound, Live

\* record_change_request keeps the invariant.
LEMMA RequestStep == ChangeInv /\ RecordChangeRequest => ChangeInv'
<1> SUFFICES ASSUME ChangeInv, RecordChangeRequest PROVE ChangeInv'
  OBVIOUS
<1>1. /\ change = None /\ patches = <<>> /\ lc = None
      /\ change' = [state |-> "requested", revision |-> 0, attempted |-> FALSE]
      /\ UNCHANGED <<patches, verifs, applies, lc>>
  BY DEF ChangeInv, RowsHaveOwners, RecordChangeRequest
<1>2. TypeOK'
  BY <1>1 DEF ChangeInv, TypeOK, ChangeRows, ChangeStates
<1>3. RowsHaveOwners'
  BY <1>1 DEF ChangeInv, RowsHaveOwners
<1>4. RepairOnce'
  BY <1>1 DEF RepairOnce
<1>5. AppliesAreLicensed'
  BY <1>1 DEF ChangeInv, AppliesAreLicensed, OneLiveApply, Live,
              AppliedWasVerified, BoundApplyApproved, Bound
<1> QED
  BY <1>1, <1>2, <1>3, <1>4, <1>5
     DEF ChangeInv, LifecycleIsGood, BoundAgreement, Bound

\* record_prepared_change keeps the invariant: a second revision has its
\* repair, and a bound lifecycle is at the implementation.
LEMMA PrepareStep ==
  ASSUME ChangeInv, NEW patch \in PatchIds, NEW revision \in 1..2,
         RecordPreparedChange(patch, revision)
  PROVE  ChangeInv'
<1> DEFINE attempted == change # None /\ change.attempted
<1>1. /\ change' = [state |-> "prepared", revision |-> revision,
                    attempted |-> attempted]
      /\ patches' = Append(patches, patch)
      /\ UNCHANGED <<verifs, applies, lc>>
      /\ MayPrepare(revision)
  BY DEF RecordPreparedChange
<1>2. change' \in ChangeRows /\ change' # None /\ change'.attempted = attempted
  <2>1. attempted \in BOOLEAN
    BY DEF ChangeInv, TypeOK, ChangeRows
  <2> HIDE DEF attempted
  <2> QED BY <1>1, <2>1, NoneIsNoRow DEF ChangeRows, ChangeStates
<1>3. /\ patches \in Seq(PatchIds) /\ patches' \in Seq(PatchIds)
      /\ Len(patches') = Len(patches) + 1
      /\ \A r \in 1..Len(patches) : patches'[r] = patches[r]
  BY <1>1 DEF ChangeInv, TypeOK
<1>4. Len(patches) = revision - 1
  BY <1>1 DEF ChangeInv, RowsHaveOwners, RepairOnce, MayPrepare
<1>5. TypeOK'
  BY <1>1, <1>2, <1>3 DEF ChangeInv, TypeOK
<1>6. RowsHaveOwners'
  <2>1. \A v \in verifs : \E r \in 1..Len(patches) : v.patch = patches[r]
    BY DEF ChangeInv, RowsHaveOwners
  <2>2. Len(patches) \in Nat
    BY <1>3
  <2> QED BY <1>1, <1>2, <1>3, <2>1, <2>2 DEF RowsHaveOwners
<1>7. RepairOnce'
  <2>1. Len(patches') = change'.revision
    BY <1>1, <1>3, <1>4
  <2>2. revision = 2 => change'.attempted
    <3>1. revision = 2 => attempted = TRUE
      BY <1>1 DEF MayPrepare, ChangeInv, TypeOK, ChangeRows
    <3> HIDE DEF attempted
    <3> QED BY <1>2, <3>1
  <2>3. ASSUME change'.attempted
        PROVE  \E v \in verifs' : v.patch = patches'[1] /\ v.verdict = "Repairable"
    <3>1. change # None /\ change.attempted /\ revision = 2
      BY <1>1, <1>2, <2>3 DEF MayPrepare
    <3>2. patches'[1] = patches[1]
      BY <1>3, <1>4, <3>1
    <3> QED BY <1>1, <3>1, <3>2 DEF ChangeInv, RepairOnce
  <2> QED BY <1>1, <2>1, <2>2, <2>3 DEF RepairOnce
<1>8. AppliesAreLicensed'
  BY <1>1 DEF ChangeInv, AppliesAreLicensed, OneLiveApply, Live,
              AppliedWasVerified, BoundApplyApproved, Bound
<1>9. LifecycleIsGood'
  BY <1>1 DEF ChangeInv, LifecycleIsGood, Bound
<1>10. BoundAgreement'
  <2> SUFFICES ASSUME Bound' PROVE BoundAgreement'
    BY DEF BoundAgreement
  <2>1. /\ lc \in LifecycleState /\ Good(lc)
        /\ lc.status = "Active" /\ lc.phase = "Implement" /\ Bound
    BY <1>1 DEF ChangeInv, TypeOK, LifecycleIsGood, Bound, RecordPreparedChange,
                WorkerPhaseOpen
  <2>2. lc.patch = None /\ lc.outcome = None /\ lc.verification = None
    BY <2>1, GoodShape DEF ArtifactChain
  <2>3. change # None /\ (lc.repair_consumed <=> change.attempted)
    BY <2>1 DEF ChangeInv, BoundAgreement, RowsHaveOwners, Bound
  <2>4. None # "Applied"
    BY NoneAssumption DEF TerminalOutcomes
  <2> QED BY <1>1, <2>1, <2>2, <2>3, <2>4 DEF BoundAgreement
<1> QED BY <1>5, <1>6, <1>7, <1>8, <1>9, <1>10 DEF ChangeInv

\* Whatever transition is persisted without starting an apply, an apply in the
\* journal keeps its approval: while it runs only its end is accepted.
LEMMA ApprovalKept ==
  ASSUME ChangeInv, Bound, NEW t \in Transitions, Persist(t),
         t.kind # "StartApply",
         \A id \in ApplyIds : applies'[id] # None =>
           applies[id] # None /\ applies'[id].patch = applies[id].patch
  PROVE  BoundApplyApproved' /\ LifecycleIsGood'
<1>1. /\ lc \in LifecycleState /\ Good(lc) /\ ~Terminal(lc) /\ Guard(lc, t)
      /\ lc' \in LifecycleState /\ Good(lc') /\ Bound'
      /\ WritesOnlyItsOwn(lc, t, lc')
      /\ lc.status = "Applying" <=> t.kind = "FinishApply"
  BY PersistStep DEF ChangeInv
<1>2. BoundApplyApproved'
  <2> SUFFICES ASSUME NEW id \in ApplyIds, applies'[id] # None
               PROVE  /\ lc'.apply_id = id
                      /\ lc'.approval # None
                      /\ lc'.approval.patch = applies'[id].patch
                      /\ lc'.approval.digest.status = "AwaitingApproval"
    BY DEF BoundApplyApproved
  <2>1. /\ lc.apply_id = id
        /\ lc.approval # None
        /\ lc.approval.patch = applies'[id].patch
        /\ lc.approval.digest.status = "AwaitingApproval"
    BY DEF ChangeInv, AppliesAreLicensed, BoundApplyApproved
  <2>2. lc.status = "Applying"
    BY <1>1, <2>1, GoodShape, NoneAssumption
  <2>3. lc'.apply_id = lc.apply_id /\ lc'.approval = lc.approval
    BY <1>1, <2>2 DEF WritesOnlyItsOwn
  <2> QED BY <2>1, <2>3
<1>3. lc'.approval # None => lc'.approval.digest.status = "AwaitingApproval"
  <2>1. CASE t.kind = "ApproveApply"
    BY <1>1, <2>1 DEF WritesOnlyItsOwn, Guard, CanApproveApply, StateDigest
  <2>2. CASE t.kind # "ApproveApply"
    BY <1>1, <2>2 DEF WritesOnlyItsOwn, ChangeInv, LifecycleIsGood
  <2> QED BY <2>1, <2>2
<1> QED BY <1>1, <1>2, <1>3 DEF LifecycleIsGood

\* record_change_failure keeps the invariant: a bound lifecycle fails with its
\* change.
LEMMA FailureStep == ChangeInv /\ RecordChangeFailure => ChangeInv'
<1> SUFFICES ASSUME ChangeInv, RecordChangeFailure PROVE ChangeInv'
  OBVIOUS
<1>1. /\ change # None /\ change \in ChangeRows
      /\ change' = [change EXCEPT !.state = "failed"]
      /\ UNCHANGED <<patches, verifs, applies>>
  BY DEF RecordChangeFailure, ChangeInv, TypeOK
<1>2. /\ change' \in ChangeRows /\ change' # None
      /\ change'.state = "failed" /\ change'.revision = change.revision
      /\ change'.attempted = change.attempted
  BY <1>1, NoneIsNoRow DEF ChangeRows, ChangeStates
<1>3. RowsHaveOwners' /\ RepairOnce'
  BY <1>1, <1>2 DEF ChangeInv, RowsHaveOwners, RepairOnce
<1>4. OneLiveApply' /\ AppliedWasVerified'
  BY <1>1 DEF ChangeInv, AppliesAreLicensed, OneLiveApply, Live, AppliedWasVerified
<1>5. CASE ~Bound
  <2>1. lc' = None
    BY <1>5 DEF RecordChangeFailure, Bound
  <2>2. TypeOK'
    BY <1>1, <1>2, <2>1 DEF ChangeInv, TypeOK
  <2> QED
    BY <1>3, <1>4, <2>1, <2>2
       DEF ChangeInv, AppliesAreLicensed, BoundApplyApproved, LifecycleIsGood,
           BoundAgreement, Bound
<1>6. CASE Bound
  <2> DEFINE t == [kind |-> "Fail"]
  <2>1. t \in Transitions /\ Persist(t) /\ lc.status = "Active"
    BY <1>6 DEF RecordChangeFailure, Transitions
  <2>2. /\ lc \in LifecycleState /\ Good(lc)
        /\ lc' \in LifecycleState /\ WritesOnlyItsOwn(lc, t, lc')
        /\ lc'.status # "Applying" /\ lc'.outcome # "Applied"
    BY <1>6, <2>1, PersistStep DEF ChangeInv
  <2>3. BoundApplyApproved' /\ LifecycleIsGood'
    BY <1>1, <1>6, <2>1, ApprovalKept
  <2>4. TypeOK'
    BY <1>1, <1>2, <2>2 DEF ChangeInv, TypeOK
  <2>5. lc'.status = "Failed"
    BY <2>1, <2>2 DEF Persist, Transition, ApplyTransition, FinishTerminal,
                      LifecycleState, StatesWith
  <2>6. /\ lc'.repair_consumed = lc.repair_consumed
        /\ lc'.patch = lc.patch /\ lc'.verification = lc.verification
    BY <2>2 DEF WritesOnlyItsOwn, LifecycleState, StatesWith
  <2>7. LatestPatch' = LatestPatch
    BY <1>1, <1>2 DEF LatestPatch
  <2>8. BoundAgreement'
    BY <1>1, <1>2, <1>6, <2>2, <2>5, <2>6, <2>7 DEF ChangeInv, BoundAgreement
  <2> QED
    BY <1>3, <1>4, <2>3, <2>4, <2>8 DEF ChangeInv, AppliesAreLicensed
<1> QED BY <1>5, <1>6

\* begin_change_repair keeps the invariant: the verification it found is the
\* repairable one of the first revision.
LEMMA RepairStep == ChangeInv /\ BeginChangeRepair => ChangeInv'
<1> SUFFICES ASSUME ChangeInv, BeginChangeRepair PROVE ChangeInv'
  OBVIOUS
<1>1. /\ change # None /\ change \in ChangeRows /\ change.revision = 1
      /\ change' = [change EXCEPT !.state = "repairing", !.attempted = TRUE]
      /\ UNCHANGED <<patches, verifs, applies>>
  BY DEF BeginChangeRepair, CanBeginRepair, RepairAllowed, ChangeInv, TypeOK
<1>2. /\ change' \in ChangeRows /\ change' # None
      /\ change'.state = "repairing" /\ change'.revision = change.revision
      /\ change'.attempted = TRUE
  BY <1>1, NoneIsNoRow DEF ChangeRows, ChangeStates
<1>3. PICK v \in verifs : RepairRequestedBy(v)
  BY DEF BeginChangeRepair, CanBeginRepair
<1>4. v.patch = patches[1] /\ v.verdict = "Repairable"
  BY <1>1, <1>3 DEF RepairRequestedBy, IsLatest, VerificationsOf, LatestPatch
<1>5. RowsHaveOwners' /\ RepairOnce'
  BY <1>1, <1>2, <1>3, <1>4 DEF ChangeInv, RowsHaveOwners, RepairOnce
<1>6. OneLiveApply' /\ AppliedWasVerified'
  BY <1>1 DEF ChangeInv, AppliesAreLicensed, OneLiveApply, Live, AppliedWasVerified
<1>7. CASE ~Bound
  <2>1. lc' = None
    BY <1>7 DEF BeginChangeRepair, Bound
  <2>2. TypeOK'
    BY <1>1, <1>2, <2>1 DEF ChangeInv, TypeOK
  <2> QED
    BY <1>5, <1>6, <2>1, <2>2
       DEF ChangeInv, AppliesAreLicensed, BoundApplyApproved, LifecycleIsGood,
           BoundAgreement, Bound
<1>8. CASE Bound
  <2> DEFINE t == [kind |-> "ConsumeRepair"]
  <2>1. t \in Transitions /\ Persist(t)
    BY <1>8 DEF BeginChangeRepair, Transitions
  <2>2. /\ lc \in LifecycleState /\ Good(lc)
        /\ lc' \in LifecycleState /\ WritesOnlyItsOwn(lc, t, lc')
        /\ lc'.status # "Applying" /\ lc'.outcome # "Applied"
    BY <1>8, <2>1, PersistStep DEF ChangeInv
  <2>3. BoundApplyApproved' /\ LifecycleIsGood'
    BY <1>1, <1>8, <2>1, ApprovalKept
  <2>4. TypeOK'
    BY <1>1, <1>2, <2>2 DEF ChangeInv, TypeOK
  <2>5. lc'.repair_consumed /\ lc'.patch = None /\ lc'.verification = None
    BY <2>2 DEF WritesOnlyItsOwn
  <2>6. BoundAgreement'
    BY <1>1, <1>2, <2>2, <2>5 DEF BoundAgreement
  <2> QED
    BY <1>5, <1>6, <2>3, <2>4, <2>6 DEF ChangeInv, AppliesAreLicensed
<1> QED BY <1>7, <1>8

\* A verdict names a state that is neither an apply's nor a failure.
LEMMA VerdictStates ==
  ASSUME NEW verdict \in VerificationVerdicts
  PROVE  /\ VerdictState(verdict) \in ChangeStates
         /\ VerdictState(verdict) \notin {"applying", "applied", "failed"}
  BY DEF VerdictState, VerificationVerdicts, ChangeStates

\* record_verification_artifact keeps the invariant: it rewrites the state of
\* a bound change only during the verification.
LEMMA VerificationStep ==
  ASSUME ChangeInv, NEW v \in VerificationRows, RecordVerificationArtifact(v)
  PROVE  ChangeInv'
<1>1. /\ change # None /\ change \in ChangeRows /\ change.revision > 0
      /\ v.patch = LatestPatch
      /\ verifs' = verifs \cup {v}
      /\ change' = [change EXCEPT !.state = VerdictState(v.verdict)]
      /\ UNCHANGED <<patches, applies, lc>>
  BY DEF RecordVerificationArtifact, ChangeInv, TypeOK
<1>2. v.verdict \in VerificationVerdicts
  BY DEF VerificationRows
<1>3. /\ change' \in ChangeRows /\ change' # None
      /\ change'.state \notin {"applying", "applied", "failed"}
      /\ change'.revision = change.revision
      /\ change'.attempted = change.attempted
  BY <1>1, <1>2, VerdictStates, NoneIsNoRow DEF ChangeRows
<1>4. TypeOK'
  BY <1>1, <1>3 DEF ChangeInv, TypeOK
<1>5. RowsHaveOwners'
  <2>1. change.revision \in 1..Len(patches) /\ v.patch = patches[change.revision]
    BY <1>1, LatestIsStored DEF ChangeInv, LatestPatch
  <2> QED BY <1>1, <1>3, <2>1 DEF ChangeInv, RowsHaveOwners
<1>6. RepairOnce'
  BY <1>1, <1>3 DEF ChangeInv, RepairOnce
<1>7. AppliesAreLicensed'
  <2>1. OneLiveApply'
    BY <1>1 DEF ChangeInv, AppliesAreLicensed, OneLiveApply, Live
  <2>2. AppliedWasVerified'
    BY <1>1 DEF ChangeInv, AppliesAreLicensed, AppliedWasVerified
  <2>3. BoundApplyApproved'
    BY <1>1 DEF ChangeInv, AppliesAreLicensed, BoundApplyApproved, Bound
  <2> QED BY <2>1, <2>2, <2>3 DEF AppliesAreLicensed
<1>8. LifecycleIsGood'
  BY <1>1 DEF ChangeInv, LifecycleIsGood, Bound
<1>9. BoundAgreement'
  <2> SUFFICES ASSUME Bound' PROVE BoundAgreement'
    BY DEF BoundAgreement
  <2>1. /\ lc \in LifecycleState /\ Good(lc) /\ Bound
        /\ lc.status = "Active"
    BY <1>1 DEF ChangeInv, TypeOK, LifecycleIsGood, Bound,
                RecordVerificationArtifact, WorkerPhaseOpen
  <2>2. lc.outcome = None /\ None # "Applied"
    BY <2>1, GoodShape, NoneAssumption DEF TerminalOutcomes
  <2>3. LatestPatch' = LatestPatch
    BY <1>1, <1>3 DEF LatestPatch
  <2> QED
    BY <1>1, <1>3, <2>1, <2>2, <2>3 DEF ChangeInv, BoundAgreement
<1> QED BY <1>4, <1>5, <1>6, <1>7, <1>8, <1>9 DEF ChangeInv

\* begin_change_apply keeps the invariant: no other apply is live, and with a
\* lifecycle the approval is of the latest patch.
LEMMA BeginApplyStep ==
  ASSUME ChangeInv, NEW id \in ApplyIds, NEW knows \in BOOLEAN,
         BeginChangeApply(id, knows)
  PROVE  ChangeInv'
<1>1. /\ change # None /\ change \in ChangeRows /\ change.revision > 0
      /\ applies[id] = None /\ NoLiveApply
      /\ applies' = [applies EXCEPT ![id] = [patch |-> LatestPatch,
                                             status |-> "Applying"]]
      /\ change' = [change EXCEPT !.state = "applying"]
      /\ UNCHANGED <<patches, verifs>>
  BY DEF BeginChangeApply, ChangeInv, TypeOK
<1>2. PICK v \in verifs : AuthorisesApply(v) /\ BeginLifecycleApply(id, v.id, knows)
  BY DEF BeginChangeApply
<1>3. v.patch = LatestPatch /\ v.verdict = "Verified" /\ LatestPatch \in PatchIds
  BY <1>1, <1>2, LatestIsStored
     DEF AuthorisesApply, IsLatest, VerificationsOf, ChangeInv
<1>4. /\ change' \in ChangeRows /\ change' # None
      /\ change'.state = "applying" /\ change'.revision = change.revision
      /\ change'.attempted = change.attempted
  BY <1>1, NoneIsNoRow DEF ChangeRows, ChangeStates
<1>5. /\ applies \in [ApplyIds -> ApplyRows \cup {None}]
      /\ applies' \in [ApplyIds -> ApplyRows \cup {None}]
      /\ applies'[id] = [patch |-> LatestPatch, status |-> "Applying"]
      /\ \A i \in ApplyIds \ {id} : applies'[i] = applies[i]
  BY <1>1, <1>3 DEF ChangeInv, TypeOK, ApplyRows
<1>6. RowsHaveOwners' /\ RepairOnce'
  BY <1>1, <1>4 DEF ChangeInv, RowsHaveOwners, RepairOnce
<1>7. OneLiveApply'
  BY <1>1, <1>5 DEF OneLiveApply, Live, NoLiveApply
<1>8. AppliedWasVerified'
  BY <1>1, <1>2, <1>3, <1>5 DEF ChangeInv, AppliesAreLicensed, AppliedWasVerified
<1>9. LatestPatch' = LatestPatch
  BY <1>1, <1>4 DEF LatestPatch
<1>10. CASE ~Bound
  <2>1. lc' = None
    BY <1>2, <1>10 DEF BeginLifecycleApply, Bound
  <2>2. TypeOK'
    BY <1>1, <1>4, <1>5, <2>1 DEF ChangeInv, TypeOK
  <2> QED
    BY <1>6, <1>7, <1>8, <2>1, <2>2
       DEF ChangeInv, AppliesAreLicensed, BoundApplyApproved, LifecycleIsGood,
           BoundAgreement, Bound
<1>11. CASE Bound
  <2> DEFINE t == [kind |-> "StartApply", apply_id |-> id]
  <2>1. /\ t \in Transitions /\ Persist(t) /\ lc.patch # None
        /\ lc.patch.id = LatestPatch
    BY <1>2, <1>11 DEF BeginLifecycleApply, Transitions
  <2>2. /\ lc \in LifecycleState /\ Good(lc) /\ Guard(lc, t)
        /\ lc' \in LifecycleState /\ Good(lc') /\ WritesOnlyItsOwn(lc, t, lc')
        /\ lc'.status = "Applying" /\ lc'.outcome # "Applied" /\ Bound'
    BY <1>11, <2>1, PersistStep DEF ChangeInv
  <2>3. lc.approval # None /\ lc.apply_id = None
    BY <2>2, GoodShape DEF Guard, CanStartApply
  <2>4. /\ lc'.repair_consumed = lc.repair_consumed
        /\ lc'.patch = lc.patch /\ lc'.verification = lc.verification
        /\ lc'.approval = lc.approval /\ lc'.apply_id = id
    BY <2>2 DEF WritesOnlyItsOwn, LifecycleState, StatesWith
  <2>5. lc.approval.patch = LatestPatch
    BY <2>1, <2>2, <2>3, GoodShape DEF ArtifactChain
  <2>6. lc.approval.digest.status = "AwaitingApproval"
    BY <1>11, <2>3 DEF ChangeInv, LifecycleIsGood
  <2>7. TypeOK'
    BY <1>1, <1>4, <1>5, <2>2 DEF ChangeInv, TypeOK
  <2>8. LifecycleIsGood'
    BY <2>2, <2>4, <2>6 DEF LifecycleIsGood
  <2>9. \A i \in ApplyIds \ {id} : applies'[i] = None
    <3> SUFFICES ASSUME NEW i \in ApplyIds \ {id}, applies[i] # None PROVE FALSE
      BY <1>5
    <3>1. lc.apply_id = i
      BY <1>11 DEF ChangeInv, AppliesAreLicensed, BoundApplyApproved
    <3> QED BY <2>3, <3>1, NoneAssumption
  <2>10. BoundApplyApproved'
    BY <1>5, <2>3, <2>4, <2>5, <2>6, <2>9 DEF BoundApplyApproved
  <2>11. BoundAgreement'
    BY <1>1, <1>4, <1>9, <1>11, <2>2, <2>4 DEF ChangeInv, BoundAgreement
  <2> QED
    BY <1>6, <1>7, <1>8, <2>7, <2>8, <2>10, <2>11
       DEF ChangeInv, AppliesAreLicensed
<1> QED BY <1>10, <1>11

\* An apply in the journal has its change.
LEMMA ApplyHasChange ==
  ASSUME ChangeInv, NEW id \in ApplyIds, applies[id] # None
  PROVE  change # None /\ change \in ChangeRows
<1>1. PICK v \in verifs : v.patch = applies[id].patch
  BY DEF ChangeInv, AppliesAreLicensed, AppliedWasVerified
<1>2. PICK r \in 1..Len(patches) : v.patch = patches[r]
  BY <1>1 DEF ChangeInv, RowsHaveOwners
<1>3. patches # <<>>
  BY <1>2
<1> QED BY <1>3 DEF ChangeInv, RowsHaveOwners, TypeOK

\* finish_change_apply keeps the invariant: the lifecycle must be applying
\* the same apply.
LEMMA FinishApplyTxStep ==
  ASSUME ChangeInv, NEW id \in ApplyIds, NEW status \in FinishedApply,
         FinishChangeApply(id, status)
  PROVE  ChangeInv'
<1>1. /\ applies[id] # None /\ applies[id].status = "Applying"
      /\ applies' = [applies EXCEPT ![id].status = status]
      /\ change' = [change EXCEPT !.state = FinishedState(status)]
      /\ UNCHANGED <<patches, verifs>>
  BY DEF FinishChangeApply
<1>2. /\ applies \in [ApplyIds -> ApplyRows \cup {None}]
      /\ applies' \in [ApplyIds -> ApplyRows \cup {None}]
      /\ applies'[id].patch = applies[id].patch /\ applies'[id].status = status
      /\ \A i \in ApplyIds \ {id} : applies'[i] = applies[i]
  BY <1>1 DEF ChangeInv, TypeOK, ApplyRows, FinishedApply
<1>3. change # None /\ change \in ChangeRows
  BY <1>1, ApplyHasChange
<1>4. /\ FinishedState(status) \in ChangeStates
      /\ FinishedState(status) # "applying"
      /\ FinishedState(status) = "applied" <=> status = "Applied"
      /\ FinishedState(status) = "failed" <=>
           status \in {"RollbackFailed", "RecoveryConflict"}
  BY DEF FinishedState, FinishedApply, ChangeStates
<1>5. /\ change' \in ChangeRows /\ change' # None
      /\ change'.state = FinishedState(status) /\ change'.revision = change.revision
      /\ change'.attempted = change.attempted
  BY <1>1, <1>3, <1>4, NoneIsNoRow DEF ChangeRows
<1>6. RowsHaveOwners' /\ RepairOnce'
  BY <1>1, <1>3, <1>5 DEF ChangeInv, RowsHaveOwners, RepairOnce
<1>7. OneLiveApply'
  <2>1. \A i \in ApplyIds : Live(i)' => Live(i)
    BY <1>1, <1>2 DEF Live
  <2> QED BY <2>1 DEF OneLiveApply, ChangeInv, AppliesAreLicensed
<1>8. AppliedWasVerified'
  BY <1>1, <1>2 DEF ChangeInv, AppliesAreLicensed, AppliedWasVerified
<1>9. LatestPatch' = LatestPatch
  BY <1>1, <1>5 DEF LatestPatch
<1>10. CASE ~Bound
  <2>1. lc' = None
    BY <1>10 DEF FinishChangeApply, Bound
  <2>2. TypeOK'
    BY <1>1, <1>2, <1>5, <2>1 DEF ChangeInv, TypeOK
  <2> QED
    BY <1>6, <1>7, <1>8, <2>1, <2>2
       DEF ChangeInv, AppliesAreLicensed, BoundApplyApproved, LifecycleIsGood,
           BoundAgreement, Bound
<1>11. CASE Bound
  <2> DEFINE t == [kind |-> "FinishApply", apply_id |-> id, status |-> status]
  <2>1. t \in Transitions /\ Persist(t)
    BY <1>11 DEF FinishChangeApply, Transitions
  <2>2. /\ lc \in LifecycleState /\ Good(lc)
        /\ lc' \in LifecycleState /\ WritesOnlyItsOwn(lc, t, lc')
        /\ lc'.status # "Applying"
        /\ lc'.outcome = "Applied" <=> status = "Applied"
    BY <1>11, <2>1, PersistStep DEF ChangeInv
  <2>3. BoundApplyApproved' /\ LifecycleIsGood'
    <3>1. \A i \in ApplyIds : applies'[i] # None =>
            applies[i] # None /\ applies'[i].patch = applies[i].patch
      BY <1>1, <1>2
    <3>2. t.kind # "StartApply"
      OBVIOUS
    <3> HIDE DEF t
    <3> QED BY <1>11, <2>1, <3>1, <3>2, ApprovalKept
  <2>4. TypeOK'
    BY <1>1, <1>2, <1>5, <2>2 DEF ChangeInv, TypeOK
  <2>5. /\ lc'.repair_consumed = lc.repair_consumed
        /\ lc'.patch = lc.patch /\ lc'.verification = lc.verification
    BY <2>2 DEF WritesOnlyItsOwn, LifecycleState, StatesWith
  <2>6. status \in {"RollbackFailed", "RecoveryConflict"} => lc'.status = "Failed"
    BY <2>1, <2>2 DEF Persist, Transition, ApplyTransition, FinishApply,
                      FinishTerminal, LifecycleState, StatesWith
  <2>7. BoundAgreement'
    BY <1>1, <1>4, <1>5, <1>9, <1>11, <2>2, <2>5, <2>6
       DEF ChangeInv, BoundAgreement
  <2> QED
    BY <1>6, <1>7, <1>8, <2>3, <2>4, <2>7 DEF ChangeInv, AppliesAreLicensed
<1> QED BY <1>10, <1>11

\* create_lifecycle keeps the invariant: before the implementation nothing is
\* stored that the new lifecycle could not account for.
LEMMA CreateStep == ChangeInv /\ CreateLifecycle => ChangeInv'
<1> SUFFICES ASSUME ChangeInv, CreateLifecycle PROVE ChangeInv'
  OBVIOUS
<1>1. /\ change # None
      /\ change = [state |-> "requested", revision |-> 0, attempted |-> FALSE]
      /\ lc' = NewLifecycle
      /\ UNCHANGED <<change, patches, verifs, applies>>
  BY DEF CreateLifecycle
<1>2. lc' \in LifecycleState /\ Good(lc') /\ lc' # None
  BY <1>1, NewIsGood, NoneIsNotData
<1>3. Len(patches) = 0
  BY <1>1 DEF ChangeInv, RepairOnce
<1>4. \A id \in ApplyIds : applies[id] = None
  BY <1>3 DEF ChangeInv, RowsHaveOwners, AppliesAreLicensed, AppliedWasVerified
<1>5. TypeOK'
  BY <1>1, <1>2 DEF ChangeInv, TypeOK
<1>6. RowsHaveOwners' /\ RepairOnce'
  BY <1>1 DEF ChangeInv, RowsHaveOwners, RepairOnce
<1>7. AppliesAreLicensed'
  BY <1>1, <1>4 DEF AppliesAreLicensed, OneLiveApply, Live, AppliedWasVerified,
                    BoundApplyApproved
<1>8. LifecycleIsGood'
  BY <1>1, <1>2 DEF LifecycleIsGood, NewLifecycle
<1>9. BoundAgreement'
  <2>1. None # "Applied"
    BY NoneAssumption DEF TerminalOutcomes
  <2> QED BY <1>1, <2>1 DEF BoundAgreement, NewLifecycle
<1> QED BY <1>5, <1>6, <1>7, <1>8, <1>9 DEF ChangeInv

\* A transition of the parent keeps the invariant, whatever its worker spent:
\* the artifacts it names are the stored ones.
LEMMA ParentTxStep ==
  ASSUME ChangeInv, Bound, UNCHANGED <<change, patches, verifs, applies>>,
         NEW t \in Transitions, ArtifactsStored(t), Persist(t),
         t.kind \notin {"StartApply", "FinishApply", "ApproveApply", "ConsumeRepair"}
  PROVE  ChangeInv'
<1>1. Bound /\ UNCHANGED <<change, patches, verifs, applies>>
  OBVIOUS
<1>2. ArtifactsStored(t) /\ Persist(t)
  OBVIOUS
<1>3. /\ t \in Transitions
      /\ t.kind \notin {"StartApply", "FinishApply", "ApproveApply", "ConsumeRepair"}
  OBVIOUS
<1>4. /\ lc \in LifecycleState /\ Good(lc) /\ ~Terminal(lc)
      /\ lc' \in LifecycleState /\ WritesOnlyItsOwn(lc, t, lc')
      /\ lc.status # "Applying" /\ lc'.status # "Applying"
      /\ lc'.outcome # "Applied" /\ Bound'
  BY <1>1, <1>2, <1>3, PersistStep DEF ChangeInv
<1>5. BoundApplyApproved' /\ LifecycleIsGood'
  BY <1>1, <1>2, <1>3, ApprovalKept
<1>6. TypeOK'
  BY <1>1, <1>4 DEF ChangeInv, TypeOK
<1>7. RowsHaveOwners' /\ RepairOnce'
  BY <1>1, <1>4 DEF ChangeInv, RowsHaveOwners, RepairOnce, Bound
<1>8. OneLiveApply' /\ AppliedWasVerified'
  BY <1>1 DEF ChangeInv, AppliesAreLicensed, OneLiveApply, Live, AppliedWasVerified
<1>9. LatestPatch' = LatestPatch
  BY <1>1 DEF LatestPatch
<1>10. lc'.repair_consumed <=> change.attempted
  BY <1>1, <1>3, <1>4 DEF WritesOnlyItsOwn, ChangeInv, BoundAgreement
<1>11. lc'.patch # None =>
         /\ change.revision > 0
         /\ lc'.patch = [id |-> LatestPatch, revision |-> change.revision]
  <2>1. CASE t.kind = "CompleteImplement"
    BY <1>2, <1>4, <2>1 DEF WritesOnlyItsOwn, ArtifactsStored
  <2>2. CASE t.kind # "CompleteImplement"
    BY <1>1, <1>3, <1>4, <2>2 DEF WritesOnlyItsOwn, ChangeInv, BoundAgreement
  <2> QED BY <2>1, <2>2
<1>12. lc'.verification # None =>
         \E v \in verifs : lc'.verification =
           [id |-> v.id, patch |-> v.patch, verdict |-> v.verdict]
  <2>1. CASE t.kind = "CompleteVerify"
    BY <1>2, <1>4, <2>1 DEF WritesOnlyItsOwn, ArtifactsStored
  <2>2. CASE t.kind # "CompleteVerify"
    BY <1>1, <1>3, <1>4, <2>2 DEF WritesOnlyItsOwn, ChangeInv, BoundAgreement
  <2> QED BY <2>1, <2>2
<1>13. change.state \notin {"applying", "applied", "failed"}
  <2>1. lc.outcome = None /\ None # "Applied" /\ lc.status # "Failed"
    BY <1>4, GoodShape, NoneAssumption
       DEF TerminalOutcomes, Terminal, TerminalStatuses
  <2> QED BY <1>1, <1>4, <2>1 DEF ChangeInv, BoundAgreement
<1>14. BoundAgreement'
  BY <1>1, <1>4, <1>9, <1>10, <1>11, <1>12, <1>13 DEF BoundAgreement
<1> QED
  BY <1>5, <1>6, <1>7, <1>8, <1>14 DEF ChangeInv, AppliesAreLicensed

\* parent_transition_lifecycle keeps the invariant.
LEMMA ParentStep == ChangeInv /\ ParentTransitionLifecycle => ChangeInv'
<1> SUFFICES ASSUME ChangeInv, ParentTransitionLifecycle PROVE ChangeInv'
  OBVIOUS
<1>1. Bound /\ UNCHANGED <<change, patches, verifs, applies>>
  BY DEF ParentTransitionLifecycle
<1>2. PICK t \in ParentTransitions : ArtifactsStored(t) /\ Persist(t)
  BY DEF ParentTransitionLifecycle
<1>3. /\ t \in Transitions
      /\ t.kind \notin {"StartApply", "FinishApply", "ApproveApply", "ConsumeRepair"}
  BY ParentsAreTransitions DEF ParentTransitions
<1> QED BY <1>1, <1>2, <1>3, ParentTxStep

\* approve_lifecycle_apply keeps the invariant.
LEMMA ApproveTxStep == ChangeInv /\ ApproveLifecycleApply => ChangeInv'
<1> SUFFICES ASSUME ChangeInv, ApproveLifecycleApply PROVE ChangeInv'
  OBVIOUS
<1> DEFINE approval == [digest |-> StateDigest(lc), patch |-> lc.patch.id,
                        verification |-> lc.verification.id]
           t == [kind |-> "ApproveApply", approval |-> approval]
<1>1. /\ Bound /\ UNCHANGED <<change, patches, verifs, applies>>
      /\ Persist(t) /\ lc.status = "AwaitingApproval"
  BY DEF ApproveLifecycleApply
<1>2. lc \in LifecycleState /\ Good(lc)
  BY <1>1 DEF ChangeInv, TypeOK, LifecycleIsGood, Bound
<1>3. t \in Transitions
  <2>1. lc.approval = None
    BY <1>1, <1>2, GoodShape
  <2>2. lc \in StatesWith({None})
    BY <1>2, <2>1 DEF LifecycleState, StatesWith
  <2>3. lc.patch # None /\ lc.verification # None
    BY <1>1 DEF Persist, Accepted, Guard, CanApproveApply
  <2>4. lc.patch.id \in PatchIds /\ lc.verification.id \in VerificationIds
    BY <1>2, <2>3 DEF LifecycleState, StatesWith, PatchRefs, Verifications
  <2>5. approval \in Approvals
    BY <2>2, <2>4 DEF Approvals, StateDigest
  <2> HIDE DEF approval
  <2> QED BY <2>5 DEF Transitions
<1>4. t.kind = "ApproveApply"
  OBVIOUS
<1> HIDE DEF t
<1>5. /\ ~Terminal(lc)
      /\ lc' \in LifecycleState /\ WritesOnlyItsOwn(lc, t, lc')
      /\ lc'.status # "Applying" /\ lc'.outcome # "Applied" /\ Bound'
  BY <1>1, <1>3, <1>4, PersistStep DEF ChangeInv
<1>6. BoundApplyApproved' /\ LifecycleIsGood'
  BY <1>1, <1>3, <1>4, ApprovalKept
<1>7. TypeOK'
  BY <1>1, <1>5 DEF ChangeInv, TypeOK
<1>8. RowsHaveOwners' /\ RepairOnce'
  BY <1>1, <1>5 DEF ChangeInv, RowsHaveOwners, RepairOnce, Bound
<1>9. OneLiveApply' /\ AppliedWasVerified'
  BY <1>1 DEF ChangeInv, AppliesAreLicensed, OneLiveApply, Live, AppliedWasVerified
<1>10. LatestPatch' = LatestPatch
  BY <1>1 DEF LatestPatch
<1>11. /\ lc'.repair_consumed = lc.repair_consumed
       /\ lc'.patch = lc.patch /\ lc'.verification = lc.verification
  BY <1>2, <1>4, <1>5 DEF WritesOnlyItsOwn, LifecycleState, StatesWith
<1>12. change.state \notin {"applying", "applied", "failed"}
  <2>1. lc.outcome = None /\ None # "Applied" /\ lc.status # "Failed"
    BY <1>2, <1>5, GoodShape, NoneAssumption
       DEF TerminalOutcomes, Terminal, TerminalStatuses
  <2> QED BY <1>1, <2>1 DEF ChangeInv, BoundAgreement
<1>13. BoundAgreement'
  BY <1>1, <1>5, <1>10, <1>11, <1>12 DEF ChangeInv, BoundAgreement
<1> QED
  BY <1>6, <1>7, <1>8, <1>9, <1>13 DEF ChangeInv, AppliesAreLicensed

-----------------------------------------------------------------------------
(* Theorems *)

\* Every transaction keeps the invariant.
LEMMA ChangeInvStep == ChangeInv /\ [Next]_vars => ChangeInv'
<1> SUFFICES ASSUME ChangeInv, [Next]_vars PROVE ChangeInv'
  OBVIOUS
<1>1. CASE Next
  BY <1>1, RequestStep, PrepareStep, FailureStep, RepairStep, VerificationStep,
     BeginApplyStep, FinishApplyTxStep, CreateStep, ParentStep, ApproveTxStep
     DEF Next
<1>2. CASE UNCHANGED vars
  BY <1>2 DEF vars, ChangeInv, TypeOK, RowsHaveOwners, LifecycleIsGood, RepairOnce,
              AppliesAreLicensed, OneLiveApply, Live, AppliedWasVerified,
              BoundApplyApproved, BoundAgreement, Bound, LatestPatch
<1> QED BY <1>1, <1>2

\* The records of a change satisfy the inductive invariant.
THEOREM ChangeInvariant == Spec => []ChangeInv
  BY ChangeInvInit, ChangeInvStep, PTL DEF Spec

\* The tables of changes.rs hold well-formed rows.
THEOREM ChangeTypes == Spec => []TypeOK
<1>1. ChangeInv => TypeOK
  BY DEF ChangeInv
<1> QED BY <1>1, ChangeInvariant, PTL

\* However transactions interleave, a change is repaired at most once, after a
\* repairable verdict (begin_change_repair, record_prepared_change).
THEOREM RepairedOnce == Spec => []RepairOnce
<1>1. ChangeInv => RepairOnce
  BY DEF ChangeInv
<1> QED BY <1>1, ChangeInvariant, PTL

\* Every apply in the journal was verified, approved when a lifecycle is bound,
\* and is the only live one (begin_change_apply_with_lifecycle).
THEOREM AppliesLicensed == Spec => []AppliesAreLicensed
<1>1. ChangeInv => AppliesAreLicensed
  BY DEF ChangeInv
<1> QED BY <1>1, ChangeInvariant, PTL

\* The change and its bound lifecycle never disagree (changes.rs and
\* lifecycles.rs write both in one transaction).
THEOREM LifecycleAgrees == Spec => []BoundAgreement
<1>1. ChangeInv => BoundAgreement
  BY DEF ChangeInv
<1> QED BY <1>1, ChangeInvariant, PTL

\* No transaction moves a failed change whose lifecycle is bound.
THEOREM FailureIsFinal == Spec => BoundFailureIsFinal
<1>1. ASSUME ChangeInv, Next, Bound, change.state = "failed"
      PROVE  change' = change
  <2>1. /\ lc \in LifecycleState /\ Good(lc) /\ lc.status = "Failed" /\ change # None
        /\ Terminal(lc)
    BY <1>1 DEF ChangeInv, TypeOK, LifecycleIsGood, BoundAgreement, Bound,
                RowsHaveOwners, Terminal, TerminalStatuses
  <2>2. \A t : ~Persist(t)
    BY <2>1 DEF Persist, Accepted
  <2>3. ~RecordChangeRequest /\ ~RecordChangeFailure /\ ~BeginChangeRepair
    BY <1>1, <2>1 DEF RecordChangeRequest, RecordChangeFailure, BeginChangeRepair,
                      CanBeginRepair, RepairAllowed
  <2>4. /\ \A patch, revision : ~RecordPreparedChange(patch, revision)
        /\ \A v : ~RecordVerificationArtifact(v)
    BY <1>1, <2>1 DEF RecordPreparedChange, RecordVerificationArtifact, WorkerPhaseOpen
  <2>5. \A id, knows : ~BeginChangeApply(id, knows)
    BY <1>1 DEF BeginChangeApply
  <2>6. \A id, status : ~FinishChangeApply(id, status)
    BY <1>1, <2>2 DEF FinishChangeApply
  <2> QED
    BY <1>1, <2>3, <2>4, <2>5, <2>6
       DEF Next, CreateLifecycle, ParentTransitionLifecycle, ApproveLifecycleApply
<1>2. ChangeInv /\ [Next]_vars => [Bound /\ change.state = "failed" => change' = change]_vars
  BY <1>1
<1> QED BY <1>2, ChangeInvariant, PTL DEF Spec, BoundFailureIsFinal

-----------------------------------------------------------------------------
(* What no transaction takes back *)

\* Rows are only added, the revision only grows, and the patches of a repaired
\* change are settled.
RecordsGrow ==
  /\ verifs \subseteq verifs'
  /\ change # None => change' # None /\ change'.revision >= change.revision
  /\ Len(patches) = 2 => patches' = patches

\* Every transaction only adds to the records.
LEMMA GrowStep == ChangeInv /\ [Next]_vars => RecordsGrow
<1> SUFFICES ASSUME ChangeInv, [Next]_vars PROVE RecordsGrow
  OBVIOUS
<1>1. change # None => change \in ChangeRows /\ change.revision \in 0..2
  BY DEF ChangeInv, TypeOK, ChangeRows
<1>3. ASSUME NEW state \in ChangeStates, UNCHANGED patches, verifs \subseteq verifs',
             change' = [change EXCEPT !.state = state]
      PROVE  RecordsGrow
  BY <1>1, <1>3, NoneIsNoRow DEF RecordsGrow, ChangeRows
<1>4. CASE RecordChangeRequest
  <2>1. Len(patches) = 0
    BY <1>4 DEF RecordChangeRequest, ChangeInv, RowsHaveOwners
  <2> QED BY <1>4, <2>1 DEF RecordChangeRequest, RecordsGrow
<1>5. CASE \E patch \in PatchIds, revision \in 1..2 : RecordPreparedChange(patch, revision)
  <2>1. PICK patch \in PatchIds, revision \in 1..2 : RecordPreparedChange(patch, revision)
    BY <1>5
  <2>2. Len(patches) = revision - 1 /\ (change # None => change.revision = revision - 1)
    BY <2>1 DEF RecordPreparedChange, MayPrepare, ChangeInv, RepairOnce, RowsHaveOwners
  <2> DEFINE attempted == change # None /\ change.attempted
  <2>3. attempted \in BOOLEAN
    BY <1>1 DEF ChangeRows
  <2>4. /\ change' = [state |-> "prepared", revision |-> revision, attempted |-> attempted]
        /\ verifs' = verifs
    BY <2>1 DEF RecordPreparedChange
  <2> HIDE DEF attempted
  <2>5. change' \in ChangeRows /\ change'.revision = revision
    BY <2>3, <2>4 DEF ChangeRows, ChangeStates
  <2> QED BY <2>2, <2>4, <2>5, NoneIsNoRow DEF RecordsGrow
<1>6. CASE RecordChangeFailure
  BY <1>3, <1>6 DEF RecordChangeFailure, ChangeStates
<1>7. CASE BeginChangeRepair
  <2>1. /\ change # None /\ UNCHANGED <<patches, verifs>>
        /\ change' = [change EXCEPT !.state = "repairing", !.attempted = TRUE]
    BY <1>7 DEF BeginChangeRepair, CanBeginRepair
  <2>2. change' \in ChangeRows /\ change'.revision = change.revision
    BY <1>1, <2>1 DEF ChangeRows, ChangeStates
  <2> QED BY <1>1, <2>1, <2>2, NoneIsNoRow DEF RecordsGrow
<1>8. CASE \E v \in VerificationRows : RecordVerificationArtifact(v)
  <2>1. PICK v \in VerificationRows : RecordVerificationArtifact(v)
    BY <1>8
  <2>2. VerdictState(v.verdict) \in ChangeStates
    BY VerdictStates DEF VerificationRows
  <2> QED BY <1>3, <2>1, <2>2 DEF RecordVerificationArtifact
<1>9. CASE \E id \in ApplyIds, knows \in BOOLEAN : BeginChangeApply(id, knows)
  BY <1>3, <1>9 DEF BeginChangeApply, ChangeStates
<1>10. CASE \E id \in ApplyIds, status \in FinishedApply : FinishChangeApply(id, status)
  <2>1. \A status \in FinishedApply : FinishedState(status) \in ChangeStates
    BY DEF FinishedState, FinishedApply, ChangeStates
  <2> QED BY <1>3, <1>10, <2>1 DEF FinishChangeApply
<1>11. CASE UNCHANGED <<change, patches, verifs>>
  BY <1>1, <1>11 DEF RecordsGrow
<1>12. CASE CreateLifecycle \/ ParentTransitionLifecycle \/ ApproveLifecycleApply
  BY <1>11, <1>12
     DEF CreateLifecycle, ParentTransitionLifecycle, ApproveLifecycleApply
<1> QED
  BY <1>4, <1>5, <1>6, <1>7, <1>8, <1>9, <1>10, <1>11, <1>12 DEF Next, vars

-----------------------------------------------------------------------------
(* MCP sessions: the inductive invariant *)

PatchStages == {"patching", "storing", "failing"}
RepairStages == {"repair", "findings", "repairCheckout", "begin"}
VerifyStages ==
  {"reading", "cached", "checkout", "verifying", "recording", "inconclusive"}
Stages == PatchStages \cup RepairStages \cup VerifyStages \cup {"idle", "context", "dead"}

CallRecords ==
  [pc : Stages, round : {1, 2}, patch : PatchIds \cup {None}, state : ChangeStates,
   checkout : Nat, verdict : VerificationVerdicts \cup {None}, performed : BOOLEAN,
   outcome : VerificationRows \cup {None}]

SessionTypes ==
  /\ tree \in Nat /\ base \in Nat
  /\ session \in [Sessions -> CallRecords]
  /\ examined \in Seq([id : VerificationIds, tree : Nat, patch : PatchIds \cup {None}])

\* What a session may rely on between two of its steps, whatever the others do
\* meanwhile.
CallHolds(s) ==
  LET c == session[s]
  IN  /\ c.pc \in PatchStages => change # None
      /\ c.pc \in RepairStages => c.round = 2
      /\ c.pc \in VerifyStages \/ c.round = 2 => change # None /\ change.revision > 0
      /\ c.pc = "storing" => c.patch \in PatchIds
      /\ c.pc \in {"verifying", "recording"} => c.checkout = base
      /\ c.performed => change # None /\ Len(patches) = 2
      /\ c.performed /\ c.pc \in {"cached", "checkout", "verifying", "recording"} =>
           c.patch = patches[2]
      /\ c.pc = "idle" => c.round = 1
      /\ c.pc # "idle" => c.outcome = None
      /\ c.outcome # None =>
           /\ c.outcome \in verifs
           /\ c.performed => c.outcome.patch = patches[2]

\* Every conclusive verdict was examined on the base.
VerdictsExamined ==
  \A v \in verifs : v.verdict # "Inconclusive" =>
    \E n \in DOMAIN examined :
      examined[n] = [id |-> v.id, tree |-> base, patch |-> v.patch]

AtRepair(s) ==
  session[s].round = 2 /\ session[s].pc \in {"patching", "storing", "failing", "dead"}

Repairing == change # None /\ change.state = "repairing"

RepairerAtWork == Repairing => 2 \in unrecorded \/ \E s \in Sessions : AtRepair(s)

SessionInv ==
  /\ ChangeInv
  /\ SessionTypes
  /\ \A s \in Sessions : CallHolds(s)
  /\ VerdictsExamined
  /\ RepairerAtWork

-----------------------------------------------------------------------------
(* MCP sessions make the transactions of ChangeStore *)

\* A patch that is being stored is one that was observed.
PatchesToStore ==
  \A s \in Sessions :
    /\ session[s].pc = "storing" => session[s].patch \in PatchIds
    /\ session[s].round \in {1, 2}

\* Each step of a session, of the editor or of the control plane is one
\* transaction of changes.rs, or none.
LEMMA SessionStepIsStoreStep ==
  ASSUME PatchesToStore, [SessionNext]_allVars
  PROVE  [Next]_vars
<1>1. CASE UNCHANGED allVars
  BY <1>1 DEF allVars, vars
<1>2. ASSUME NEW s \in Sessions, StorePatch(s) PROVE [Next]_vars
  <2>1. CASE StoresPatch(s)
    <3>1. session[s].patch \in PatchIds /\ Revision(s) \in 1..2
      BY <1>2 DEF PatchesToStore, StorePatch, At, Revision
    <3> QED BY <2>1, <3>1 DEF StoresPatch, Next
  <2>2. CASE ~StoresPatch(s)
    BY <1>2, <2>2 DEF StorePatch, vars
  <2> QED BY <2>1, <2>2
<1>3. ASSUME NEW s \in Sessions, RecordVerdict(s) PROVE [Next]_vars
  <2>1. CASE \E v \in VerificationRows : RecordVerificationArtifact(v)
    BY <2>1 DEF Next
  <2>2. CASE ~\E v \in VerificationRows : RecordVerificationArtifact(v)
    BY <1>3, <2>2 DEF RecordVerdict, Artifacts, vars
  <2> QED BY <2>1, <2>2
<1>4. ASSUME NEW s \in Sessions, RecordInconclusive(s) PROVE [Next]_vars
  <2>1. CASE \E v \in VerificationRows : RecordVerificationArtifact(v)
    BY <2>1 DEF Next
  <2>2. CASE ~\E v \in VerificationRows : RecordVerificationArtifact(v)
    BY <1>4, <2>2 DEF RecordInconclusive, vars
  <2> QED BY <2>1, <2>2
<1>5. ASSUME NEW s \in Sessions, Prepare(s) PROVE [Next]_vars
  BY <1>5 DEF Prepare, Next
<1>6. ASSUME NEW s \in Sessions, RecordFailedPatchRun(s) PROVE [Next]_vars
  BY <1>6 DEF RecordFailedPatchRun, Next, vars
<1>7. ASSUME NEW s \in Sessions, RepairBegin(s) PROVE [Next]_vars
  BY <1>7 DEF RepairBegin, Next, vars
<1>8. CASE ControlPlane
  BY <1>8 DEF ControlPlane, Next
<1>9. CASE EditTree
  BY <1>9 DEF EditTree, vars
<1>10. ASSUME NEW s \in Sessions,
              \/ CheckContext(s) \/ PatchTurn(s) \/ StartVerify(s) \/ ReadPrepared(s)
              \/ LookUpVerdict(s) \/ Checkout(s) \/ VerifierTurn(s) \/ RepairRead(s)
              \/ RepairFindings(s) \/ RepairCheckout(s) \/ Killed(s)
       PROVE  [Next]_vars
  BY <1>10 DEF CheckContext, PatchTurn, StartVerify, ReadPrepared, LookUpVerdict,
               Checkout, VerifierTurn, RepairRead, RepairFindings, RepairCheckout,
               Killed, vars
<1> QED
  BY <1>1, <1>2, <1>3, <1>4, <1>5, <1>6, <1>7, <1>8, <1>9, <1>10 DEF SessionNext

-----------------------------------------------------------------------------
(* MCP sessions: the step of one session *)

\* Only session s moves.
Moves(s) ==
  /\ session' = [session EXCEPT ![s] = session'[s]]
  /\ session'[s] \in CallRecords

\* An empty call is a call record.
LEMMA NoCallRecord == NoCall \in CallRecords
  BY DEF NoCall, CallRecords, Stages, ChangeStates

\* What changes in the record of a call when its stage does.
LEMMA GoStep ==
  ASSUME SessionTypes, NEW s \in Sessions, NEW pc \in Stages, Go(s, pc)
  PROVE  /\ Moves(s)
         /\ session'[s] = [session[s] EXCEPT !.pc = pc]
<1>1. session[s] \in CallRecords
  BY DEF SessionTypes
<1>2. session' = [session EXCEPT ![s] = [session[s] EXCEPT !.pc = pc]]
  BY DEF Go, SessionTypes
<1>3. session'[s] = [session[s] EXCEPT !.pc = pc]
  BY <1>2 DEF SessionTypes
<1>4. session'[s] \in CallRecords
  BY <1>1, <1>3 DEF CallRecords
<1>5. session' = [session EXCEPT ![s] = session'[s]]
  BY <1>2, <1>3
<1> QED BY <1>3, <1>4, <1>5 DEF Moves

\* What is left of a call that ended.
LEMMA EndStep ==
  ASSUME SessionTypes, NEW s \in Sessions, NEW o \in VerificationRows \cup {None},
         EndCall(s, o)
  PROVE  /\ Moves(s)
         /\ session'[s].pc = "idle" /\ session'[s].round = 1
         /\ session'[s].outcome = o
         /\ session'[s].performed = session[s].performed
<1> DEFINE new == [NoCall EXCEPT !.outcome = o, !.performed = session[s].performed]
<1>1. session' = [session EXCEPT ![s] = new]
  BY DEF EndCall
<1>2. session'[s] = new
  BY <1>1 DEF SessionTypes
<1>3. session[s].performed \in BOOLEAN
  BY DEF SessionTypes, CallRecords
<1>4. /\ new \in CallRecords /\ new.pc = "idle" /\ new.round = 1 /\ new.outcome = o
      /\ new.performed = session[s].performed
  BY <1>3, NoCallRecord DEF NoCall, CallRecords
<1> QED BY <1>1, <1>2, <1>4 DEF Moves

\* A session that does not move can still rely on what it relied on: no
\* transaction takes any of it back.
LEMMA OtherCallHolds ==
  ASSUME SessionInv, [Next]_vars, base' = base \/ change = None,
         NEW q \in Sessions, session'[q] = session[q]
  PROVE  CallHolds(q)'
<1>1. ChangeInv' /\ RecordsGrow
  BY ChangeInvStep, GrowStep DEF SessionInv
<1>2. change # None => change.revision \in Nat /\ change'.revision \in Nat
  BY <1>1 DEF SessionInv, ChangeInv, TypeOK, ChangeRows, RecordsGrow
<1> QED BY <1>1, <1>2 DEF SessionInv, CallHolds, RecordsGrow, VerifyStages

\* The parts of the invariant that a step of one session has to show; the
\* other sessions rely only on what no transaction takes back.
LEMMA MoveStep ==
  ASSUME SessionInv, [Next]_vars, NEW s \in Sessions, Moves(s), CallHolds(s)',
         tree' \in Nat, base' \in Nat, base' = base \/ change = None,
         examined' \in Seq([id : VerificationIds, tree : Nat,
                            patch : PatchIds \cup {None}]),
         VerdictsExamined',
         unrecorded \subseteq unrecorded',
         Repairing' => \/ AtRepair(s)' \/ 2 \in unrecorded'
                       \/ Repairing /\ ~AtRepair(s)
  PROVE  SessionInv'
<1>1. ChangeInv' /\ RecordsGrow
  BY ChangeInvStep, GrowStep DEF SessionInv
<1>2. SessionTypes'
  BY DEF SessionInv, SessionTypes, Moves
<1>3. \A q \in Sessions \ {s} : session'[q] = session[q]
  BY DEF SessionInv, SessionTypes, Moves
<1>4. \A q \in Sessions : CallHolds(q)'
  <2> SUFFICES ASSUME NEW q \in Sessions \ {s} PROVE CallHolds(q)'
    OBVIOUS
  <2> QED BY <1>3, OtherCallHolds DEF SessionInv
<1>5. RepairerAtWork'
  <2> SUFFICES ASSUME Repairing', ~AtRepair(s)', 2 \notin unrecorded'
               PROVE  \E q \in Sessions : AtRepair(q)'
    BY DEF RepairerAtWork
  <2>1. PICK q \in Sessions : AtRepair(q)
    BY DEF SessionInv, RepairerAtWork
  <2>2. q # s
    BY <2>1
  <2> QED BY <1>3, <2>1, <2>2 DEF AtRepair
<1> QED BY <1>1, <1>2, <1>4, <1>5 DEF SessionInv

\* The same for a step that leaves the store and the tree alone.
LEMMA QuietStep ==
  ASSUME SessionInv, NEW s \in Sessions, Moves(s), CallHolds(s)',
         UNCHANGED <<change, patches, verifs, applies, lc, tree, base, examined, unrecorded>>,
         AtRepair(s) => AtRepair(s)'
  PROVE  SessionInv'
<1>1. [Next]_vars
  BY DEF vars
<1>2. VerdictsExamined'
  BY DEF SessionInv, VerdictsExamined
<1>3. Repairing' => \/ AtRepair(s)'
                    \/ Repairing /\ ~AtRepair(s)
  BY DEF Repairing
<1> QED BY <1>1, <1>2, <1>3, MoveStep DEF SessionInv, SessionTypes

\* An error inside the call ends it, or leads to the inconclusive record; it
\* keeps what the call could rely on.
LEMMA CallFailsStep ==
  ASSUME SessionInv, NEW s \in Sessions, CallFails(s), [Next]_vars
  PROVE  Moves(s) /\ CallHolds(s)'
<1>0. RecordsGrow /\ ChangeInv'
  BY ChangeInvStep, GrowStep DEF SessionInv
<1>1. session[s] \in CallRecords /\ CallHolds(s) /\ SessionTypes
  BY DEF SessionInv, SessionTypes
<1>2. change # None =>
        /\ change' # None /\ change.revision \in Nat /\ change'.revision \in Nat
        /\ change'.revision >= change.revision
  BY <1>0 DEF RecordsGrow, SessionInv, ChangeInv, TypeOK, ChangeRows
<1>3. CASE session[s].round = 1
  <2>1. EndCall(s, None)
    BY <1>3 DEF CallFails
  <2>2. /\ Moves(s) /\ session'[s].pc = "idle" /\ session'[s].round = 1
        /\ session'[s].outcome = None
        /\ session'[s].performed = session[s].performed
    BY <1>1, <2>1, EndStep
  <2>3. session'[s].performed => change' # None /\ Len(patches') = 2
    BY <1>0, <1>1, <2>2 DEF CallHolds, RecordsGrow
  <2> QED
    BY <2>2, <2>3 DEF CallHolds, PatchStages, RepairStages, VerifyStages
<1>4. CASE session[s].round # 1
  <2>1. Go(s, "inconclusive") /\ session[s].round = 2
    BY <1>1, <1>4 DEF CallFails, CallRecords
  <2>2. /\ Moves(s) /\ session'[s] = [session[s] EXCEPT !.pc = "inconclusive"]
    BY <1>1, <2>1, GoStep DEF Stages, VerifyStages
  <2>3. /\ session'[s].pc = "inconclusive" /\ session'[s].round = 2
        /\ session'[s].performed = session[s].performed
        /\ session'[s].outcome = session[s].outcome
    BY <1>1, <2>1, <2>2 DEF CallRecords
  <2> QED
    BY <1>0, <1>1, <1>2, <2>1, <2>2, <2>3
       DEF CallHolds, RecordsGrow, PatchStages, RepairStages, VerifyStages
<1> QED BY <1>3, <1>4

\* A step that replaces the record of one call.
LEMMA SetStep ==
  ASSUME SessionTypes, NEW s \in Sessions, NEW new \in CallRecords,
         session' = [session EXCEPT ![s] = new]
  PROVE  Moves(s) /\ session'[s] = new
<1>1. session'[s] = new
  BY DEF SessionTypes
<1> QED BY <1>1 DEF Moves

-----------------------------------------------------------------------------
(* MCP sessions: steps that change only the record of their call *)

\* prepare_change_call up to the patcher.
LEMMA CheckContextStep ==
  ASSUME SessionInv, NEW s \in Sessions, CheckContext(s)
  PROVE  SessionInv'
<1>1. SessionTypes /\ CallHolds(s) /\ ~AtRepair(s)
  BY DEF SessionInv, CheckContext, At, AtRepair
<1>2. CASE EndCall(s, None)
  <2>1. /\ Moves(s) /\ session'[s].pc = "idle" /\ session'[s].round = 1
        /\ session'[s].outcome = None
        /\ session'[s].performed = session[s].performed
    BY <1>1, <1>2, EndStep
  <2>2. CallHolds(s)'
    BY <1>1, <2>1 DEF CheckContext, CallHolds, PatchStages, RepairStages, VerifyStages
  <2> QED BY <1>1, <2>1, <2>2, QuietStep DEF CheckContext
<1>3. CASE ~EndCall(s, None)
  <2> DEFINE new == [NoCall EXCEPT !.pc = "context"]
  <2>1. new \in CallRecords
    BY NoCallRecord DEF CallRecords, Stages
  <2>2. session' = [session EXCEPT ![s] = new]
    BY <1>3 DEF CheckContext
  <2>3. Moves(s) /\ session'[s] = new
    BY <1>1, <2>1, <2>2, SetStep
  <2>4. CallHolds(s)'
    BY <2>3 DEF NoCall, CallHolds, PatchStages, RepairStages, VerifyStages
  <2> QED BY <1>1, <2>3, <2>4, QuietStep DEF CheckContext
<1> QED BY <1>2, <1>3

\* The turn of the patcher.
LEMMA PatchTurnStep ==
  ASSUME SessionInv, NEW s \in Sessions, PatchTurn(s)
  PROVE  SessionInv'
<1>1. /\ SessionTypes /\ CallHolds(s) /\ session[s] \in CallRecords
      /\ session[s].pc = "patching"
      /\ UNCHANGED <<change, patches, verifs, applies, lc, tree, base, examined, unrecorded>>
  BY DEF SessionInv, SessionTypes, PatchTurn, At
<1>2. CASE Go(s, "failing")
  <2>1. Moves(s) /\ session'[s] = [session[s] EXCEPT !.pc = "failing"]
    BY <1>1, <1>2, GoStep DEF Stages, PatchStages
  <2>2. CallHolds(s)' /\ (AtRepair(s) => AtRepair(s)')
    BY <1>1, <2>1
       DEF CallRecords, CallHolds, AtRepair, PatchStages, RepairStages, VerifyStages
  <2> QED BY <1>1, <2>1, <2>2, QuietStep
<1>3. CASE ~Go(s, "failing")
  <2>1. PICK p \in PatchIds :
          session' = [session EXCEPT ![s].pc = "storing", ![s].patch = p]
    BY <1>3 DEF PatchTurn
  <2> DEFINE new == [session[s] EXCEPT !.pc = "storing", !.patch = p]
  <2>2. session' = [session EXCEPT ![s] = new]
    BY <1>1, <2>1 DEF SessionTypes
  <2>3. new \in CallRecords
    BY <1>1 DEF CallRecords, Stages, PatchStages
  <2>4. Moves(s) /\ session'[s] = new
    BY <1>1, <2>2, <2>3, SetStep
  <2>5. CallHolds(s)' /\ (AtRepair(s) => AtRepair(s)')
    BY <1>1, <2>4
       DEF CallRecords, CallHolds, AtRepair, PatchStages, RepairStages, VerifyStages
  <2> QED BY <1>1, <2>4, <2>5, QuietStep
<1> QED BY <1>2, <1>3

\* verify_change_call starts.
LEMMA StartVerifyStep ==
  ASSUME SessionInv, NEW s \in Sessions, StartVerify(s)
  PROVE  SessionInv'
<1>1. /\ SessionTypes /\ ~AtRepair(s) /\ change # None /\ change.revision > 0
      /\ UNCHANGED <<change, patches, verifs, applies, lc, tree, base, examined, unrecorded>>
  BY DEF SessionInv, StartVerify, At, AtRepair
<1> DEFINE new == [NoCall EXCEPT !.pc = "reading"]
<1>2. new \in CallRecords
  BY NoCallRecord DEF CallRecords, Stages, VerifyStages
<1>3. Moves(s) /\ session'[s] = new
  BY <1>1, <1>2, SetStep DEF StartVerify
<1>4. CallHolds(s)'
  BY <1>1, <1>3 DEF NoCall, CallHolds, PatchStages, RepairStages, VerifyStages
<1> QED BY <1>1, <1>3, <1>4, QuietStep

\* An error inside a call that leaves the store alone.
LEMMA QuietFailure ==
  ASSUME SessionInv, NEW s \in Sessions, CallFails(s), ~AtRepair(s),
         UNCHANGED <<change, patches, verifs, applies, lc, tree, base, examined, unrecorded>>
  PROVE  SessionInv'
<1>1. [Next]_vars
  BY DEF vars
<1>2. Moves(s) /\ CallHolds(s)'
  BY <1>1, CallFailsStep
<1> QED BY <1>2, QuietStep

\* A step to another stage that asks for no more than the current one gives.
LEMMA QuietGo ==
  ASSUME SessionInv, NEW s \in Sessions, NEW pc \in Stages, Go(s, pc),
         UNCHANGED <<change, patches, verifs, applies, lc, tree, base, examined, unrecorded>>,
         \/ pc = "dead" /\ session[s].pc # "idle"
         \/ /\ session[s].pc \in RepairStages \cup VerifyStages
            /\ \/ pc = "inconclusive" /\ session[s].round = 2
               \/ session[s].pc \in RepairStages /\ pc \in RepairStages
               \/ session[s].pc = "cached" /\ pc = "checkout"
  PROVE  SessionInv'
<1>1. SessionTypes /\ CallHolds(s) /\ session[s] \in CallRecords
  BY DEF SessionInv, SessionTypes
<1>2. Moves(s) /\ session'[s] = [session[s] EXCEPT !.pc = pc]
  BY <1>1, GoStep
<1>3. session'[s].pc = pc
  BY <1>1, <1>2 DEF CallRecords
<1>4. CallHolds(s)' /\ (AtRepair(s) => AtRepair(s)')
  BY <1>1, <1>2, <1>3
     DEF CallRecords, CallHolds, AtRepair, PatchStages, RepairStages, VerifyStages
<1> QED BY <1>2, <1>4, QuietStep

\* prepared_change: what was read is the latest patch.
LEMMA ReadPreparedStep ==
  ASSUME SessionInv, NEW s \in Sessions, ReadPrepared(s)
  PROVE  SessionInv'
<1>1. /\ SessionTypes /\ CallHolds(s) /\ session[s] \in CallRecords
      /\ session[s].pc = "reading" /\ ~AtRepair(s)
      /\ UNCHANGED <<change, patches, verifs, applies, lc, tree, base, examined, unrecorded>>
  BY DEF SessionInv, SessionTypes, ReadPrepared, At, AtRepair
<1>2. CASE change.state = "failed"
  BY <1>1, <1>2, QuietFailure DEF ReadPrepared
<1>3. CASE change.state # "failed"
  <2> DEFINE new == [session[s] EXCEPT !.pc = "cached", !.patch = LatestPatch,
                                       !.state = change.state]
  <2>1. change # None /\ change.revision > 0
    BY <1>1 DEF CallHolds, VerifyStages
  <2>2. LatestPatch \in PatchIds /\ change.state \in ChangeStates
    BY <2>1, LatestIsStored DEF SessionInv, ChangeInv, TypeOK, ChangeRows
  <2>3. session' = [session EXCEPT ![s] = new]
    BY <1>1, <1>3 DEF ReadPrepared, SessionTypes
  <2>4. new \in CallRecords
    BY <1>1, <2>2 DEF CallRecords, Stages, VerifyStages
  <2>5. Moves(s) /\ session'[s] = new
    BY <1>1, <2>3, <2>4, SetStep
  <2>6. Len(patches) = 2 => LatestPatch = patches[2]
    BY <2>1 DEF SessionInv, ChangeInv, RepairOnce, LatestPatch
  <2>7. /\ new.pc = "cached" /\ new.round = session[s].round
        /\ new.patch = LatestPatch /\ new.outcome = session[s].outcome
        /\ new.performed = session[s].performed
    BY <1>1 DEF CallRecords
  <2> HIDE DEF new
  <2>8. CallHolds(s)'
    BY <1>1, <2>1, <2>5, <2>6, <2>7
       DEF CallHolds, PatchStages, RepairStages, VerifyStages
  <2> QED BY <1>1, <2>5, <2>8, QuietStep
<1> QED BY <1>2, <1>3

\* A settled verdict on that patch ends the call.
LEMMA LookUpVerdictStep ==
  ASSUME SessionInv, NEW s \in Sessions, LookUpVerdict(s)
  PROVE  SessionInv'
<1>1. /\ SessionTypes /\ CallHolds(s) /\ session[s] \in CallRecords
      /\ session[s].pc = "cached" /\ ~AtRepair(s)
      /\ UNCHANGED <<change, patches, verifs, applies, lc, tree, base, examined, unrecorded>>
  BY DEF SessionInv, SessionTypes, LookUpVerdict, At, AtRepair
<1>2. CASE \E v \in Settled(s) : EndCall(s, v)
  <2>1. PICK v \in Settled(s) : EndCall(s, v)
    BY <1>2
  <2>2. v \in verifs /\ v \in VerificationRows /\ v.patch = session[s].patch
    BY <2>1 DEF Settled, SessionInv, ChangeInv, TypeOK
  <2>3. /\ Moves(s) /\ session'[s].pc = "idle" /\ session'[s].round = 1
        /\ session'[s].outcome = v
        /\ session'[s].performed = session[s].performed
    BY <1>1, <2>1, <2>2, EndStep
  <2>4. CallHolds(s)'
    BY <1>1, <2>2, <2>3 DEF CallHolds, PatchStages, RepairStages, VerifyStages
  <2> QED BY <1>1, <2>3, <2>4, QuietStep
<1>3. CASE ~\E v \in Settled(s) : EndCall(s, v)
  <2>1. CallFails(s) \/ Go(s, "checkout")
    BY <1>3 DEF LookUpVerdict
  <2>2. CASE CallFails(s)
    BY <1>1, <2>2, QuietFailure
  <2>3. CASE Go(s, "checkout")
    BY <1>1, <2>3, QuietGo DEF Stages, VerifyStages
  <2> QED BY <2>1, <2>2, <2>3
<1> QED BY <1>2, <1>3

\* The checkout that passes the comparison is of the base.
LEMMA CheckoutStep ==
  ASSUME SessionInv, NEW s \in Sessions, Checkout(s)
  PROVE  SessionInv'
<1>1. /\ SessionTypes /\ CallHolds(s) /\ session[s] \in CallRecords
      /\ session[s].pc = "checkout" /\ ~AtRepair(s) /\ tree \in Nat
      /\ UNCHANGED <<change, patches, verifs, applies, lc, tree, base, examined, unrecorded>>
  BY DEF SessionInv, SessionTypes, Checkout, At, AtRepair
<1>2. CASE tree # base
  BY <1>1, <1>2, QuietFailure DEF Checkout
<1>3. CASE tree = base
  <2> DEFINE new == [session[s] EXCEPT !.pc = "verifying", !.checkout = tree]
  <2>1. session' = [session EXCEPT ![s] = new]
    BY <1>1, <1>3 DEF Checkout, SessionTypes
  <2>2. new \in CallRecords
    BY <1>1 DEF CallRecords, Stages, VerifyStages
  <2>3. Moves(s) /\ session'[s] = new
    BY <1>1, <2>1, <2>2, SetStep
  <2>4. /\ new.pc = "verifying" /\ new.round = session[s].round
        /\ new.patch = session[s].patch /\ new.outcome = session[s].outcome
        /\ new.performed = session[s].performed /\ new.checkout = tree
    BY <1>1 DEF CallRecords
  <2> HIDE DEF new
  <2>5. CallHolds(s)'
    BY <1>1, <1>3, <2>3, <2>4
       DEF CallHolds, PatchStages, RepairStages, VerifyStages
  <2> QED BY <1>1, <2>3, <2>5, QuietStep
<1> QED BY <1>2, <1>3

\* The turn of the verifier.
LEMMA VerifierTurnStep ==
  ASSUME SessionInv, NEW s \in Sessions, VerifierTurn(s)
  PROVE  SessionInv'
<1>1. /\ SessionTypes /\ CallHolds(s) /\ session[s] \in CallRecords
      /\ session[s].pc = "verifying" /\ ~AtRepair(s)
      /\ UNCHANGED <<change, patches, verifs, applies, lc, tree, base, examined, unrecorded>>
  BY DEF SessionInv, SessionTypes, VerifierTurn, At, AtRepair
<1>2. CASE CallFails(s)
  BY <1>1, <1>2, QuietFailure
<1>3. CASE ~CallFails(s)
  <2>1. PICK verdict \in VerificationVerdicts :
          session' = [session EXCEPT ![s].pc = "recording", ![s].verdict = verdict]
    BY <1>3 DEF VerifierTurn
  <2> DEFINE new == [session[s] EXCEPT !.pc = "recording", !.verdict = verdict]
  <2>2. session' = [session EXCEPT ![s] = new]
    BY <1>1, <2>1 DEF SessionTypes
  <2>3. new \in CallRecords
    BY <1>1 DEF CallRecords, Stages, VerifyStages
  <2>4. Moves(s) /\ session'[s] = new
    BY <1>1, <2>2, <2>3, SetStep
  <2>5. /\ new.pc = "recording" /\ new.round = session[s].round
        /\ new.patch = session[s].patch /\ new.outcome = session[s].outcome
        /\ new.performed = session[s].performed /\ new.checkout = session[s].checkout
    BY <1>1 DEF CallRecords
  <2> HIDE DEF new
  <2>6. CallHolds(s)'
    BY <1>1, <2>4, <2>5 DEF CallHolds, PatchStages, RepairStages, VerifyStages
  <2> QED BY <1>1, <2>4, <2>6, QuietStep
<1> QED BY <1>2, <1>3

\* repair up to its transaction.
LEMMA RepairReadStep ==
  ASSUME SessionInv, NEW s \in Sessions,
         RepairRead(s) \/ RepairFindings(s) \/ RepairCheckout(s)
  PROVE  SessionInv'
<1>1. /\ SessionTypes /\ CallHolds(s) /\ session[s] \in CallRecords /\ tree \in Nat
      /\ session[s].pc \in RepairStages /\ session[s].round = 2 /\ ~AtRepair(s)
      /\ UNCHANGED <<change, patches, verifs, applies, lc, tree, base, examined, unrecorded>>
  BY DEF SessionInv, SessionTypes, RepairRead, RepairFindings, RepairCheckout, At,
         AtRepair, RepairStages, CallHolds
<1>2. CASE \E pc \in {"inconclusive", "repairCheckout"} : Go(s, pc)
  BY <1>1, <1>2, QuietGo DEF Stages, VerifyStages, RepairStages
<1>3. ASSUME NEW new \in CallRecords, session' = [session EXCEPT ![s] = new],
             new.pc \in RepairStages, new.round = 2,
             new.outcome = session[s].outcome, new.performed = session[s].performed
      PROVE  SessionInv'
  <2>1. Moves(s) /\ session'[s] = new
    BY <1>1, <1>3, SetStep
  <2>2. CallHolds(s)'
    BY <1>1, <1>3, <2>1 DEF CallHolds, PatchStages, RepairStages, VerifyStages
  <2> QED BY <1>1, <2>1, <2>2, QuietStep
<1>4. CASE RepairRead(s) /\ change.revision = 1 /\ change.state = "repairable"
  <2> DEFINE new == [session[s] EXCEPT !.pc = "findings", !.patch = LatestPatch]
  <2>1. session' = [session EXCEPT ![s] = new]
    BY <1>1, <1>4 DEF RepairRead, SessionTypes
  <2>2. LatestPatch \in PatchIds
    BY <1>1, LatestIsStored DEF SessionInv, ChangeInv, CallHolds
  <2>3. new \in CallRecords
    BY <1>1, <2>2 DEF CallRecords, Stages, RepairStages
  <2>4. /\ new.pc \in RepairStages /\ new.round = 2
        /\ new.outcome = session[s].outcome /\ new.performed = session[s].performed
    BY <1>1 DEF CallRecords, RepairStages
  <2> HIDE DEF new
  <2> QED BY <1>3, <2>1, <2>3, <2>4
<1>5. CASE RepairCheckout(s)
  <2> DEFINE new == [session[s] EXCEPT !.pc = "begin", !.checkout = tree]
  <2>1. session' = [session EXCEPT ![s] = new]
    BY <1>1, <1>5 DEF RepairCheckout, SessionTypes
  <2>2. new \in CallRecords
    BY <1>1 DEF CallRecords, Stages, RepairStages
  <2>3. /\ new.pc \in RepairStages /\ new.round = 2
        /\ new.outcome = session[s].outcome /\ new.performed = session[s].performed
    BY <1>1 DEF CallRecords, RepairStages
  <2> HIDE DEF new
  <2> QED BY <1>3, <2>1, <2>2, <2>3
<1>6. CASE RepairRead(s) /\ ~(change.revision = 1 /\ change.state = "repairable")
  BY <1>2, <1>6 DEF RepairRead
<1>7. CASE RepairFindings(s)
  BY <1>2, <1>7 DEF RepairFindings
<1> QED BY <1>4, <1>5, <1>6, <1>7

\* The process of a session is killed.
LEMMA KilledStep ==
  ASSUME SessionInv, NEW s \in Sessions, Killed(s)
  PROVE  SessionInv'
  BY QuietGo DEF Killed, Stages

-----------------------------------------------------------------------------
(* MCP sessions: steps that make a transaction *)

\* prepare: the request names the tree that was checked out as its base.
LEMMA SessionPrepareStep ==
  ASSUME SessionInv, NEW s \in Sessions, Prepare(s)
  PROVE  SessionInv'
<1>1. /\ SessionTypes /\ session[s].pc = "context" /\ tree \in Nat
      /\ RecordChangeRequest /\ base' = tree
      /\ UNCHANGED <<tree, examined, unrecorded>>
  BY DEF SessionInv, SessionTypes, Prepare, At
<1>2. [Next]_vars /\ ChangeInv'
  BY <1>1, ChangeInvStep DEF Next, SessionInv
<1>3. /\ change = None /\ patches = <<>> /\ verifs' = {}
      /\ change' = [state |-> "requested", revision |-> 0, attempted |-> FALSE]
      /\ change' \in ChangeRows
  <2>1. /\ change = None /\ patches = <<>> /\ verifs' = verifs
        /\ change' = [state |-> "requested", revision |-> 0, attempted |-> FALSE]
    BY <1>1 DEF RecordChangeRequest, SessionInv, ChangeInv, RowsHaveOwners
  <2>2. verifs = {}
    BY <2>1 DEF SessionInv, ChangeInv, RowsHaveOwners
  <2> QED BY <2>1, <2>2 DEF ChangeRows, ChangeStates
<1> DEFINE new == [NoCall EXCEPT !.pc = "patching", !.checkout = tree]
<1>4. new \in CallRecords
  BY <1>1, NoCallRecord DEF CallRecords, Stages, PatchStages
<1>5. Moves(s) /\ session'[s] = new
  BY <1>1, <1>4, SetStep DEF Prepare
<1>6. /\ new.pc = "patching" /\ new.round = 1 /\ new.performed = FALSE
      /\ new.outcome = None
  BY DEF NoCall
<1> HIDE DEF new
<1>7. CallHolds(s)'
  <2>1. change' # None
    BY <1>3, NoneIsNoRow
  <2> QED
    BY <1>5, <1>6, <2>1
       DEF CallHolds, PatchStages, RepairStages, VerifyStages
<1>8. VerdictsExamined' /\ ~Repairing'
  BY <1>3 DEF VerdictsExamined, Repairing
<1>9. examined' \in Seq([id : VerificationIds, tree : Nat, patch : PatchIds \cup {None}])
  BY <1>1 DEF SessionTypes
<1> QED BY <1>1, <1>2, <1>3, <1>5, <1>7, <1>8, <1>9, MoveStep

\* record_prepared_change, or its refusal.
LEMMA StorePatchStep ==
  ASSUME SessionInv, NEW s \in Sessions, StorePatch(s)
  PROVE  SessionInv'
<1>1. /\ SessionTypes /\ CallHolds(s) /\ session[s] \in CallRecords
      /\ session[s].pc = "storing" /\ change # None
      /\ UNCHANGED <<tree, base, examined, unrecorded>>
  BY DEF SessionInv, SessionTypes, StorePatch, At, CallHolds, PatchStages
<1>2. CASE StoresPatch(s)
  <2> DEFINE revision == Revision(s)
             patch == session[s].patch
  <2>1. /\ patch \in PatchIds /\ revision \in 1..2
        /\ RecordPreparedChange(patch, revision)
    BY <1>1, <1>2 DEF StoresPatch, Revision, CallHolds
  <2>2. [Next]_vars
    BY <2>1 DEF Next
  <2>3. ChangeInv' /\ RecordsGrow
    BY <2>2, ChangeInvStep, GrowStep DEF SessionInv
  <2>4. /\ change' # None /\ change'.revision = revision
        /\ change'.state = "prepared" /\ verifs' = verifs
    BY <1>1, <2>1, <2>3 DEF RecordPreparedChange, RecordsGrow
  <2>5. Len(patches') = revision
    BY <2>3, <2>4 DEF ChangeInv, RepairOnce
  <2> HIDE DEF revision, patch
  <2>6. VerdictsExamined' /\ ~Repairing'
    BY <1>1, <2>4 DEF SessionInv, VerdictsExamined, Repairing
  <2>7. SUFFICES Moves(s) /\ CallHolds(s)'
    BY <1>1, <2>2, <2>6, <2>7, MoveStep DEF SessionTypes
  <2>8. CASE Go(s, "failing")
    <3>1. Moves(s) /\ session'[s] = [session[s] EXCEPT !.pc = "failing"]
      BY <1>1, <2>8, GoStep DEF Stages, PatchStages
    <3>2. /\ session'[s].pc = "failing"
          /\ session'[s].performed = session[s].performed
          /\ session'[s].outcome = session[s].outcome
      BY <1>1, <3>1 DEF CallRecords
    <3>3. CallHolds(s)'
      BY <1>1, <2>1, <2>3, <2>4, <3>2
         DEF CallHolds, RecordsGrow, PatchStages, RepairStages, VerifyStages
    <3> QED BY <3>1, <3>3
  <2>9. CASE session[s].round = 1 /\ EndCall(s, None)
    <3>1. /\ Moves(s) /\ session'[s].pc = "idle" /\ session'[s].round = 1
          /\ session'[s].outcome = None
          /\ session'[s].performed = session[s].performed
      BY <1>1, <2>9, EndStep
    <3>2. session'[s].performed => change' # None /\ Len(patches') = 2
      BY <1>1, <2>3, <3>1 DEF CallHolds, RecordsGrow
    <3>3. CallHolds(s)'
      BY <3>1, <3>2 DEF CallHolds, PatchStages, RepairStages, VerifyStages
    <3> QED BY <3>1, <3>3
  <2>10. CASE /\ session[s].round = 2
              /\ session' = [session EXCEPT ![s].pc = "reading", ![s].performed = TRUE]
    <3> DEFINE new == [session[s] EXCEPT !.pc = "reading", !.performed = TRUE]
    <3>1. session' = [session EXCEPT ![s] = new]
      BY <1>1, <2>10 DEF SessionTypes
    <3>2. new \in CallRecords
      BY <1>1 DEF CallRecords, Stages, VerifyStages
    <3>3. Moves(s) /\ session'[s] = new
      BY <1>1, <3>1, <3>2, SetStep
    <3>4. /\ new.pc = "reading" /\ new.outcome = session[s].outcome
      BY <1>1 DEF CallRecords
    <3> HIDE DEF new
    <3>5. revision = 2
      BY <2>10 DEF revision, Revision
    <3>7. CallHolds(s)'
      BY <1>1, <2>1, <2>4, <2>5, <3>3, <3>4, <3>5
         DEF CallHolds, PatchStages, RepairStages, VerifyStages
    <3> QED BY <3>3, <3>7
  <2> QED
    BY <1>1, <1>2, <2>8, <2>9, <2>10 DEF StorePatch, CallRecords
<1>3. CASE ~StoresPatch(s)
  <2>1. /\ Go(s, "failing") /\ UNCHANGED <<change, patches, verifs, applies, lc>>
    BY <1>3 DEF StorePatch
  <2>2. Moves(s) /\ session'[s] = [session[s] EXCEPT !.pc = "failing"]
    BY <1>1, <2>1, GoStep DEF Stages, PatchStages
  <2>3. CallHolds(s)' /\ (AtRepair(s) => AtRepair(s)')
    BY <1>1, <2>1, <2>2
       DEF CallRecords, CallHolds, AtRepair, PatchStages, RepairStages, VerifyStages
  <2> QED BY <1>1, <2>1, <2>2, <2>3, QuietStep
<1> QED BY <1>2, <1>3

\* record_failed_patch_run: the change is failed, no longer repairing, or the
\* client is told that this could not be stored.
LEMMA FailedRunStep ==
  ASSUME SessionInv, NEW s \in Sessions, RecordFailedPatchRun(s)
  PROVE  SessionInv'
<1>1. /\ SessionTypes /\ CallFails(s) /\ session[s].round \in {1, 2}
      /\ UNCHANGED <<tree, base, examined>>
  BY DEF SessionInv, SessionTypes, CallRecords, RecordFailedPatchRun
<1>2. CASE RecordChangeFailure /\ UNCHANGED unrecorded
  <2>1. [Next]_vars
    BY <1>2 DEF Next
  <2>2. Moves(s) /\ CallHolds(s)'
    BY <1>1, <2>1, CallFailsStep
  <2>3. verifs' = verifs /\ change'.state = "failed"
    BY <1>2 DEF RecordChangeFailure, SessionInv, ChangeInv, TypeOK, ChangeRows
  <2>4. VerdictsExamined' /\ ~Repairing'
    BY <1>1, <2>3 DEF SessionInv, VerdictsExamined, Repairing
  <2> QED BY <1>1, <1>2, <2>1, <2>2, <2>4, MoveStep DEF SessionTypes
<1>3. CASE /\ unrecorded' = unrecorded \cup {Revision(s)}
           /\ UNCHANGED <<change, patches, verifs, applies, lc>>
  <2>1. [Next]_vars
    BY <1>3 DEF vars
  <2>2. Moves(s) /\ CallHolds(s)'
    BY <1>1, <2>1, CallFailsStep
  <2>3. VerdictsExamined'
    BY <1>1, <1>3 DEF SessionInv, VerdictsExamined
  <2>4. Repairing' => 2 \in unrecorded' \/ (Repairing /\ ~AtRepair(s))
    BY <1>1, <1>3 DEF Repairing, AtRepair, Revision
  <2> QED BY <1>1, <1>3, <2>1, <2>2, <2>3, <2>4, MoveStep DEF SessionTypes
<1> QED BY <1>2, <1>3 DEF RecordFailedPatchRun

\* record_verification_artifact by the verifier: the verdict is of the base.
LEMMA RecordVerdictStep ==
  ASSUME SessionInv, NEW s \in Sessions, RecordVerdict(s)
  PROVE  SessionInv'
<1>1. /\ SessionTypes /\ CallHolds(s) /\ session[s] \in CallRecords
      /\ session[s].pc = "recording" /\ ~AtRepair(s)
      /\ session[s].checkout = base /\ session[s].outcome = None
      /\ UNCHANGED <<tree, base, unrecorded>>
  BY DEF SessionInv, SessionTypes, RecordVerdict, At, AtRepair, CallHolds
<1>2. CASE \E v \in Artifacts(s) :
             /\ RecordVerificationArtifact(v)
             /\ examined' = examined \o Examined(s, v)
             /\ IF v.verdict = "Repairable" /\ session[s].round = 1
                THEN session' = [session EXCEPT ![s].pc = "repair", ![s].round = 2]
                ELSE EndCall(s, v)
  <2>1. PICK v \in Artifacts(s) :
             /\ RecordVerificationArtifact(v)
             /\ examined' = examined \o Examined(s, v)
             /\ IF v.verdict = "Repairable" /\ session[s].round = 1
                THEN session' = [session EXCEPT ![s].pc = "repair", ![s].round = 2]
                ELSE EndCall(s, v)
    BY <1>2
  <2>2. /\ v \in VerificationRows /\ v.patch = session[s].patch
        /\ v.verdict \in VerificationVerdicts /\ v.id \in VerificationIds
    BY <2>1 DEF Artifacts, VerificationRows
  <2>3. [Next]_vars
    BY <2>1, <2>2 DEF Next
  <2>4. /\ verifs' = verifs \cup {v} /\ patches' = patches /\ change # None
        /\ change.revision > 0 /\ change \in ChangeRows
        /\ change' = [change EXCEPT !.state = VerdictState(v.verdict)]
    BY <2>1 DEF RecordVerificationArtifact, SessionInv, ChangeInv, TypeOK
  <2>5. /\ VerdictState(v.verdict) \in ChangeStates
        /\ VerdictState(v.verdict) # "repairing"
    BY <2>2 DEF VerdictState, VerificationVerdicts, ChangeStates
  <2>6. /\ change' \in ChangeRows /\ change'.revision = change.revision
        /\ change'.state # "repairing"
    BY <2>4, <2>5 DEF ChangeRows
  <2>7. change' # None /\ ~Repairing'
    BY <2>6, NoneIsNoRow DEF Repairing
  <2> DEFINE entry == [id |-> v.id, tree |-> base, patch |-> v.patch]
             Entries == [id : VerificationIds, tree : Nat, patch : PatchIds \cup {None}]
  <2>8. /\ examined \in Seq(Entries) /\ examined' = Append(examined, entry)
        /\ entry \in Entries
    <3>1. examined \in Seq(Entries) /\ entry \in Entries
      BY <1>1, <2>2 DEF SessionTypes, CallRecords
    <3>2. examined' = examined \o <<entry>>
      BY <1>1, <2>1, <2>2 DEF Examined
    <3> HIDE DEF Entries, entry
    <3> QED BY <3>1, <3>2
  <2>9. /\ examined' \in Seq(Entries)
        /\ \A n \in DOMAIN examined : n \in DOMAIN examined' /\ examined'[n] = examined[n]
        /\ \E n \in DOMAIN examined' : examined'[n] = entry
    <3> HIDE DEF Entries, entry
    <3>1. Len(examined') = Len(examined) + 1 /\ examined'[Len(examined) + 1] = entry
      BY <2>8
    <3> QED BY <2>8, <3>1
  <2>10. VerdictsExamined'
    <3> SUFFICES ASSUME NEW w \in verifs', w.verdict # "Inconclusive"
                 PROVE  \E n \in DOMAIN examined' :
                          examined'[n] = [id |-> w.id, tree |-> base, patch |-> w.patch]
      BY <1>1 DEF VerdictsExamined
    <3>1. CASE w \in verifs
      <4>1. PICK n \in DOMAIN examined :
              examined[n] = [id |-> w.id, tree |-> base, patch |-> w.patch]
        BY <3>1 DEF SessionInv, VerdictsExamined
      <4> QED BY <2>9, <4>1
    <3>2. CASE w = v
      BY <2>9, <3>2
    <3> QED BY <2>4, <3>1, <3>2
  <2> HIDE DEF Entries
  <2>11. CASE v.verdict = "Repairable" /\ session[s].round = 1
    <3> DEFINE new == [session[s] EXCEPT !.pc = "repair", !.round = 2]
    <3>1. session' = [session EXCEPT ![s] = new]
      BY <1>1, <2>1, <2>11 DEF SessionTypes
    <3>2. new \in CallRecords
      BY <1>1 DEF CallRecords, Stages, RepairStages
    <3>3. Moves(s) /\ session'[s] = new
      BY <1>1, <3>1, <3>2, SetStep
    <3>4. /\ new.pc = "repair" /\ new.round = 2 /\ new.outcome = None
          /\ new.performed = session[s].performed
      BY <1>1 DEF CallRecords
    <3> HIDE DEF new
    <3>5. CallHolds(s)'
      BY <1>1, <2>4, <2>6, <2>7, <3>3, <3>4
         DEF CallHolds, PatchStages, RepairStages, VerifyStages
    <3> QED
      BY <1>1, <2>3, <2>7, <2>9, <2>10, <3>3, <3>5, MoveStep DEF SessionTypes, Entries
  <2>12. CASE ~(v.verdict = "Repairable" /\ session[s].round = 1)
    <3>1. EndCall(s, v)
      BY <2>1, <2>12
    <3>2. /\ Moves(s) /\ session'[s].pc = "idle" /\ session'[s].round = 1
          /\ session'[s].outcome = v
          /\ session'[s].performed = session[s].performed
      BY <1>1, <2>2, <3>1, EndStep
    <3>3. CallHolds(s)'
      BY <1>1, <2>2, <2>4, <2>7, <3>2
         DEF CallHolds, PatchStages, RepairStages, VerifyStages
    <3> QED
      BY <1>1, <2>3, <2>7, <2>9, <2>10, <3>2, <3>3, MoveStep DEF SessionTypes, Entries
  <2> QED BY <2>11, <2>12
<1>3. CASE CallFails(s) /\ UNCHANGED <<change, patches, verifs, applies, lc, examined, unrecorded>>
  BY <1>1, <1>3, QuietFailure
<1> QED BY <1>2, <1>3 DEF RecordVerdict

\* begin_change_repair: the session that reserved the repair is at it.
LEMMA RepairBeginStep ==
  ASSUME SessionInv, NEW s \in Sessions, RepairBegin(s)
  PROVE  SessionInv'
<1>1. /\ SessionTypes /\ CallHolds(s) /\ session[s] \in CallRecords
      /\ session[s].pc = "begin" /\ session[s].round = 2 /\ ~AtRepair(s)
      /\ UNCHANGED <<tree, base, examined, unrecorded>>
  BY DEF SessionInv, SessionTypes, RepairBegin, At, AtRepair, CallHolds, RepairStages
<1>2. CASE BeginChangeRepair /\ Go(s, "patching")
  <2>1. [Next]_vars
    BY <1>2 DEF Next
  <2>2. ChangeInv' /\ RecordsGrow /\ verifs' = verifs
    BY <1>2, <2>1, ChangeInvStep, GrowStep DEF SessionInv, BeginChangeRepair
  <2>3. Moves(s) /\ session'[s] = [session[s] EXCEPT !.pc = "patching"]
    BY <1>1, <1>2, GoStep DEF Stages, PatchStages
  <2>4. /\ session'[s].pc = "patching" /\ session'[s].round = 2
        /\ session'[s].performed = session[s].performed
        /\ session'[s].outcome = session[s].outcome
    BY <1>1, <2>3 DEF CallRecords
  <2>5. /\ change # None /\ change' # None /\ change.revision \in Nat
        /\ change'.revision \in Nat /\ change'.revision >= change.revision
    BY <1>1, <2>2 DEF CallHolds, RecordsGrow, SessionInv, ChangeInv, TypeOK, ChangeRows
  <2>6. CallHolds(s)' /\ AtRepair(s)'
    BY <1>1, <2>2, <2>4, <2>5
       DEF CallHolds, AtRepair, RecordsGrow, PatchStages, RepairStages, VerifyStages
  <2>7. VerdictsExamined'
    BY <1>1, <2>2 DEF SessionInv, VerdictsExamined
  <2> QED BY <1>1, <2>1, <2>3, <2>6, <2>7, MoveStep DEF SessionTypes
<1>3. CASE Go(s, "inconclusive") /\ UNCHANGED <<change, patches, verifs, applies, lc>>
  BY <1>1, <1>3, QuietGo DEF Stages, VerifyStages, RepairStages
<1> QED BY <1>2, <1>3 DEF RepairBegin

\* record_inconclusive: its verification is of the latest patch.
LEMMA RecordInconclusiveStep ==
  ASSUME SessionInv, NEW s \in Sessions, RecordInconclusive(s)
  PROVE  SessionInv'
<1>1. /\ SessionTypes /\ CallHolds(s) /\ session[s] \in CallRecords
      /\ session[s].pc = "inconclusive" /\ ~AtRepair(s)
      /\ UNCHANGED <<tree, base, examined, unrecorded>>
  BY DEF SessionInv, SessionTypes, RecordInconclusive, At, AtRepair
<1>2. CASE \E v \in VerificationRows :
             v.verdict = "Inconclusive" /\ RecordVerificationArtifact(v) /\ EndCall(s, v)
  <2>1. PICK v \in VerificationRows :
          v.verdict = "Inconclusive" /\ RecordVerificationArtifact(v) /\ EndCall(s, v)
    BY <1>2
  <2>2. [Next]_vars
    BY <2>1 DEF Next
  <2>3. ChangeInv' /\ RecordsGrow
    BY <2>2, ChangeInvStep, GrowStep DEF SessionInv
  <2>4. /\ verifs' = verifs \cup {v} /\ patches' = patches /\ v.patch = LatestPatch
        /\ change # None /\ change \in ChangeRows /\ change' # None
        /\ change' = [change EXCEPT !.state = "inconclusive"]
    BY <2>1, <2>3 DEF RecordVerificationArtifact, VerdictState, RecordsGrow, SessionInv,
                      ChangeInv, TypeOK
  <2>5. /\ Moves(s) /\ session'[s].pc = "idle" /\ session'[s].round = 1
        /\ session'[s].outcome = v
        /\ session'[s].performed = session[s].performed
    BY <1>1, <2>1, EndStep
  <2>6. Len(patches) = 2 => LatestPatch = patches[2]
    BY <2>4 DEF SessionInv, ChangeInv, RepairOnce, LatestPatch
  <2>7. CallHolds(s)'
    BY <1>1, <2>4, <2>5, <2>6
       DEF CallHolds, PatchStages, RepairStages, VerifyStages
  <2>8. VerdictsExamined'
    BY <1>1, <2>1, <2>4 DEF SessionInv, VerdictsExamined
  <2>9. ~Repairing'
    BY <2>4 DEF Repairing, ChangeRows
  <2> QED BY <1>1, <2>2, <2>5, <2>7, <2>8, <2>9, MoveStep DEF SessionTypes
<1>3. CASE EndCall(s, None) /\ UNCHANGED <<change, patches, verifs, applies, lc>>
  <2>1. /\ Moves(s) /\ session'[s].pc = "idle" /\ session'[s].round = 1
        /\ session'[s].outcome = None
        /\ session'[s].performed = session[s].performed
    BY <1>1, <1>3, EndStep
  <2>2. CallHolds(s)'
    BY <1>1, <1>3, <2>1 DEF CallHolds, PatchStages, RepairStages, VerifyStages
  <2> QED BY <1>1, <1>3, <2>1, <2>2, QuietStep
<1> QED BY <1>2, <1>3 DEF RecordInconclusive

\* An edit of the tree, or an apply: no session moves.
LEMMA NoSessionMoves ==
  ASSUME SessionInv, EditTree \/ ControlPlane
  PROVE  SessionInv'
<1>1. /\ UNCHANGED <<session, base, examined, unrecorded>> /\ tree' \in Nat
      /\ verifs' = verifs /\ [Next]_vars
  <2>1. CASE EditTree
    BY <2>1 DEF SessionInv, SessionTypes, EditTree, vars
  <2>2. CASE ControlPlane
    BY <2>2 DEF SessionInv, SessionTypes, ControlPlane, sessionVars, Next,
                BeginChangeApply, FinishChangeApply
  <2> QED BY <2>1, <2>2
<1>2. ChangeInv'
  BY <1>1, ChangeInvStep DEF SessionInv
<1>3. SessionTypes' /\ VerdictsExamined'
  BY <1>1 DEF SessionInv, SessionTypes, VerdictsExamined
<1>4. \A q \in Sessions : CallHolds(q)'
  BY <1>1, OtherCallHolds
<1>5. Repairing' => Repairing
  <2>1. CASE EditTree
    BY <2>1 DEF EditTree, Repairing
  <2>2. CASE \E id \in ApplyIds : BeginChangeApply(id, FALSE)
    BY <2>2 DEF BeginChangeApply, Repairing, SessionInv, ChangeInv, TypeOK, ChangeRows
  <2>3. CASE \E id \in ApplyIds, status \in FinishedApply : FinishChangeApply(id, status)
    <3>1. PICK id \in ApplyIds, status \in FinishedApply : FinishChangeApply(id, status)
      BY <2>3
    <3>2. change \in ChangeRows
      BY <3>1, ApplyHasChange DEF FinishChangeApply, SessionInv
    <3>3. change'.state = FinishedState(status)
      BY <3>1, <3>2 DEF FinishChangeApply, ChangeRows
    <3> QED BY <3>3 DEF Repairing, FinishedState, FinishedApply
  <2> QED BY <2>1, <2>2, <2>3 DEF ControlPlane
<1>6. RepairerAtWork'
  BY <1>1, <1>5 DEF SessionInv, RepairerAtWork, AtRepair
<1> QED BY <1>2, <1>3, <1>4, <1>6 DEF SessionInv

-----------------------------------------------------------------------------
(* MCP sessions: theorems *)

\* No session has begun.
LEMMA SessionInvInit == SessionInit => SessionInv
<1> SUFFICES ASSUME SessionInit PROVE SessionInv
  OBVIOUS
<1>1. ChangeInv
  BY ChangeInvInit DEF SessionInit
<1>2. SessionTypes
  BY NoCallRecord DEF SessionInit, SessionTypes
<1>3. \A s \in Sessions : CallHolds(s)
  BY DEF SessionInit, NoCall, CallHolds, PatchStages, RepairStages, VerifyStages
<1> QED
  BY <1>1, <1>2, <1>3
     DEF SessionInv, SessionInit, Init, VerdictsExamined, RepairerAtWork, Repairing

\* Every step keeps the invariant.
LEMMA SessionInvStep == SessionInv /\ [SessionNext]_allVars => SessionInv'
<1> SUFFICES ASSUME SessionInv, [SessionNext]_allVars PROVE SessionInv'
  OBVIOUS
<1>1. CASE SessionNext
  BY <1>1, CheckContextStep, SessionPrepareStep, PatchTurnStep, StorePatchStep,
     FailedRunStep, StartVerifyStep, ReadPreparedStep, LookUpVerdictStep, CheckoutStep,
     VerifierTurnStep, RecordVerdictStep, RepairReadStep, RepairBeginStep,
     RecordInconclusiveStep, KilledStep, NoSessionMoves
     DEF SessionNext
<1>2. CASE UNCHANGED allVars
  <2>1. ChangeInv'
    BY <1>2, ChangeInvStep DEF SessionInv, allVars, vars
  <2>2. SessionTypes' /\ VerdictsExamined' /\ RepairerAtWork'
    BY <1>2 DEF allVars, SessionInv, SessionTypes, VerdictsExamined, RepairerAtWork,
                Repairing, AtRepair
  <2>3. \A s \in Sessions : CallHolds(s)'
    BY <1>2, OtherCallHolds DEF allVars, vars
  <2> QED BY <2>1, <2>2, <2>3 DEF SessionInv
<1> QED BY <1>1, <1>2

\* The sessions satisfy the inductive invariant.
THEOREM SessionInvariant == SessionSpec => []SessionInv
  BY SessionInvInit, SessionInvStep, PTL DEF SessionSpec

\* What the sessions, the editor and the control plane do to the records is
\* allowed by ChangeStore: every behaviour of the sessions is one of the store,
\* so its theorems hold of them (mcp.rs, patcher.rs and verifier.rs touch the
\* records only through changes.rs).
THEOREM SessionsImplementStore == SessionSpec => Spec
<1>1. SessionInit => Init
  BY DEF SessionInit
<1>2. SessionInv => PatchesToStore
  BY DEF SessionInv, SessionTypes, CallRecords, CallHolds, PatchesToStore
<1>3. SessionInv /\ [SessionNext]_allVars => [Next]_vars
  BY <1>2, SessionStepIsStoreStep
<1> QED BY <1>1, <1>3, SessionInvariant, PTL DEF SessionSpec, Spec

\* A conclusive verdict is about the patch it names on the source the change
\* was prepared from, and a call that repaired answers with a verification of
\* the repaired revision (verify, verify_change_call).
THEOREM VerdictsAreOfTheBase == SessionSpec => []VerdictOfTheBase
<1>1. SessionInv => VerdictOfTheBase
  BY DEF SessionInv, VerdictsExamined, CallHolds, VerdictOfTheBase
<1> QED BY <1>1, SessionInvariant, PTL

\* A change is 'repairing' only while its repairer is at it, or was killed at
\* it, or has told its client that its failure could not be stored
\* (begin_change_repair, record_failed_patch_run).
THEOREM RepairersAtWork == SessionSpec => []RepairingHasARepairer
<1>1. SessionInv => RepairingHasARepairer
  BY DEF SessionInv, RepairerAtWork, Repairing, AtRepair, RepairingHasARepairer
<1> QED BY <1>1, SessionInvariant, PTL
-----------------------------------------------------------------------------
(* Execution kernels: the inductive invariant *)

Known(s) == \E r \in recorded : r.id = s

\* What a kernel knows of the lifecycle it replayed: if the lifecycle has moved
\* on and is not over, somebody has done this kernel's work already.
KernelHolds(k) ==
  kpc[k] # "idle" =>
    /\ Bound /\ kview[k] \in LifecycleState
    /\ kpc[k] \in {"invoking", "returned"} => kview[k].status = "Active"
    /\ kpc[k] = "returned" =>
         /\ kout[k] \in Outcomes
         /\ [id |-> kview[k], outcome |-> kout[k]] \in recorded
    /\ kview[k].status = "Active" /\ kview[k] # lc /\ ~Terminal(lc) => Known(kview[k])

\* A patch nobody has verified.
Unverified == change.state = "prepared" /\ VerificationsOf(LatestPatch) = {}

\* The change is as far as its lifecycle, or one remembered outcome ahead.
StageAgrees ==
  Bound /\ ~Terminal(lc) =>
    /\ lc.phase = "Explore" => change.state = "requested" /\ change.revision = 0
    /\ lc.phase = "Implement" =>
         \/ change.state = "requested" /\ change.revision = 0 /\ ~lc.repair_consumed
         \/ change.state = "repairing" /\ change.revision = 1 /\ lc.repair_consumed
         \/ Unverified /\ Known(lc)
    /\ lc.phase \in {"Test", "Review"} => Unverified
    /\ lc.phase = "Verify" /\ lc.status = "Active" =>
         \/ Unverified
         \/ /\ Known(lc)
            /\ \A v \in VerificationsOf(LatestPatch) : change.state = VerdictState(v.verdict)
    /\ lc.status = "RepairReserved" => change.state = "repairable"

\* A patch is verified once.
VerifiedOnce == \A v, w \in verifs : v.patch = w.patch => v = w

KernelTypes ==
  /\ kpc \in [Kernels -> {"idle", "loaded", "invoking", "returned"}]
  /\ kview \in [Kernels -> LifecycleState \cup {None}]
  /\ kout \in [Kernels -> Outcomes \cup {None}]
  /\ recorded \subseteq [id : LifecycleState, outcome : Outcomes]

KernelInv ==
  /\ ChangeInv
  /\ KernelTypes
  /\ \A k \in Kernels : KernelHolds(k)
  /\ StageAgrees
  /\ VerifiedOnce

-----------------------------------------------------------------------------
(* Execution kernels: outcomes of adapters, and what idle kernels keep *)

\* What an adapter completes is one of the five transitions of a worker.
LEMMA OutcomeTransitions ==
  ASSUME NEW outcome \in Outcomes, outcome.result = "Completed"
  PROVE  /\ outcome.transition \in Transitions
         /\ outcome.transition.kind \in
              {"CompleteExplore", "CompleteImplement", "CompleteTest",
               "CompleteReview", "CompleteVerify"}
<1>1. \A phase \in WorkerPhases, n \in TurnChoices : WorkerOf(phase, n) \in WorkerCompletions
  BY SpecAssumption, TurnsAssumption DEF WorkerOf, WorkerCompletions
<1>2. <<1>> \in Seq(Nat)
  OBVIOUS
<1>3. [1..TestPlanCount -> TestOutcomes] \subseteq Seq(TestOutcomes)
  BY SpecAssumption DEF MAX_LIFECYCLE_TEST_PLANS
<1>4. PICK t \in UNION {CompletionsIn(n) : n \in TurnChoices} : outcome = Completed(t)
  <2>1. outcome \notin Broken
    BY DEF Broken
  <2> QED BY <2>1 DEF Outcomes
<1>5. PICK n \in TurnChoices : t \in CompletionsIn(n)
  BY <1>4, Zenon
<1>6. outcome.transition = t
  BY <1>4 DEF Completed
<1> SUFFICES /\ t \in Transitions
             /\ t.kind \in {"CompleteExplore", "CompleteImplement", "CompleteTest",
                            "CompleteReview", "CompleteVerify"}
  BY <1>6
<1> USE <1>1 DEF Transitions, WorkerPhases
<1>7. CASE t \in [kind : {"CompleteExplore"}, worker : {WorkerOf("Explore", n)},
                  artifacts : {<<1>>}]
  <2>1. t.kind = "CompleteExplore" /\ t.artifacts = <<1>>
    BY <1>7
  <2>2. t \in [kind : {"CompleteExplore"}, worker : WorkerCompletions,
               artifacts : {<<1>>}]
    BY <1>7
  <2>3. t \in [kind : {"CompleteExplore"}, worker : WorkerCompletions,
               artifacts : Seq(Nat)]
    BY <1>2, <2>2, Zenon
  <2> QED BY <2>1, <2>3
<1>8. CASE t \in [kind : {"CompleteImplement"}, worker : {WorkerOf("Implement", n)},
                  patch : PatchRefs]
  BY <1>8
<1>9. CASE t \in [kind : {"CompleteTest"}, worker : {WorkerOf("Test", n)},
                  results : [1..TestPlanCount -> TestOutcomes]]
  BY <1>3, <1>9
<1>10. CASE t \in [kind : {"CompleteReview"}, worker : {WorkerOf("Review", n)},
                  review : Reviews]
  BY <1>10
<1>11. CASE t \in [kind : {"CompleteVerify"}, worker : {WorkerOf("Verify", n)},
                   verification : Verifications]
  BY <1>11
<1> QED BY <1>5, <1>7, <1>8, <1>9, <1>10, <1>11 DEF CompletionsIn

\* The lifecycle stands still, is over, or leaves a state whose work is known.
LeavesKnownWork ==
  \/ lc' = lc
  \/ /\ Bound' /\ ~Terminal(lc)
     /\ Terminal(lc') \/ lc.status # "Active" \/ Known(lc)

\* A kernel that does not step keeps what it knows.
LEMMA HoldsKept ==
  ASSUME NEW k, KernelHolds(k), recorded \subseteq recorded', LeavesKnownWork,
         kpc'[k] = kpc[k], kview'[k] = kview[k], kout'[k] = kout[k]
  PROVE  KernelHolds(k)'
<1>1. \A s : Known(s) => Known(s)'
  BY DEF Known
<1>2. CASE lc' = lc
  BY <1>1, <1>2 DEF KernelHolds, Bound
<1>3. CASE /\ Bound' /\ ~Terminal(lc)
           /\ Terminal(lc') \/ lc.status # "Active" \/ Known(lc)
  <2>1. ASSUME kpc[k] # "idle", kview[k].status = "Active", ~Terminal(lc')
        PROVE  Known(kview[k])
    BY <1>3, <2>1 DEF KernelHolds
  <2> QED BY <1>1, <1>3, <2>1 DEF KernelHolds
<1> QED BY <1>2, <1>3 DEF LeavesKnownWork

\* When a step returns, the kernels keep what they know.
LEMMA ReturnKeeps ==
  ASSUME KernelTypes, \A j \in Kernels : KernelHolds(j),
         NEW k \in Kernels, StepReturns(k), UNCHANGED recorded, LeavesKnownWork
  PROVE  KernelTypes' /\ \A j \in Kernels : KernelHolds(j)'
<1>1. KernelTypes'
  BY DEF KernelTypes, StepReturns
<1>2. KernelHolds(k)'
  BY DEF KernelTypes, StepReturns, KernelHolds
<1>3. ASSUME NEW j \in Kernels, j # k PROVE KernelHolds(j)'
  <2>1. kpc'[j] = kpc[j] /\ kview'[j] = kview[j] /\ kout'[j] = kout[j]
    BY <1>3 DEF KernelTypes, StepReturns
  <2> QED BY <2>1, HoldsKept
<1> QED BY <1>1, <1>2, <1>3

\* What the change looks like carries over when nothing is written to it.
LEMMA StageKept ==
  ASSUME StageAgrees, VerifiedOnce, UNCHANGED vars, recorded \subseteq recorded'
  PROVE  StageAgrees' /\ VerifiedOnce'
<1>1. /\ Known(lc) => Known(lc)'
      /\ Unverified => Unverified'
      /\ VerificationsOf(LatestPatch)' = VerificationsOf(LatestPatch)
      /\ UNCHANGED <<change, lc, verifs>>
  BY DEF vars, Known, Unverified, VerificationsOf, LatestPatch
<1>2. VerifiedOnce'
  BY <1>1 DEF VerifiedOnce
<1>3. StageAgrees'
  BY <1>1 DEF StageAgrees, Bound
<1> QED BY <1>2, <1>3
-----------------------------------------------------------------------------
(* Execution kernels: one lemma per kind of step *)

\* A kernel stores a terminal transition, or finds the state moved on.
LEMMA TerminalCommitStep ==
  ASSUME KernelInv, NEW k \in Kernels, kpc[k] # "idle",
         NEW kind \in {"Cancel", "Fail"}, CommitTerminal(k, kind)
  PROVE  KernelInv'
<1> DEFINE t == [kind |-> kind]
<1>1. /\ StepReturns(k) /\ UNCHANGED <<change, patches, verifs, applies, recorded>>
      /\ \/ ArtifactsStored(t) /\ Persist(t)
         \/ UNCHANGED lc
      /\ Bound
  BY DEF CommitTerminal, Commits, KernelInv, KernelHolds
<1>2. CASE UNCHANGED lc
  <2>1. UNCHANGED vars
    BY <1>1, <1>2 DEF vars
  <2> QED
    BY <1>1, <1>2, <2>1, ChangeInvStep, ReturnKeeps, StageKept
       DEF KernelInv, LeavesKnownWork
<1>3. CASE ArtifactsStored(t) /\ Persist(t)
  <2>1. t \in Transitions /\ t.kind \in {"Cancel", "Fail"}
    BY DEF Transitions
  <2>2. ChangeInv'
    BY <1>1, <1>3, <2>1, ParentTxStep DEF KernelInv
  <2>3. /\ lc \in LifecycleState /\ ~Terminal(lc) /\ Bound'
        /\ lc' = Transition(lc, t)
    BY <1>1, <1>3, <2>1, PersistStep DEF KernelInv, ChangeInv, Persist
  <2>4. Terminal(lc')
    BY <2>1, <2>3 DEF Transition, ApplyTransition, FinishTerminal, Terminal,
                      TerminalStatuses, LifecycleState, StatesWith
  <2>5. StageAgrees' /\ VerifiedOnce'
    BY <1>1, <2>4 DEF StageAgrees, VerifiedOnce, KernelInv
  <2> QED
    BY <1>1, <2>2, <2>3, <2>4, <2>5, ReturnKeeps DEF KernelInv, LeavesKnownWork
<1> QED BY <1>1, <1>2, <1>3

\* The state a completion leads to agrees with the rows it was checked against.
LEMMA CompletionStage ==
  ASSUME KernelInv, Bound, UNCHANGED <<change, patches, verifs, applies, recorded>>,
         NEW t \in Transitions, ArtifactsStored(t), Persist(t),
         t.kind \in {"CompleteExplore", "CompleteImplement", "CompleteTest",
                     "CompleteReview", "CompleteVerify"}
  PROVE  StageAgrees'
<1> SUFFICES ASSUME ~Terminal(lc') PROVE StageAgrees'
  BY DEF StageAgrees
<1>1. /\ lc \in LifecycleState /\ Good(lc) /\ ~Terminal(lc) /\ Guard(lc, t)
      /\ lc' \in LifecycleState /\ Good(lc') /\ Bound' /\ WritesOnlyItsOwn(lc, t, lc')
      /\ Accepted(lc, t) /\ lc' = Transition(lc, t)
  BY PersistStep DEF KernelInv, ChangeInv, Persist
<1>2. MovesOn(lc, t, lc')
  BY <1>1, TransitionMoves
<1>3. /\ Unverified' <=> Unverified
      /\ VerificationsOf(LatestPatch)' = VerificationsOf(LatestPatch)
      /\ UNCHANGED change
  BY DEF Unverified, VerificationsOf, LatestPatch
<1>4. lc'.repair_consumed = lc.repair_consumed
  BY <1>1 DEF WritesOnlyItsOwn, LifecycleState, StatesWith
<1>5. ActiveShape(lc)
  BY <1>1 DEF Good, Validate, StatusShape
<1>6. CASE t.kind = "CompleteExplore"
  <2>1. ActivePhase(lc, "Explore") /\ ActivePhase(lc', "Implement")
    BY <1>2, <1>6 DEF MovesOn
  <2>2. change.state = "requested" /\ change.revision = 0 /\ ~lc.repair_consumed
    BY <1>1, <1>5, <2>1 DEF ActivePhase, ActiveShape, KernelInv, StageAgrees
  <2> QED BY <1>3, <1>4, <2>1, <2>2 DEF StageAgrees, ActivePhase
<1>7. CASE t.kind = "CompleteImplement"
  <2>1. ActivePhase(lc, "Implement") /\ ActivePhase(lc', "Test")
    BY <1>2, <1>7 DEF MovesOn
  <2>2. /\ change.revision > 0
        /\ t.patch.revision = change.revision
    BY <1>7 DEF ArtifactsStored
  <2>3. t.patch.revision = ExpectedRevision(lc)
    BY <1>1, <1>7 DEF Guard, CanCompleteImplement
  <2>4. Unverified
    BY <1>1, <2>1, <2>2, <2>3
       DEF ActivePhase, KernelInv, StageAgrees, ExpectedRevision
  <2> QED BY <1>3, <2>1, <2>4 DEF StageAgrees, ActivePhase
<1>8. CASE t.kind \in {"CompleteTest", "CompleteReview"}
  <2>1. /\ lc.phase \in {"Test", "Review"} /\ lc'.status = "Active"
        /\ lc'.phase \in {"Review", "Verify"}
    BY <1>2, <1>8 DEF MovesOn, ActivePhase
  <2>2. Unverified
    BY <1>1, <2>1 DEF KernelInv, StageAgrees
  <2> QED BY <1>3, <2>1, <2>2 DEF StageAgrees
<1>9. CASE t.kind = "CompleteVerify"
  <2>1. /\ ActivePhase(lc, "Verify")
        /\ \/ lc'.phase = "Apply" /\ lc'.status = "AwaitingApproval"
           \/ /\ lc'.phase = "Verify" /\ lc'.status = "RepairReserved"
              /\ t.verification.verdict = "Repairable"
    BY <1>2, <1>9 DEF MovesOn
  <2>2. PICK v \in verifs :
          t.verification = [id |-> v.id, patch |-> v.patch, verdict |-> v.verdict]
    BY <1>9 DEF ArtifactsStored
  <2>3. lc.patch # None /\ v.patch = lc.patch.id /\ v.verdict = t.verification.verdict
    BY <1>1, <1>9, <2>2 DEF Guard, CanCompleteVerify
  <2>4. v \in VerificationsOf(LatestPatch)
    BY <2>3 DEF KernelInv, ChangeInv, BoundAgreement, VerificationsOf
  <2>5. change.state = VerdictState(t.verification.verdict)
    BY <1>1, <2>1, <2>3, <2>4 DEF ActivePhase, KernelInv, StageAgrees, Unverified
  <2>6. lc'.status = "RepairReserved" => change.state = "repairable"
    BY <2>1, <2>5 DEF VerdictState
  <2> QED BY <1>3, <2>1, <2>6 DEF StageAgrees
<1> QED BY <1>6, <1>7, <1>8, <1>9
\* A kernel commits what its adapter returned, finds the state moved on, or
\* fails the lifecycle because the store refused it.
LEMMA CompletionStep ==
  ASSUME KernelInv, NEW k \in Kernels, CommitCompletion(k)
  PROVE  KernelInv'
<1> DEFINE t == kout[k].transition
<1>1. /\ kpc[k] = "returned" /\ StepReturns(k)
      /\ UNCHANGED <<change, patches, verifs, applies, recorded>>
      /\ kout[k].result = "Completed"
  BY DEF CommitCompletion, UsableOutcome
<1>2. /\ Bound /\ kout[k] \in Outcomes /\ kview[k].status = "Active"
      /\ [id |-> kview[k], outcome |-> kout[k]] \in recorded
  BY <1>1 DEF KernelInv, KernelHolds
<1>3. /\ t \in Transitions
      /\ t.kind \in {"CompleteExplore", "CompleteImplement", "CompleteTest",
                     "CompleteReview", "CompleteVerify"}
  BY <1>1, <1>2, OutcomeTransitions
<1> HIDE DEF t
<1>4. CASE Commits(k, t)
  <2>1. kview[k] = lc /\ ArtifactsStored(t) /\ Persist(t)
    BY <1>4 DEF Commits
  <2>2. ChangeInv'
    BY <1>1, <1>2, <1>3, <2>1, ParentTxStep DEF KernelInv
  <2>3. StageAgrees'
    BY <1>1, <1>2, <1>3, <2>1, CompletionStage
  <2>4. ~Terminal(lc) /\ Bound'
    BY <1>2, <1>3, <2>1, PersistStep DEF KernelInv, ChangeInv
  <2>5. Known(lc)
    BY <1>2, <2>1 DEF Known
  <2>6. VerifiedOnce'
    BY <1>1 DEF KernelInv, VerifiedOnce
  <2> QED
    BY <1>1, <2>2, <2>3, <2>4, <2>5, <2>6, ReturnKeeps DEF KernelInv, LeavesKnownWork
<1>5. CASE UNCHANGED lc
  <2>1. UNCHANGED vars
    BY <1>1, <1>5 DEF vars
  <2> QED
    BY <1>1, <1>5, <2>1, ChangeInvStep, ReturnKeeps, StageKept
       DEF KernelInv, LeavesKnownWork
<1>6. CASE kview[k] = lc /\ Persist([kind |-> "Fail"])
  <2>1. CommitTerminal(k, "Fail")
    <3>1. ArtifactsStored([kind |-> "Fail"])
      BY DEF ArtifactsStored
    <3> QED BY <1>6, <3>1 DEF CommitTerminal, Commits, CommitCompletion
  <2> QED BY <1>1, <2>1, TerminalCommitStep
<1> QED BY <1>4, <1>5, <1>6 DEF CommitCompletion, t

\* resume_repair takes the reserved repair: the lifecycle leaves a state in
\* which no adapter works.
LEMMA ResumeStep ==
  ASSUME KernelInv, NEW k \in Kernels, ResumeRepair(k)
  PROVE  KernelInv'
<1>1. /\ kpc[k] = "loaded" /\ StepReturns(k) /\ UNCHANGED recorded
      /\ BeginChangeRepair \/ UNCHANGED vars
      /\ Bound
  BY DEF ResumeRepair, KernelInv, KernelHolds
<1>2. CASE UNCHANGED vars
  BY <1>1, <1>2, ChangeInvStep, ReturnKeeps, StageKept
     DEF KernelInv, LeavesKnownWork, vars
<1>3. CASE BeginChangeRepair
  <2> DEFINE t == [kind |-> "ConsumeRepair"]
  <2>1. /\ Persist(t) /\ UNCHANGED <<patches, verifs>>
        /\ change \in ChangeRows /\ change.revision = 1
        /\ change' = [change EXCEPT !.state = "repairing", !.attempted = TRUE]
    BY <1>1, <1>3 DEF BeginChangeRepair, CanBeginRepair, RepairAllowed, KernelInv,
                      ChangeInv, TypeOK
  <2>2. change'.state = "repairing" /\ change'.revision = 1
    BY <2>1 DEF ChangeRows
  <2>3. t \in Transitions /\ t.kind = "ConsumeRepair"
    BY DEF Transitions
  <2>4. /\ lc \in LifecycleState /\ Good(lc) /\ ~Terminal(lc) /\ Guard(lc, t)
        /\ lc' \in LifecycleState /\ Bound' /\ WritesOnlyItsOwn(lc, t, lc')
        /\ Accepted(lc, t) /\ lc' = Transition(lc, t)
    BY <1>1, <2>1, <2>3, PersistStep DEF KernelInv, ChangeInv, Persist
  <2> HIDE DEF t
  <2>5. /\ lc.status = "RepairReserved"
        /\ ~Terminal(lc') => lc'.phase = "Implement" /\ lc'.status = "Active"
    BY <2>3, <2>4, TransitionMoves DEF MovesOn, ActivePhase, Guard, CanConsumeRepair
  <2>6. lc'.repair_consumed
    BY <2>3, <2>4 DEF WritesOnlyItsOwn, LifecycleState, StatesWith
  <2>7. StageAgrees'
    BY <2>2, <2>5, <2>6 DEF StageAgrees
  <2>8. VerifiedOnce'
    BY <2>1 DEF KernelInv, VerifiedOnce
  <2>9. ChangeInv'
    BY <1>3, RepairStep DEF KernelInv
  <2> QED
    BY <1>1, <2>4, <2>5, <2>7, <2>8, <2>9, ReturnKeeps DEF KernelInv, LeavesKnownWork
<1> QED BY <1>1, <1>2, <1>3

\* The steps of a kernel that write neither the rows nor the adapters' memory.
LEMMA KernelQuietStep ==
  ASSUME KernelInv, NEW k \in Kernels,
         Load(k) \/ Invoke(k) \/ RefuseToInvoke(k) \/ KernelCrash(k)
  PROVE  KernelInv'
<1>1. UNCHANGED vars /\ UNCHANGED recorded /\ LeavesKnownWork
  BY DEF Load, Invoke, RefuseToInvoke, KernelCrash, LeavesKnownWork, vars
<1>2. ChangeInv' /\ StageAgrees' /\ VerifiedOnce'
  BY <1>1, ChangeInvStep, StageKept DEF KernelInv
<1>3. CASE RefuseToInvoke(k) \/ KernelCrash(k)
  <2>1. StepReturns(k)
    BY <1>3 DEF RefuseToInvoke, KernelCrash
  <2> QED BY <1>1, <1>2, <2>1, ReturnKeeps DEF KernelInv
<1>4. CASE Load(k)
  <2>1. /\ Bound /\ lc \in LifecycleState
        /\ kpc' = [kpc EXCEPT ![k] = "loaded"]
        /\ kview' = [kview EXCEPT ![k] = lc]
        /\ UNCHANGED <<kout, lc>>
    BY <1>4 DEF Load, Bound, vars, KernelInv, ChangeInv, TypeOK
  <2>2. KernelTypes'
    BY <1>1, <2>1 DEF KernelInv, KernelTypes
  <2>3. KernelHolds(k)'
    BY <2>1 DEF KernelInv, KernelTypes, KernelHolds, Bound
  <2>4. ASSUME NEW j \in Kernels, j # k PROVE KernelHolds(j)'
    <3>1. kpc'[j] = kpc[j] /\ kview'[j] = kview[j] /\ kout'[j] = kout[j]
      BY <2>1, <2>4 DEF KernelInv, KernelTypes
    <3> QED BY <1>1, <3>1, HoldsKept DEF KernelInv
  <2> QED BY <1>2, <2>2, <2>3, <2>4 DEF KernelInv
<1>5. CASE Invoke(k)
  <2>1. /\ kpc[k] = "loaded" /\ kview[k].status = "Active"
        /\ kpc' = [kpc EXCEPT ![k] = "invoking"]
        /\ UNCHANGED <<kview, kout, lc>>
    BY <1>5 DEF Invoke, ReadyToInvoke, vars
  <2>2. KernelTypes'
    BY <1>1, <2>1 DEF KernelInv, KernelTypes
  <2>3. KernelHolds(k)'
    <3>1. kpc[k] # "idle" /\ kpc'[k] = "invoking"
      BY <2>1 DEF KernelInv, KernelTypes
    <3> QED BY <1>1, <2>1, <3>1 DEF KernelInv, KernelHolds, Bound, Known
  <2>4. ASSUME NEW j \in Kernels, j # k PROVE KernelHolds(j)'
    <3>1. kpc'[j] = kpc[j] /\ kview'[j] = kview[j] /\ kout'[j] = kout[j]
      BY <2>1, <2>4 DEF KernelInv, KernelTypes
    <3> QED BY <1>1, <3>1, HoldsKept DEF KernelInv
  <2> QED BY <1>2, <2>2, <2>3, <2>4 DEF KernelInv
<1> QED BY <1>3, <1>4, <1>5

\* Before the lifecycle exists no kernel is at work.
LEMMA SetupStep == KernelInv /\ Setup => KernelInv'
<1> SUFFICES ASSUME KernelInv, Setup PROVE KernelInv'
  OBVIOUS
<1>1. UNCHANGED <<kpc, kview, kout, recorded, verifs>> /\ ~Bound
  BY DEF Setup, kernelVars, RecordChangeRequest, CreateLifecycle, KernelInv, ChangeInv,
         RowsHaveOwners, Bound
<1>2. ChangeInv'
  BY RequestStep, CreateStep DEF Setup, KernelInv
<1>3. KernelTypes' /\ VerifiedOnce'
  BY <1>1 DEF KernelInv, KernelTypes, VerifiedOnce
<1>4. \A k \in Kernels : KernelHolds(k)'
  BY <1>1 DEF KernelInv, KernelHolds
<1>5. StageAgrees'
  <2>1. CASE RecordChangeRequest
    BY <1>1, <2>1 DEF RecordChangeRequest, StageAgrees, Bound
  <2>2. CASE CreateLifecycle
    BY <2>2 DEF CreateLifecycle, StageAgrees, NewLifecycle
  <2> QED BY <2>1, <2>2 DEF Setup
<1> QED BY <1>2, <1>3, <1>4, <1>5 DEF KernelInv
\* An adapter that remembers nothing and finds its phase open works on the
\* lifecycle as it is: everybody else's work would be remembered.
LEMMA FirstWorkIsCurrent ==
  ASSUME KernelInv, NEW k \in Kernels, kpc[k] = "invoking", Remembered(k) = {},
         lc.status = "Active"
  PROVE  Bound /\ kview[k] = lc /\ ~Known(lc) /\ lc \in LifecycleState /\ ~Terminal(lc)
<1>1. /\ Bound /\ kview[k].status = "Active"
      /\ kview[k] # lc /\ ~Terminal(lc) => Known(kview[k])
  BY DEF KernelInv, KernelHolds
<1>2. ~Known(kview[k])
  BY DEF Remembered, InvocationId, Known
<1>3. ~Terminal(lc)
  BY DEF Terminal, TerminalStatuses
<1> QED BY <1>1, <1>2, <1>3 DEF KernelInv, ChangeInv, TypeOK, Bound

\* An adapter writes the rows of its phase once, and remembers that it did.
LEMMA AdapterStage ==
  ASSUME KernelInv, NEW k \in Kernels, kpc[k] = "invoking", Remembered(k) = {},
         NEW outcome, AdapterWorks(k, outcome),
         recorded \subseteq recorded', [id |-> kview[k], outcome |-> outcome] \in recorded'
  PROVE  ChangeInv' /\ StageAgrees' /\ VerifiedOnce' /\ UNCHANGED lc
<1>1. CASE UNCHANGED vars
  BY <1>1, ChangeInvStep, StageKept DEF KernelInv, vars
<1>2. CASE \E patch \in PatchIds : RecordPreparedChange(patch, ExpectedRevision(kview[k]))
  <2> DEFINE revision == ExpectedRevision(kview[k])
  <2>1. PICK patch \in PatchIds : RecordPreparedChange(patch, revision)
    BY <1>2
  <2>2. revision \in 1..2
    BY DEF ExpectedRevision
  <2> HIDE DEF revision
  <2>3. ChangeInv'
    BY <2>1, <2>2, PrepareStep DEF KernelInv
  <2>4. /\ WorkerPhaseOpen("Implement") /\ MayPrepare(revision)
        /\ \A r \in 1..Len(patches) : patches[r] # patch
        /\ patches' = Append(patches, patch)
        /\ UNCHANGED <<verifs, lc>>
        /\ change'.state = "prepared" /\ change'.revision = revision
    BY <2>1 DEF RecordPreparedChange
  <2>5. lc.status = "Active" /\ lc.phase = "Implement"
    BY <2>4 DEF WorkerPhaseOpen, KernelInv, KernelHolds
  <2>6. Bound /\ kview[k] = lc
    BY <2>5, FirstWorkIsCurrent
  <2>7. Known(lc)'
    BY <2>4, <2>6 DEF Known
  <2>8. Len(patches) = revision - 1 /\ patches \in Seq(PatchIds)
    BY <2>4 DEF KernelInv, ChangeInv, TypeOK, RowsHaveOwners, RepairOnce, MayPrepare
  <2>9. LatestPatch' = patch
    BY <2>2, <2>4, <2>8 DEF LatestPatch
  <2>10. VerificationsOf(LatestPatch)' = {}
    BY <2>4, <2>9 DEF VerificationsOf, KernelInv, ChangeInv, RowsHaveOwners
  <2>11. StageAgrees'
    BY <2>4, <2>5, <2>7, <2>10 DEF StageAgrees, Unverified
  <2> QED BY <2>3, <2>4, <2>11 DEF VerifiedOnce, KernelInv
<1>3. CASE \E v \in VerificationRows : RecordVerificationArtifact(v)
  <2>1. PICK v \in VerificationRows : RecordVerificationArtifact(v)
    BY <1>3
  <2>2. ChangeInv'
    BY <2>1, VerificationStep DEF KernelInv
  <2>3. /\ WorkerPhaseOpen("Verify") /\ v.patch = LatestPatch
        /\ verifs' = verifs \cup {v} /\ UNCHANGED <<patches, lc>>
        /\ change # None /\ change' = [change EXCEPT !.state = VerdictState(v.verdict)]
    BY <2>1 DEF RecordVerificationArtifact
  <2>4. lc.status = "Active" /\ lc.phase = "Verify"
    BY <2>3 DEF WorkerPhaseOpen, KernelInv, KernelHolds
  <2>5. Bound /\ kview[k] = lc /\ ~Known(lc) /\ ~Terminal(lc)
    BY <2>4, FirstWorkIsCurrent
  <2>6. VerificationsOf(LatestPatch) = {}
    BY <2>4, <2>5 DEF KernelInv, StageAgrees, Unverified
  <2>7. \A w \in verifs : w.patch # v.patch
    BY <2>3, <2>6 DEF VerificationsOf
  <2>8. VerifiedOnce'
    BY <2>3, <2>7 DEF KernelInv, VerifiedOnce
  <2>9. change \in ChangeRows
    BY <2>3 DEF KernelInv, ChangeInv, TypeOK
  <2>10. /\ change'.state = VerdictState(v.verdict)
         /\ change'.revision = change.revision
    BY <2>3, <2>9 DEF ChangeRows
  <2>11. LatestPatch' = LatestPatch
    BY <2>3, <2>10 DEF LatestPatch
  <2>12. \A w \in VerificationsOf(LatestPatch)' : w = v
    BY <2>3, <2>7, <2>11 DEF VerificationsOf
  <2>13. Known(lc)'
    BY <2>3, <2>5 DEF Known
  <2>14. StageAgrees'
    BY <2>3, <2>4, <2>10, <2>12, <2>13 DEF StageAgrees
  <2> QED BY <2>2, <2>3, <2>8, <2>14
<1> QED BY <1>1, <1>2, <1>3 DEF AdapterWorks

\* An adapter returns to its kernel.
LEMMA AdapterStep ==
  ASSUME KernelInv, NEW k \in Kernels, AdapterReturns(k)
  PROVE  KernelInv'
<1>1. PICK outcome \in Outcomes :
        /\ \/ Remembered(k) = {} /\ AdapterWorks(k, outcome)
           \/ UNCHANGED vars
        /\ recorded' = recorded \cup {[id |-> kview[k], outcome |-> outcome]}
        /\ kout' = [kout EXCEPT ![k] = outcome]
  BY DEF AdapterReturns, InvocationId
<1>2. /\ kpc[k] = "invoking" /\ kpc' = [kpc EXCEPT ![k] = "returned"]
      /\ UNCHANGED kview
  BY DEF AdapterReturns
<1>3. /\ recorded \subseteq recorded'
      /\ [id |-> kview[k], outcome |-> outcome] \in recorded'
  BY <1>1
<1>4. ChangeInv' /\ StageAgrees' /\ VerifiedOnce' /\ UNCHANGED lc
  <2>1. CASE UNCHANGED vars
    BY <1>3, <2>1, ChangeInvStep, StageKept DEF KernelInv, vars
  <2>2. CASE Remembered(k) = {} /\ AdapterWorks(k, outcome)
    BY <1>2, <1>3, <2>2, AdapterStage
  <2> QED BY <1>1, <2>1, <2>2
<1>5. kview[k] \in LifecycleState /\ Bound /\ kview[k].status = "Active"
  BY <1>2 DEF KernelInv, KernelHolds
<1>6. KernelTypes'
  BY <1>1, <1>2, <1>5 DEF KernelInv, KernelTypes
<1>7. KernelHolds(k)'
  <2>1. kpc'[k] = "returned" /\ kout'[k] = outcome
    BY <1>1, <1>2 DEF KernelInv, KernelTypes
  <2>2. Known(kview[k])'
    BY <1>2, <1>3 DEF Known
  <2> QED BY <1>2, <1>3, <1>4, <1>5, <2>1, <2>2 DEF KernelHolds, Bound
<1>8. ASSUME NEW j \in Kernels, j # k PROVE KernelHolds(j)'
  <2>1. kpc'[j] = kpc[j] /\ kview'[j] = kview[j] /\ kout'[j] = kout[j]
    BY <1>1, <1>2, <1>8 DEF KernelInv, KernelTypes
  <2> QED BY <1>3, <1>4, <2>1, HoldsKept DEF KernelInv, LeavesKnownWork
<1> QED BY <1>4, <1>6, <1>7, <1>8 DEF KernelInv

-----------------------------------------------------------------------------
(* Execution kernels: theorems *)

\* Every step of every kernel keeps the invariant.
LEMMA KernelInvStep == KernelInv /\ [KNext]_lifecycleVars => KernelInv'
<1> SUFFICES ASSUME KernelInv, [KNext]_lifecycleVars PROVE KernelInv'
  OBVIOUS
<1>1. CASE Setup
  BY <1>1, SetupStep
<1>2. CASE Cancel \/ UNCHANGED lifecycleVars
  <2>1. /\ UNCHANGED vars /\ UNCHANGED <<kpc, kview, kout, recorded>>
        /\ LeavesKnownWork
    BY <1>2 DEF Cancel, lifecycleVars, kernelVars, LeavesKnownWork, vars
  <2>2. ChangeInv' /\ StageAgrees' /\ VerifiedOnce'
    BY <2>1, ChangeInvStep, StageKept DEF KernelInv
  <2>3. KernelTypes' /\ \A k \in Kernels : KernelHolds(k)'
    BY <2>1, HoldsKept DEF KernelInv, KernelTypes
  <2> QED BY <2>2, <2>3 DEF KernelInv
<1>3. ASSUME NEW k \in Kernels, KernelStep(k) \/ KernelCrash(k) PROVE KernelInv'
  <2>1. CASE Load(k) \/ Invoke(k) \/ RefuseToInvoke(k) \/ KernelCrash(k)
    BY <2>1, KernelQuietStep
  <2>2. CASE CancelBefore(k) \/ BudgetExhausted(k) \/ CancelAfter(k) \/ FailStep(k)
    <3>1. kpc[k] # "idle" /\ (CommitTerminal(k, "Cancel") \/ CommitTerminal(k, "Fail"))
      BY <2>2 DEF CancelBefore, BudgetExhausted, CancelAfter, FailStep
    <3> QED BY <3>1, TerminalCommitStep
  <2>3. CASE ResumeRepair(k)
    BY <2>3, ResumeStep
  <2>4. CASE AdapterReturns(k)
    BY <2>4, AdapterStep
  <2>5. CASE CommitCompletion(k)
    BY <2>5, CompletionStep
  <2> QED BY <1>3, <2>1, <2>2, <2>3, <2>4, <2>5 DEF KernelStep
<1> QED BY <1>1, <1>2, <1>3 DEF KNext

\* However many kernels step, crash and retry, the lifecycle, the change and the
\* memory of the adapters agree.
THEOREM KernelInvariant == KSpec => []KernelInv
<1>1. KInit => KernelInv
  <2> SUFFICES ASSUME KInit PROVE KernelInv
    OBVIOUS
  <2>1. ChangeInv /\ StageAgrees /\ VerifiedOnce
    BY ChangeInvInit DEF KInit, Init, StageAgrees, VerifiedOnce, Bound
  <2>2. KernelTypes /\ \A k \in Kernels : KernelHolds(k)
    BY DEF KInit, KernelTypes, KernelHolds
  <2> QED BY <2>1, <2>2 DEF KernelInv
<1> QED BY <1>1, KernelInvStep, PTL DEF KSpec

\* The kernels and the adapters hold values of their types.
THEOREM KernelsTyped == KSpec => []KTypeOK
<1>1. KernelInv => KTypeOK
  BY DEF KernelInv, ChangeInv, KernelTypes, KTypeOK
<1> QED BY <1>1, KernelInvariant, PTL

\* A reserved repair can be consumed (begin_change_repair): the change still
\* waits for it, and the verification that asked for it is the latest one.
THEOREM ReservedRepairsWait == KSpec => []ReservationConsumable
<1>1. KernelInv => ReservationConsumable
  <2> SUFFICES ASSUME KernelInv, Bound, lc.status = "RepairReserved"
               PROVE  /\ RepairAllowed
                      /\ \E v \in VerificationsOf(LatestPatch) :
                           /\ IsLatest(v, VerificationsOf(LatestPatch))
                           /\ lc.verification.id = v.id
    BY DEF ReservationConsumable
  <2>1. lc \in LifecycleState /\ Good(lc) /\ ~Terminal(lc)
    BY DEF KernelInv, ChangeInv, TypeOK, LifecycleIsGood, Bound, Terminal,
           TerminalStatuses
  <2>2. /\ ActiveShape(lc) /\ ArtifactChain(lc)
    BY <2>1 DEF Good, Validate, StatusShape
  <2>3. /\ lc.verification # None /\ ~lc.repair_consumed
        /\ lc.patch # None /\ lc.verification.patch = lc.patch.id
        /\ lc.patch.revision = 1
    BY <2>2 DEF ActiveShape, ArtifactChain, ExpectedRevision
  <2>4. /\ lc.patch = [id |-> LatestPatch, revision |-> change.revision]
        /\ ~change.attempted
    BY <2>3 DEF KernelInv, ChangeInv, BoundAgreement
  <2>5. RepairAllowed
    BY <2>1, <2>3, <2>4 DEF RepairAllowed, KernelInv, StageAgrees
  <2>6. PICK v \in verifs :
          lc.verification = [id |-> v.id, patch |-> v.patch, verdict |-> v.verdict]
    BY <2>3 DEF KernelInv, ChangeInv, BoundAgreement
  <2>7. v \in VerificationsOf(LatestPatch) /\ lc.verification.id = v.id
    BY <2>3, <2>4, <2>6 DEF VerificationsOf
  <2>8. \A w \in VerificationsOf(LatestPatch) : w = v
    BY <2>7 DEF VerificationsOf, KernelInv, VerifiedOnce
  <2>9. v.id \in Nat
    BY OrderAssumption DEF KernelInv, ChangeInv, TypeOK, VerificationRows
  <2>10. IsLatest(v, VerificationsOf(LatestPatch))
    BY <2>7, <2>8, <2>9 DEF IsLatest
  <2> QED BY <2>5, <2>7, <2>10
<1> QED BY <1>1, KernelInvariant, PTL

\* Work is neither repeated nor lost: one lifecycle state yields at most one
\* patch and one verification, and what a crash left without its transition is
\* remembered under the invocation the next kernel makes.
THEOREM NoWorkRepeated == KSpec => []WorkDoneOnce
<1>1. KernelInv => WorkDoneOnce
  <2> SUFFICES ASSUME KernelInv PROVE WorkDoneOnce
    OBVIOUS
  <2>1. \A v, w \in verifs : v.patch = w.patch => v = w
    BY DEF KernelInv, VerifiedOnce
  <2>2. ASSUME Bound, lc.phase = "Implement", ~lc.repair_consumed
        PROVE  change.revision <= 1
    <3>1. change # None /\ change \in ChangeRows /\ ~change.attempted
      BY <2>2 DEF KernelInv, ChangeInv, TypeOK, RowsHaveOwners, BoundAgreement, Bound
    <3>2. change.revision \in 0..2 /\ change.revision # 2
      BY <3>1 DEF KernelInv, ChangeInv, RepairOnce, ChangeRows
    <3> QED BY <3>2
  <2>3. ASSUME Bound, ~Terminal(lc), lc.phase = "Implement", change.state = "prepared"
        PROVE  Known(lc)
    BY <2>3 DEF KernelInv, StageAgrees
  <2>4. ASSUME Bound, ~Terminal(lc), lc.phase = "Verify", lc.status = "Active",
               VerificationsOf(LatestPatch) # {}
        PROVE  Known(lc)
    BY <2>4 DEF KernelInv, StageAgrees, Unverified
  <2> QED BY <2>1, <2>2, <2>3, <2>4 DEF WorkDoneOnce, Known
<1> QED BY <1>1, KernelInvariant, PTL
=============================================================================
