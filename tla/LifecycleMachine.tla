-------------------------- MODULE LifecycleMachine --------------------------
(***************************************************************************)
(* The development lifecycle of a change as a pure state machine:          *)
(* crates/needle-core/src/lifecycle.rs and lifecycle/model.rs.             *)
(*                                                                         *)
(* A lifecycle state is a record.  The parent proposes a transition, also  *)
(* a record, and the machine answers with the next state or an error.      *)
(* Guard(s, t) is what apply_transition checks, Transition(s, t) the state *)
(* it builds, and Accepted(s, t) says that transition() returns Ok, which  *)
(* also needs validate() to accept the state that was built.               *)
(*                                                                         *)
(* Abstractions.  Identifiers and digests of immutable inputs are model    *)
(* values; a state digest is the state itself (blake3 taken as injective). *)
(* The three budget dimensions are checked by one conjunction in the code  *)
(* and are one number here; an overflow of checked_add is a sum above the  *)
(* budget.  Reasons, sizes in bytes and timestamps only ever refuse a      *)
(* transition, which leaves the state alone; they are left out.            *)
(***************************************************************************)
EXTENDS Integers, Sequences

CONSTANTS
  None,              \* Option::None
  PatchIds,          \* patch identities
  VerificationIds,   \* verification artifact identities
  ApplyIds,          \* apply journal identities
  Profiles,          \* role profile revisions
  FrozenProfile,     \* spec.profiles: worker phase -> profile
  TestPlanCount,     \* spec.test_plans.len()
  MaxWorkerTurns     \* spec.budget.max_worker_turns

MAX_LIFECYCLE_EVENTS == 16
MAX_LIFECYCLE_ARTIFACT_REFS == 32
MAX_LIFECYCLE_TEST_PLANS == 4

WorkerPhases == {"Explore", "Implement", "Test", "Review", "Verify"}
Phases == WorkerPhases \cup {"Apply"}

TerminalStatuses ==
  {"Completed", "Failed", "Cancelled", "Inconclusive", "RolledBack"}
Statuses ==
  {"Active", "RepairReserved", "AwaitingApproval", "Approved", "Applying"}
    \cup TerminalStatuses
TerminalOutcomes ==
  {"Applied", "Failed", "Cancelled", "Inconclusive", "RolledBack",
   "RollbackFailed", "RecoveryConflict"}

\* available and executed and passed | available and executed, not passed
\* | not available or not executed.
TestOutcomes == {"passed", "failed", "unavailable"}
ReviewVerdicts == {"Approved", "Rejected", "Inconclusive"}
VerificationVerdicts == {"Verified", "Rejected", "Repairable", "Inconclusive"}
FinishedApply == {"Applied", "RolledBack", "RollbackFailed", "RecoveryConflict"}

\* LifecycleSpec::validate: nothing else is ever bound to a lifecycle.
ASSUME SpecAssumption ==
  /\ TestPlanCount \in 1..MAX_LIFECYCLE_TEST_PLANS
  /\ MaxWorkerTurns \in Nat \ {0}
  /\ FrozenProfile \in [WorkerPhases -> Profiles]

\* None is not an identity.
ASSUME NoneAssumption ==
  /\ None \notin PatchIds \cup VerificationIds \cup ApplyIds
  /\ None \notin TerminalOutcomes

-----------------------------------------------------------------------------
(* Data *)

PatchRefs == [id : PatchIds, revision : {1, 2}]
Reviews == [patch : PatchIds, verdict : ReviewVerdicts]
Verifications ==
  [id : VerificationIds, patch : PatchIds, verdict : VerificationVerdicts]

\* DevelopmentLifecycle, for a given set of possible approvals.
StatesWith(approvals) ==
  [phase : Phases,
   status : Statuses,
   outcome : TerminalOutcomes \cup {None},
   generation : Nat,
   usage : Nat,
   exploration : Seq(Nat),
   patch : PatchRefs \cup {None},
   tests : Seq(TestOutcomes),
   review : Reviews \cup {None},
   verification : Verifications \cup {None},
   repair_reserved : BOOLEAN,
   repair_consumed : BOOLEAN,
   approval : approvals,
   apply_id : ApplyIds \cup {None}]

\* LifecycleApplyApproval: the digest it names is a state without approval.
Approvals ==
  [digest : StatesWith({None}), patch : PatchIds, verification : VerificationIds]

LifecycleState == StatesWith(Approvals \cup {None})

\* None is not a value of any optional field either.
ASSUME NoneIsNotData ==
  /\ None \notin PatchRefs
  /\ None \notin Reviews
  /\ None \notin Verifications
  /\ None \notin Approvals
  /\ None \notin LifecycleState

\* blake3 over the serialized state
StateDigest(s) == s

\* DevelopmentLifecycle::new
NewLifecycle ==
  [phase |-> "Explore", status |-> "Active", outcome |-> None,
   generation |-> 0, usage |-> 0, exploration |-> <<>>, patch |-> None,
   tests |-> <<>>, review |-> None, verification |-> None,
   repair_reserved |-> FALSE, repair_consumed |-> FALSE,
   approval |-> None, apply_id |-> None]

Terminal(s) == s.status \in TerminalStatuses

\* LifecycleTransition
WorkerCompletions ==
  [depth : Nat, spawns : Nat, profile : Profiles, turns : Nat]

Transitions ==
  [kind : {"CompleteExplore"}, worker : WorkerCompletions, artifacts : Seq(Nat)]
    \cup
  [kind : {"CompleteImplement"}, worker : WorkerCompletions, patch : PatchRefs]
    \cup
  [kind : {"CompleteTest"}, worker : WorkerCompletions, results : Seq(TestOutcomes)]
    \cup
  [kind : {"CompleteReview"}, worker : WorkerCompletions, review : Reviews]
    \cup
  [kind : {"CompleteVerify"}, worker : WorkerCompletions,
   verification : Verifications]
    \cup
  [kind : {"ApproveApply"}, approval : Approvals]
    \cup
  [kind : {"StartApply"}, apply_id : ApplyIds]
    \cup
  [kind : {"FinishApply"}, apply_id : ApplyIds, status : FinishedApply]
    \cup
  [kind : {"ConsumeRepair", "Cancel", "Fail"}]

-----------------------------------------------------------------------------
(* validate() *)

ExpectedRevision(s) == IF s.repair_consumed THEN 2 ELSE 1

AllPassed(tests) == \A i \in 1..Len(tests) : tests[i] = "passed"

StrictlySorted(ids) == \A i \in 1..(Len(ids) - 1) : ids[i] < ids[i + 1]

\* validate_artifact_chain
ArtifactChain(s) ==
  /\ Len(s.exploration) <= MAX_LIFECYCLE_ARTIFACT_REFS
  /\ StrictlySorted(s.exploration)
  /\ s.patch # None =>
       /\ s.exploration # <<>>
       /\ s.patch.revision = ExpectedRevision(s)
  /\ s.patch = None =>
       /\ s.tests = <<>>
       /\ s.review = None
       /\ s.verification = None
       /\ s.approval = None
       /\ s.apply_id = None
  /\ s.tests # <<>> => Len(s.tests) = TestPlanCount
  /\ s.review # None =>
       /\ AllPassed(s.tests)
       /\ Len(s.tests) = TestPlanCount
       /\ s.review.patch = s.patch.id
  /\ s.verification # None =>
       /\ s.review # None
       /\ s.review.verdict = "Approved"
       /\ s.verification.patch = s.patch.id
  /\ s.approval # None =>
       /\ s.verification # None
       /\ s.verification.verdict = "Verified"
       /\ s.approval.patch = s.patch.id
       /\ s.approval.verification = s.verification.id
  /\ s.apply_id # None => s.approval # None

TerminalShapes ==
  {<<"Completed", "Applied">>, <<"Failed", "Failed">>,
   <<"Failed", "RollbackFailed">>, <<"Failed", "RecoveryConflict">>,
   <<"Cancelled", "Cancelled">>, <<"Inconclusive", "Inconclusive">>,
   <<"RolledBack", "RolledBack">>}

\* validate_status_shape, the terminal half
TerminalShape(s) ==
  /\ <<s.status, s.outcome>> \in TerminalShapes
  /\ ~s.repair_reserved
  /\ s.outcome \in FinishedApply => s.phase = "Apply" /\ s.apply_id # None

\* validate_status_shape, the other half
ActiveShape(s) ==
  \/ /\ s.phase = "Explore" /\ s.status = "Active"
     /\ s.exploration = <<>> /\ s.patch = None /\ ~s.repair_consumed
  \/ /\ s.phase = "Implement" /\ s.status = "Active"
     /\ s.exploration # <<>> /\ s.patch = None
     /\ s.tests = <<>> /\ s.review = None /\ s.verification = None
  \/ /\ s.phase = "Test" /\ s.status = "Active"
     /\ s.patch # None
     /\ s.tests = <<>> /\ s.review = None /\ s.verification = None
  \/ /\ s.phase = "Review" /\ s.status = "Active"
     /\ Len(s.tests) = TestPlanCount /\ AllPassed(s.tests)
     /\ s.review = None /\ s.verification = None
  \/ /\ s.phase = "Verify" /\ s.status = "Active"
     /\ s.review # None /\ s.review.verdict = "Approved"
     /\ s.verification = None /\ ~s.repair_reserved
  \/ /\ s.phase = "Verify" /\ s.status = "RepairReserved"
     /\ s.verification # None /\ s.verification.verdict = "Repairable"
     /\ s.repair_reserved /\ ~s.repair_consumed
  \/ /\ s.phase = "Apply" /\ s.status = "AwaitingApproval"
     /\ s.verification # None /\ s.verification.verdict = "Verified"
     /\ s.approval = None /\ s.apply_id = None
  \/ /\ s.phase = "Apply" /\ s.status = "Approved"
     /\ s.approval # None /\ s.apply_id = None
  \/ /\ s.phase = "Apply" /\ s.status = "Applying"
     /\ s.approval # None /\ s.apply_id # None

StatusShape(s) == IF Terminal(s) THEN TerminalShape(s) ELSE ActiveShape(s)

\* DevelopmentLifecycle::validate
Validate(s) ==
  /\ s.usage <= MaxWorkerTurns
  /\ s.generation < MAX_LIFECYCLE_EVENTS
  /\ Terminal(s) <=> s.outcome # None
  /\ ~(s.repair_reserved /\ s.repair_consumed)
  /\ ArtifactChain(s)
  /\ StatusShape(s)

-----------------------------------------------------------------------------
(* apply_transition(): one guard and one update per transition *)

\* require_active_phase
ActivePhase(s, phase) == s.phase = phase /\ s.status = "Active"

\* accept_worker
AcceptWorker(s, phase, worker) ==
  /\ worker.depth = 1
  /\ worker.spawns = 1
  /\ worker.turns > 0
  /\ worker.profile = FrozenProfile[phase]
  /\ s.usage + worker.turns <= MaxWorkerTurns

\* Fault: a terminal lifecycle keeps its repair reservation.
KeepReservation(s, status, outcome) ==
  [s EXCEPT !.status = status, !.outcome = outcome]

\* finish_terminal
FinishTerminal(s, status, outcome) ==
  [s EXCEPT !.repair_reserved = FALSE, !.status = status, !.outcome = outcome]

Spend(s, worker) == [s EXCEPT !.usage = @ + worker.turns]

CanCompleteExplore(s, t) ==
  /\ ActivePhase(s, "Explore")
  /\ AcceptWorker(s, "Explore", t.worker)
  /\ t.artifacts # <<>> /\ Len(t.artifacts) <= MAX_LIFECYCLE_ARTIFACT_REFS
  /\ \A i, j \in 1..Len(t.artifacts) : t.artifacts[i] = t.artifacts[j] => i = j
CompleteExplore(s, t) ==
  [Spend(s, t.worker) EXCEPT !.exploration = t.artifacts, !.phase = "Implement"]

CanCompleteImplement(s, t) ==
  /\ ActivePhase(s, "Implement")
  /\ AcceptWorker(s, "Implement", t.worker)
  /\ t.patch.revision = ExpectedRevision(s)
CompleteImplement(s, t) ==
  [Spend(s, t.worker) EXCEPT
     !.patch = t.patch, !.tests = <<>>, !.review = None, !.verification = None,
     !.approval = None, !.apply_id = None, !.phase = "Test"]

CanCompleteTest(s, t) ==
  /\ ActivePhase(s, "Test")
  /\ AcceptWorker(s, "Test", t.worker)
  /\ Len(t.results) = TestPlanCount
CompleteTest(s, t) ==
  LET tested == [Spend(s, t.worker) EXCEPT !.tests = t.results]
      Some(outcome) == \E i \in 1..Len(t.results) : t.results[i] = outcome
  IN  IF Some("unavailable")
        THEN FinishTerminal(tested, "Inconclusive", "Inconclusive")
      ELSE IF Some("failed") THEN FinishTerminal(tested, "Failed", "Failed")
      ELSE [tested EXCEPT !.phase = "Review"]

CanCompleteReview(s, t) ==
  /\ ActivePhase(s, "Review")
  /\ AcceptWorker(s, "Review", t.worker)
  /\ s.patch # None
  /\ t.review.patch = s.patch.id
CompleteReview(s, t) ==
  LET reviewed == [Spend(s, t.worker) EXCEPT !.review = t.review]
  IN  CASE t.review.verdict = "Approved" -> [reviewed EXCEPT !.phase = "Verify"]
        [] t.review.verdict = "Rejected" ->
             FinishTerminal(reviewed, "Failed", "Failed")
        [] t.review.verdict = "Inconclusive" ->
             FinishTerminal(reviewed, "Inconclusive", "Inconclusive")

CanCompleteVerify(s, t) ==
  /\ ActivePhase(s, "Verify")
  /\ AcceptWorker(s, "Verify", t.worker)
  /\ s.patch # None
  /\ t.verification.patch = s.patch.id
CompleteVerify(s, t) ==
  LET checked == [Spend(s, t.worker) EXCEPT !.verification = t.verification]
  IN  CASE t.verification.verdict = "Verified" ->
             [checked EXCEPT !.phase = "Apply", !.status = "AwaitingApproval"]
        [] t.verification.verdict = "Repairable" ->
             IF s.repair_reserved \/ s.repair_consumed
               THEN FinishTerminal(checked, "Failed", "Failed")
               ELSE [checked EXCEPT !.status = "RepairReserved",
                                    !.repair_reserved = TRUE]
        [] t.verification.verdict = "Rejected" ->
             FinishTerminal(checked, "Failed", "Failed")
        [] t.verification.verdict = "Inconclusive" ->
             FinishTerminal(checked, "Inconclusive", "Inconclusive")

CanConsumeRepair(s) ==
  /\ s.phase = "Verify" /\ s.status = "RepairReserved"
  /\ s.repair_reserved /\ ~s.repair_consumed
ConsumeRepair(s) ==
  [s EXCEPT
     !.repair_reserved = FALSE, !.repair_consumed = TRUE,
     !.phase = "Implement", !.status = "Active",
     !.patch = None, !.tests = <<>>, !.review = None, !.verification = None,
     !.approval = None, !.apply_id = None]

CanApproveApply(s, t) ==
  /\ s.phase = "Apply" /\ s.status = "AwaitingApproval"
  /\ s.patch # None /\ s.verification # None
  /\ t.approval.digest = StateDigest(s)
  /\ t.approval.patch = s.patch.id
  /\ t.approval.verification = s.verification.id
ApproveApply(s, t) == [s EXCEPT !.approval = t.approval, !.status = "Approved"]

CanStartApply(s) == s.phase = "Apply" /\ s.status = "Approved"
StartApply(s, t) == [s EXCEPT !.apply_id = t.apply_id, !.status = "Applying"]

CanFinishApply(s, t) ==
  /\ s.phase = "Apply" /\ s.status = "Applying"
  /\ s.apply_id = t.apply_id
FinishApply(s, t) ==
  CASE t.status = "Applied" -> FinishTerminal(s, "Completed", "Applied")
    [] t.status = "RolledBack" -> FinishTerminal(s, "RolledBack", "RolledBack")
    [] t.status = "RollbackFailed" ->
         FinishTerminal(s, "Failed", "RollbackFailed")
    [] t.status = "RecoveryConflict" ->
         FinishTerminal(s, "Failed", "RecoveryConflict")

\* What apply_transition checks before it changes anything.
Guard(s, t) ==
  \/ t.kind = "CompleteExplore"   /\ CanCompleteExplore(s, t)
  \/ t.kind = "CompleteImplement" /\ CanCompleteImplement(s, t)
  \/ t.kind = "CompleteTest"      /\ CanCompleteTest(s, t)
  \/ t.kind = "CompleteReview"    /\ CanCompleteReview(s, t)
  \/ t.kind = "CompleteVerify"    /\ CanCompleteVerify(s, t)
  \/ t.kind = "ConsumeRepair"     /\ CanConsumeRepair(s)
  \/ t.kind = "ApproveApply"      /\ CanApproveApply(s, t)
  \/ t.kind = "StartApply"        /\ CanStartApply(s)
  \/ t.kind = "FinishApply"       /\ CanFinishApply(s, t)
  \/ t.kind \in {"Cancel", "Fail"} /\ s.status # "Applying"

ApplyTransition(s, t) ==
  CASE t.kind = "CompleteExplore"   -> CompleteExplore(s, t)
    [] t.kind = "CompleteImplement" -> CompleteImplement(s, t)
    [] t.kind = "CompleteTest"      -> CompleteTest(s, t)
    [] t.kind = "CompleteReview"    -> CompleteReview(s, t)
    [] t.kind = "CompleteVerify"    -> CompleteVerify(s, t)
    [] t.kind = "ConsumeRepair"     -> ConsumeRepair(s)
    [] t.kind = "ApproveApply"      -> ApproveApply(s, t)
    [] t.kind = "StartApply"        -> StartApply(s, t)
    [] t.kind = "FinishApply"       -> FinishApply(s, t)
    [] t.kind = "Cancel" -> FinishTerminal(s, "Cancelled", "Cancelled")
    [] t.kind = "Fail"   -> FinishTerminal(s, "Failed", "Failed")

\* Fault: the generation stands still.
GenerationForgotten(s, t) == ApplyTransition(s, t)

\* The state transition() builds: apply_transition, then the generation.
Transition(s, t) == [ApplyTransition(s, t) EXCEPT !.generation = @ + 1]

\* Fault: a terminal lifecycle accepts transitions.
AcceptedWhenTerminal(s, t) ==
  Validate(s) /\ Guard(s, t) /\ Validate(Transition(s, t))

\* transition() returns Ok.
Accepted(s, t) ==
  /\ Validate(s)
  /\ ~Terminal(s)
  /\ Guard(s, t)
  /\ Validate(Transition(s, t))

\* Fault: the prior digest is taken after the transition.
EventTooLate(s, t) ==
  [transition |-> t, prior |-> StateDigest(Transition(s, t)),
   result |-> StateDigest(Transition(s, t))]

\* LifecycleEvent: the transition between the digests it was recorded with.
Event(s, t) ==
  [transition |-> t, prior |-> StateDigest(s),
   result |-> StateDigest(Transition(s, t))]

\* DevelopmentLifecycle::replay, None for its errors.
Replay(events) ==
  LET current[n \in 0..Len(events)] ==
        IF n = 0 THEN NewLifecycle
        ELSE LET before == current[n - 1]
                 event == events[n]
             IN  IF /\ before # None
                    /\ event.prior = StateDigest(before)
                    /\ Accepted(before, event.transition)
                    /\ event = Event(before, event.transition)
                 THEN Transition(before, event.transition)
                 ELSE None
  IN  current[Len(events)]

\* How many transitions lead to a non-terminal state.
Progress(s) ==
  LET leg == CASE s.phase = "Explore" -> 0
               [] s.phase = "Implement" -> 1
               [] s.phase = "Test" -> 2
               [] s.phase = "Review" -> 3
               [] s.phase = "Verify" -> IF s.status = "Active" THEN 4 ELSE 5
               [] s.phase = "Apply" ->
                    CASE s.status = "AwaitingApproval" -> 5
                      [] s.status = "Approved" -> 6
                      [] OTHER -> 7
  IN  IF s.repair_consumed THEN leg + 5 ELSE leg

MaxGeneration == 13

=============================================================================
