----------------------- MODULE LifecycleMachineProofs -----------------------
(***************************************************************************)
(* Theorems about LifecycleMachine, for every value of its constants: what *)
(* the guards of apply_transition let through is a valid state.            *)
(***************************************************************************)
EXTENDS LifecycleMachine, TLAPS

\* The inductive strengthening of validate(): the repair flag is only up in
\* the status that announces it, and the generation counts progress.
Good(s) ==
  /\ Validate(s)
  /\ s.repair_reserved => s.status = "RepairReserved"
  /\ ~Terminal(s) => s.generation = Progress(s)
  /\ s.generation <= MaxGeneration

-----------------------------------------------------------------------------
(* Facts used by every transition *)

\* A non-terminal state is at most the twelfth after creation.
LEMMA ProgressBound ==
  ASSUME NEW s \in LifecycleState, Good(s), ~Terminal(s)
  PROVE  s.generation <= 12
<1>1. s.generation = Progress(s) /\ ActiveShape(s)
  BY DEF Good, Validate, StatusShape
<1> QED BY <1>1 DEF Progress, ActiveShape

\* What an active worker phase says about the rest of the state.
LEMMA ActiveFacts ==
  ASSUME NEW s \in LifecycleState, Good(s), s.status = "Active"
  PROVE  /\ ~Terminal(s) /\ s.outcome = None
         /\ ~s.repair_reserved
         /\ ArtifactChain(s) /\ ActiveShape(s)
         /\ s.generation = Progress(s) /\ s.generation <= 12
         /\ s.verification = None /\ s.approval = None /\ s.apply_id = None
<1>1. ~Terminal(s)
  BY DEF Terminal, TerminalStatuses
<1>2. ArtifactChain(s) /\ ActiveShape(s) /\ s.outcome = None
  BY <1>1 DEF Good, Validate, StatusShape
<1>3. s.verification = None
  BY <1>2 DEF ActiveShape, ArtifactChain
<1>4. s.approval = None /\ s.apply_id = None
  BY <1>2, <1>3 DEF ArtifactChain
<1> QED BY <1>1, <1>2, <1>3, <1>4, ProgressBound DEF Good

\* finish_terminal keeps the state valid.
LEMMA TerminalStep ==
  ASSUME NEW s \in LifecycleState, NEW status, NEW outcome,
         <<status, outcome>> \in TerminalShapes,
         outcome \in FinishedApply => s.phase = "Apply" /\ s.apply_id # None,
         ArtifactChain(s), s.usage <= MaxWorkerTurns, s.generation <= 12,
         NEW n, n = [FinishTerminal(s, status, outcome)
                       EXCEPT !.generation = @ + 1]
  PROVE  n \in LifecycleState /\ Good(n)
<1>1. /\ status \in TerminalStatuses /\ status \in Statuses
      /\ outcome \in TerminalOutcomes /\ outcome # None
  BY NoneAssumption
     DEF TerminalShapes, TerminalStatuses, Statuses, TerminalOutcomes
<1>2. /\ n \in LifecycleState
      /\ n.phase = s.phase /\ n.status = status /\ n.outcome = outcome
      /\ n.generation = s.generation + 1 /\ n.usage = s.usage
      /\ n.exploration = s.exploration /\ n.patch = s.patch
      /\ n.tests = s.tests /\ n.review = s.review
      /\ n.verification = s.verification /\ n.repair_reserved = FALSE
      /\ n.repair_consumed = s.repair_consumed
      /\ n.approval = s.approval /\ n.apply_id = s.apply_id
  <2>1. n = [s EXCEPT !.repair_reserved = FALSE, !.status = status,
                      !.outcome = outcome, !.generation = s.generation + 1]
    BY DEF FinishTerminal, LifecycleState, StatesWith
  <2>2. s.generation + 1 \in Nat
    BY DEF LifecycleState, StatesWith
  <2> QED BY <1>1, <2>1, <2>2 DEF LifecycleState, StatesWith
<1>3. ArtifactChain(n)
  BY <1>2 DEF ArtifactChain, ExpectedRevision
<1>4. Terminal(n) /\ TerminalShape(n)
  BY <1>1, <1>2 DEF Terminal, TerminalShape
<1>5. s.generation \in Nat
  BY DEF LifecycleState, StatesWith
<1> QED
  BY <1>1, <1>2, <1>3, <1>4, <1>5
     DEF Good, Validate, StatusShape, MaxGeneration, MAX_LIFECYCLE_EVENTS

-----------------------------------------------------------------------------
(* One lemma per transition: what the guard lets through is valid *)

\* CompleteExplore with a sorted artifact list.
LEMMA ExploreStep ==
  ASSUME NEW s \in LifecycleState, Good(s),
         NEW t \in [kind : {"CompleteExplore"}, worker : WorkerCompletions,
                    artifacts : Seq(Nat)],
         CanCompleteExplore(s, t), StrictlySorted(t.artifacts)
  PROVE  Transition(s, t) \in LifecycleState /\ Good(Transition(s, t))
<1> DEFINE n == [s EXCEPT !.usage = s.usage + t.worker.turns,
                          !.exploration = t.artifacts, !.phase = "Implement",
                          !.generation = s.generation + 1]
<1>1. Transition(s, t) = n
  BY DEF Transition, ApplyTransition, CompleteExplore, Spend, LifecycleState,
         StatesWith
<1>2. /\ n \in LifecycleState
      /\ n.phase = "Implement" /\ n.status = s.status /\ n.outcome = s.outcome
      /\ n.generation = s.generation + 1 /\ n.usage = s.usage + t.worker.turns
      /\ n.exploration = t.artifacts /\ n.patch = s.patch /\ n.tests = s.tests
      /\ n.review = s.review /\ n.verification = s.verification
      /\ n.repair_reserved = s.repair_reserved
      /\ n.repair_consumed = s.repair_consumed
      /\ n.approval = s.approval /\ n.apply_id = s.apply_id
  <2>1. /\ s.usage + t.worker.turns \in Nat
        /\ s.generation + 1 \in Nat
        /\ "Implement" \in Phases
    BY DEF LifecycleState, StatesWith, WorkerCompletions, Phases, WorkerPhases
  <2> QED BY <2>1 DEF LifecycleState, StatesWith
<1> HIDE DEF n
<1>3. /\ s.phase = "Explore" /\ s.status = "Active"
      /\ s.usage + t.worker.turns <= MaxWorkerTurns
      /\ t.artifacts # <<>> /\ Len(t.artifacts) <= 32
  BY DEF CanCompleteExplore, AcceptWorker, ActivePhase,
         MAX_LIFECYCLE_ARTIFACT_REFS
<1>5. /\ s.patch = None /\ ~s.repair_consumed
      /\ s.tests = <<>> /\ s.review = None
      /\ s.generation = 0
  BY <1>3, ActiveFacts DEF ActiveShape, ArtifactChain, Progress
<1>6. ArtifactChain(n)
  BY <1>2, <1>3, <1>5, ActiveFacts
     DEF ArtifactChain, MAX_LIFECYCLE_ARTIFACT_REFS
<1>7. ~Terminal(n) /\ ActiveShape(n)
  BY <1>2, <1>3, <1>5, ActiveFacts
     DEF ActiveShape, Terminal, TerminalStatuses
<1>8. Good(n)
  BY <1>2, <1>3, <1>5, <1>6, <1>7, ActiveFacts
     DEF Good, Validate, StatusShape, Progress, MaxGeneration,
         MAX_LIFECYCLE_EVENTS
<1> QED BY <1>1, <1>2, <1>8

\* CompleteImplement.
LEMMA ImplementStep ==
  ASSUME NEW s \in LifecycleState, Good(s),
         NEW t \in [kind : {"CompleteImplement"}, worker : WorkerCompletions,
                    patch : PatchRefs],
         CanCompleteImplement(s, t)
  PROVE  Transition(s, t) \in LifecycleState /\ Good(Transition(s, t))
<1> DEFINE n == [s EXCEPT !.usage = s.usage + t.worker.turns,
                          !.patch = t.patch, !.tests = <<>>, !.review = None,
                          !.verification = None, !.approval = None,
                          !.apply_id = None, !.phase = "Test",
                          !.generation = s.generation + 1]
<1>1. Transition(s, t) = n
  BY DEF Transition, ApplyTransition, CompleteImplement, Spend, LifecycleState,
         StatesWith
<1>2. /\ n \in LifecycleState
      /\ n.phase = "Test" /\ n.status = s.status /\ n.outcome = s.outcome
      /\ n.generation = s.generation + 1 /\ n.usage = s.usage + t.worker.turns
      /\ n.exploration = s.exploration /\ n.patch = t.patch /\ n.tests = <<>>
      /\ n.review = None /\ n.verification = None
      /\ n.repair_reserved = s.repair_reserved
      /\ n.repair_consumed = s.repair_consumed
      /\ n.approval = None /\ n.apply_id = None
  <2>1. /\ s.usage + t.worker.turns \in Nat
        /\ s.generation + 1 \in Nat
        /\ "Test" \in Phases
        /\ <<>> \in Seq(TestOutcomes)
    BY DEF LifecycleState, StatesWith, WorkerCompletions, Phases, WorkerPhases
  <2> QED BY <2>1 DEF LifecycleState, StatesWith
<1> HIDE DEF n
<1>3. /\ s.phase = "Implement" /\ s.status = "Active"
      /\ s.usage + t.worker.turns <= MaxWorkerTurns
      /\ t.patch.revision = ExpectedRevision(s)
      /\ t.patch # None
  BY NoneIsNotData
     DEF CanCompleteImplement, AcceptWorker, ActivePhase
<1>4. s.exploration # <<>>
  BY <1>3, ActiveFacts DEF ActiveShape
<1>6. ArtifactChain(n)
  BY <1>2, <1>3, <1>4, ActiveFacts DEF ArtifactChain, ExpectedRevision
<1>7. ~Terminal(n) /\ ActiveShape(n)
  BY <1>2, <1>3 DEF ActiveShape, Terminal, TerminalStatuses
<1>8. Good(n)
  BY <1>2, <1>3, <1>6, <1>7, ActiveFacts
     DEF Good, Validate, StatusShape, Progress, MaxGeneration,
         MAX_LIFECYCLE_EVENTS
<1> QED BY <1>1, <1>2, <1>8

\* CompleteTest: passed results go to review, others are terminal.
LEMMA TestStep ==
  ASSUME NEW s \in LifecycleState, Good(s),
         NEW t \in [kind : {"CompleteTest"}, worker : WorkerCompletions,
                    results : Seq(TestOutcomes)],
         CanCompleteTest(s, t)
  PROVE  Transition(s, t) \in LifecycleState /\ Good(Transition(s, t))
<1> DEFINE tested == [Spend(s, t.worker) EXCEPT !.tests = t.results]
           Some(outcome) ==
             \E i \in 1..Len(t.results) : t.results[i] = outcome
<1>1. /\ tested \in LifecycleState
      /\ tested.phase = s.phase /\ tested.status = s.status
      /\ tested.outcome = s.outcome /\ tested.generation = s.generation
      /\ tested.usage = s.usage + t.worker.turns
      /\ tested.exploration = s.exploration /\ tested.patch = s.patch
      /\ tested.tests = t.results /\ tested.review = s.review
      /\ tested.verification = s.verification
      /\ tested.repair_reserved = s.repair_reserved
      /\ tested.repair_consumed = s.repair_consumed
      /\ tested.approval = s.approval /\ tested.apply_id = s.apply_id
  <2>1. s.usage + t.worker.turns \in Nat
    BY DEF LifecycleState, StatesWith, WorkerCompletions
  <2> QED BY <2>1 DEF Spend, LifecycleState, StatesWith
<1> HIDE DEF tested
<1>2. /\ s.phase = "Test" /\ s.status = "Active"
      /\ s.usage + t.worker.turns <= MaxWorkerTurns
      /\ Len(t.results) = TestPlanCount
  BY DEF CanCompleteTest, AcceptWorker, ActivePhase
<1>3. s.review = None /\ s.patch # None
  BY <1>2, ActiveFacts DEF ActiveShape
<1>4. ArtifactChain(tested)
  BY <1>1, <1>2, <1>3, ActiveFacts DEF ArtifactChain, ExpectedRevision
<1>5. /\ <<"Inconclusive", "Inconclusive">> \in TerminalShapes
      /\ <<"Failed", "Failed">> \in TerminalShapes
      /\ "Inconclusive" \notin FinishedApply /\ "Failed" \notin FinishedApply
  BY DEF TerminalShapes, FinishedApply
<1>6. CASE Some("unavailable")
  <2>1. Transition(s, t) =
          [FinishTerminal(tested, "Inconclusive", "Inconclusive")
             EXCEPT !.generation = @ + 1]
    BY <1>6 DEF Transition, ApplyTransition, CompleteTest, tested
  <2> QED BY <2>1, <1>1, <1>2, <1>4, <1>5, TerminalStep, ActiveFacts
<1>7. CASE ~Some("unavailable") /\ Some("failed")
  <2>1. Transition(s, t) =
          [FinishTerminal(tested, "Failed", "Failed") EXCEPT !.generation = @ + 1]
    BY <1>7 DEF Transition, ApplyTransition, CompleteTest, tested
  <2> QED BY <2>1, <1>1, <1>2, <1>4, <1>5, TerminalStep, ActiveFacts
<1>8. CASE ~Some("unavailable") /\ ~Some("failed")
  <2> DEFINE n == [tested EXCEPT !.phase = "Review",
                                 !.generation = s.generation + 1]
  <2>1. Transition(s, t) = n
    <3>1. Transition(s, t) =
            [[tested EXCEPT !.phase = "Review"] EXCEPT !.generation = @ + 1]
      BY <1>8 DEF Transition, ApplyTransition, CompleteTest, tested
    <3> QED BY <3>1, <1>1 DEF LifecycleState, StatesWith
  <2>2. /\ n \in LifecycleState
        /\ n.phase = "Review" /\ n.status = s.status /\ n.outcome = s.outcome
        /\ n.generation = s.generation + 1
        /\ n.usage = s.usage + t.worker.turns
        /\ n.exploration = s.exploration /\ n.patch = s.patch
        /\ n.tests = t.results /\ n.review = s.review
        /\ n.verification = s.verification
        /\ n.repair_reserved = s.repair_reserved
        /\ n.repair_consumed = s.repair_consumed
        /\ n.approval = s.approval /\ n.apply_id = s.apply_id
    <3>1. s.generation + 1 \in Nat /\ "Review" \in Phases
      BY DEF LifecycleState, StatesWith, Phases, WorkerPhases
    <3> QED BY <3>1, <1>1 DEF LifecycleState, StatesWith
  <2> HIDE DEF n
  <2>3. AllPassed(n.tests)
    BY <1>8, <2>2 DEF AllPassed, TestOutcomes
  <2>4. ArtifactChain(n)
    BY <2>2, <1>2, <1>3, ActiveFacts DEF ArtifactChain, ExpectedRevision
  <2>5. ~Terminal(n) /\ ActiveShape(n)
    BY <2>2, <2>3, <1>2, <1>3, ActiveFacts
       DEF ActiveShape, Terminal, TerminalStatuses
  <2>6. Good(n)
    BY <2>2, <1>2, <2>4, <2>5, ActiveFacts
       DEF Good, Validate, StatusShape, Progress, MaxGeneration,
           MAX_LIFECYCLE_EVENTS
  <2> QED BY <2>1, <2>2, <2>6
<1> QED BY <1>6, <1>7, <1>8

\* CompleteReview: an approval goes to verify, others are terminal.
LEMMA ReviewStep ==
  ASSUME NEW s \in LifecycleState, Good(s),
         NEW t \in [kind : {"CompleteReview"}, worker : WorkerCompletions,
                    review : Reviews],
         CanCompleteReview(s, t)
  PROVE  Transition(s, t) \in LifecycleState /\ Good(Transition(s, t))
<1> DEFINE reviewed == [Spend(s, t.worker) EXCEPT !.review = t.review]
<1>1. /\ reviewed \in LifecycleState
      /\ reviewed.phase = s.phase /\ reviewed.status = s.status
      /\ reviewed.outcome = s.outcome /\ reviewed.generation = s.generation
      /\ reviewed.usage = s.usage + t.worker.turns
      /\ reviewed.exploration = s.exploration /\ reviewed.patch = s.patch
      /\ reviewed.tests = s.tests /\ reviewed.review = t.review
      /\ reviewed.verification = s.verification
      /\ reviewed.repair_reserved = s.repair_reserved
      /\ reviewed.repair_consumed = s.repair_consumed
      /\ reviewed.approval = s.approval /\ reviewed.apply_id = s.apply_id
  <2>1. s.usage + t.worker.turns \in Nat
    BY DEF LifecycleState, StatesWith, WorkerCompletions
  <2> QED BY <2>1 DEF Spend, LifecycleState, StatesWith
<1> HIDE DEF reviewed
<1>2. /\ s.phase = "Review" /\ s.status = "Active"
      /\ s.usage + t.worker.turns <= MaxWorkerTurns
      /\ s.patch # None /\ t.review.patch = s.patch.id
      /\ t.review # None
  BY NoneIsNotData DEF CanCompleteReview, AcceptWorker, ActivePhase
<1>3. AllPassed(s.tests) /\ Len(s.tests) = TestPlanCount
  BY <1>2, ActiveFacts DEF ActiveShape
<1>4. ArtifactChain(reviewed)
  BY <1>1, <1>2, <1>3, ActiveFacts DEF ArtifactChain, ExpectedRevision
<1>5. /\ <<"Inconclusive", "Inconclusive">> \in TerminalShapes
      /\ <<"Failed", "Failed">> \in TerminalShapes
      /\ "Inconclusive" \notin FinishedApply /\ "Failed" \notin FinishedApply
  BY DEF TerminalShapes, FinishedApply
<1>6. CASE t.review.verdict = "Inconclusive"
  <2>1. Transition(s, t) =
          [FinishTerminal(reviewed, "Inconclusive", "Inconclusive")
             EXCEPT !.generation = @ + 1]
    BY <1>6 DEF Transition, ApplyTransition, CompleteReview, reviewed
  <2> QED BY <2>1, <1>1, <1>2, <1>4, <1>5, TerminalStep, ActiveFacts
<1>7. CASE t.review.verdict = "Rejected"
  <2>1. Transition(s, t) =
          [FinishTerminal(reviewed, "Failed", "Failed")
             EXCEPT !.generation = @ + 1]
    BY <1>7 DEF Transition, ApplyTransition, CompleteReview, reviewed
  <2> QED BY <2>1, <1>1, <1>2, <1>4, <1>5, TerminalStep, ActiveFacts
<1>8. CASE t.review.verdict = "Approved"
  <2> DEFINE n == [reviewed EXCEPT !.phase = "Verify",
                                   !.generation = s.generation + 1]
  <2>1. Transition(s, t) = n
    <3>1. Transition(s, t) =
            [[reviewed EXCEPT !.phase = "Verify"] EXCEPT !.generation = @ + 1]
      BY <1>8 DEF Transition, ApplyTransition, CompleteReview, reviewed
    <3> QED BY <3>1, <1>1 DEF LifecycleState, StatesWith
  <2>2. /\ n \in LifecycleState
        /\ n.phase = "Verify" /\ n.status = s.status /\ n.outcome = s.outcome
        /\ n.generation = s.generation + 1
        /\ n.usage = s.usage + t.worker.turns
        /\ n.exploration = s.exploration /\ n.patch = s.patch
        /\ n.tests = s.tests /\ n.review = t.review
        /\ n.verification = s.verification
        /\ n.repair_reserved = s.repair_reserved
        /\ n.repair_consumed = s.repair_consumed
        /\ n.approval = s.approval /\ n.apply_id = s.apply_id
    <3>1. s.generation + 1 \in Nat /\ "Verify" \in Phases
      BY DEF LifecycleState, StatesWith, Phases, WorkerPhases
    <3> QED BY <3>1, <1>1 DEF LifecycleState, StatesWith
  <2> HIDE DEF n
  <2>4. ArtifactChain(n)
    BY <2>2, <1>2, <1>3, ActiveFacts DEF ArtifactChain, ExpectedRevision
  <2>5. ~Terminal(n) /\ ActiveShape(n)
    BY <2>2, <1>2, <1>8, ActiveFacts DEF ActiveShape, Terminal, TerminalStatuses
  <2>6. Good(n)
    BY <2>2, <1>2, <2>4, <2>5, ActiveFacts
       DEF Good, Validate, StatusShape, Progress, MaxGeneration,
           MAX_LIFECYCLE_EVENTS
  <2> QED BY <2>1, <2>2, <2>6
<1> QED BY <1>6, <1>7, <1>8 DEF Reviews, ReviewVerdicts

\* CompleteVerify: verified waits for approval, the first repairable verdict
\* reserves the repair, everything else is terminal.
LEMMA VerifyStep ==
  ASSUME NEW s \in LifecycleState, Good(s),
         NEW t \in [kind : {"CompleteVerify"}, worker : WorkerCompletions,
                    verification : Verifications],
         CanCompleteVerify(s, t)
  PROVE  Transition(s, t) \in LifecycleState /\ Good(Transition(s, t))
<1> DEFINE checked == [Spend(s, t.worker) EXCEPT !.verification = t.verification]
<1>1. /\ checked \in LifecycleState
      /\ checked.phase = s.phase /\ checked.status = s.status
      /\ checked.outcome = s.outcome /\ checked.generation = s.generation
      /\ checked.usage = s.usage + t.worker.turns
      /\ checked.exploration = s.exploration /\ checked.patch = s.patch
      /\ checked.tests = s.tests /\ checked.review = s.review
      /\ checked.verification = t.verification
      /\ checked.repair_reserved = s.repair_reserved
      /\ checked.repair_consumed = s.repair_consumed
      /\ checked.approval = s.approval /\ checked.apply_id = s.apply_id
  <2>1. s.usage + t.worker.turns \in Nat
    BY DEF LifecycleState, StatesWith, WorkerCompletions
  <2> QED BY <2>1 DEF Spend, LifecycleState, StatesWith
<1> HIDE DEF checked
<1>2. /\ s.phase = "Verify" /\ s.status = "Active"
      /\ s.usage + t.worker.turns <= MaxWorkerTurns
      /\ s.patch # None /\ t.verification.patch = s.patch.id
      /\ t.verification # None
  BY NoneIsNotData DEF CanCompleteVerify, AcceptWorker, ActivePhase
<1>3. s.review # None /\ s.review.verdict = "Approved"
  BY <1>2, ActiveFacts DEF ActiveShape
<1>4. ArtifactChain(checked)
  BY <1>1, <1>2, <1>3, ActiveFacts DEF ArtifactChain, ExpectedRevision
<1>5. /\ <<"Inconclusive", "Inconclusive">> \in TerminalShapes
      /\ <<"Failed", "Failed">> \in TerminalShapes
      /\ "Inconclusive" \notin FinishedApply /\ "Failed" \notin FinishedApply
  BY DEF TerminalShapes, FinishedApply
<1>6. CASE t.verification.verdict = "Inconclusive"
  <2>1. Transition(s, t) =
          [FinishTerminal(checked, "Inconclusive", "Inconclusive")
             EXCEPT !.generation = @ + 1]
    BY <1>6 DEF Transition, ApplyTransition, CompleteVerify, checked
  <2> QED BY <2>1, <1>1, <1>2, <1>4, <1>5, TerminalStep, ActiveFacts
<1>7. CASE \/ t.verification.verdict = "Rejected"
           \/ t.verification.verdict = "Repairable" /\ s.repair_consumed
  <2>1. Transition(s, t) =
          [FinishTerminal(checked, "Failed", "Failed")
             EXCEPT !.generation = @ + 1]
    BY <1>7 DEF Transition, ApplyTransition, CompleteVerify, checked
  <2> QED BY <2>1, <1>1, <1>2, <1>4, <1>5, TerminalStep, ActiveFacts
<1>8. CASE t.verification.verdict = "Verified"
  <2> DEFINE n == [checked EXCEPT !.phase = "Apply",
                                  !.status = "AwaitingApproval",
                                  !.generation = s.generation + 1]
  <2>1. Transition(s, t) = n
    <3>1. Transition(s, t) =
            [[checked EXCEPT !.phase = "Apply", !.status = "AwaitingApproval"]
               EXCEPT !.generation = @ + 1]
      BY <1>8 DEF Transition, ApplyTransition, CompleteVerify, checked
    <3> QED BY <3>1, <1>1 DEF LifecycleState, StatesWith
  <2>2. /\ n \in LifecycleState
        /\ n.phase = "Apply" /\ n.status = "AwaitingApproval"
        /\ n.outcome = s.outcome
        /\ n.generation = s.generation + 1
        /\ n.usage = s.usage + t.worker.turns
        /\ n.exploration = s.exploration /\ n.patch = s.patch
        /\ n.tests = s.tests /\ n.review = s.review
        /\ n.verification = t.verification
        /\ n.repair_reserved = s.repair_reserved
        /\ n.repair_consumed = s.repair_consumed
        /\ n.approval = s.approval /\ n.apply_id = s.apply_id
    <3>1. /\ s.generation + 1 \in Nat /\ "Apply" \in Phases
          /\ "AwaitingApproval" \in Statuses
      BY DEF LifecycleState, StatesWith, Phases, Statuses
    <3> QED BY <3>1, <1>1 DEF LifecycleState, StatesWith
  <2> HIDE DEF n
  <2>4. ArtifactChain(n)
    BY <2>2, <1>2, <1>3, ActiveFacts DEF ArtifactChain, ExpectedRevision
  <2>5. ~Terminal(n) /\ ActiveShape(n)
    BY <2>2, <1>2, <1>8, ActiveFacts DEF ActiveShape, Terminal, TerminalStatuses
  <2>6. Good(n)
    BY <2>2, <1>2, <2>4, <2>5, ActiveFacts
       DEF Good, Validate, StatusShape, Progress, MaxGeneration,
           MAX_LIFECYCLE_EVENTS
  <2> QED BY <2>1, <2>2, <2>6
<1>9. CASE t.verification.verdict = "Repairable" /\ ~s.repair_consumed
  <2> DEFINE n == [checked EXCEPT !.status = "RepairReserved",
                                  !.repair_reserved = TRUE,
                                  !.generation = s.generation + 1]
  <2>1. Transition(s, t) = n
    <3>1. Transition(s, t) =
            [[checked EXCEPT !.status = "RepairReserved",
                             !.repair_reserved = TRUE]
               EXCEPT !.generation = @ + 1]
      BY <1>9, <1>2, ActiveFacts
         DEF Transition, ApplyTransition, CompleteVerify, checked
    <3> QED BY <3>1, <1>1 DEF LifecycleState, StatesWith
  <2>2. /\ n \in LifecycleState
        /\ n.phase = s.phase /\ n.status = "RepairReserved"
        /\ n.outcome = s.outcome
        /\ n.generation = s.generation + 1
        /\ n.usage = s.usage + t.worker.turns
        /\ n.exploration = s.exploration /\ n.patch = s.patch
        /\ n.tests = s.tests /\ n.review = s.review
        /\ n.verification = t.verification
        /\ n.repair_reserved = TRUE
        /\ n.repair_consumed = s.repair_consumed
        /\ n.approval = s.approval /\ n.apply_id = s.apply_id
    <3>1. s.generation + 1 \in Nat /\ "RepairReserved" \in Statuses
      BY DEF LifecycleState, StatesWith, Statuses
    <3> QED BY <3>1, <1>1 DEF LifecycleState, StatesWith
  <2> HIDE DEF n
  <2>4. ArtifactChain(n)
    BY <2>2, <1>2, <1>3, ActiveFacts DEF ArtifactChain, ExpectedRevision
  <2>5. ~Terminal(n) /\ ActiveShape(n)
    BY <2>2, <1>2, <1>9, ActiveFacts DEF ActiveShape, Terminal, TerminalStatuses
  <2>6. Good(n)
    BY <2>2, <1>2, <1>9, <2>4, <2>5, ActiveFacts
       DEF Good, Validate, StatusShape, Progress, MaxGeneration,
           MAX_LIFECYCLE_EVENTS
  <2> QED BY <2>1, <2>2, <2>6
<1> QED BY <1>6, <1>7, <1>8, <1>9 DEF Verifications, VerificationVerdicts

\* ConsumeRepair: back to implement, with the patch and its evidence gone.
LEMMA ConsumeRepairStep ==
  ASSUME NEW s \in LifecycleState, Good(s), CanConsumeRepair(s),
         NEW t \in [kind : {"ConsumeRepair"}]
  PROVE  Transition(s, t) \in LifecycleState /\ Good(Transition(s, t))
<1> DEFINE n == [s EXCEPT !.repair_reserved = FALSE, !.repair_consumed = TRUE,
                          !.phase = "Implement", !.status = "Active",
                          !.patch = None, !.tests = <<>>, !.review = None,
                          !.verification = None, !.approval = None,
                          !.apply_id = None, !.generation = s.generation + 1]
<1>1. Transition(s, t) = n
  BY DEF Transition, ApplyTransition, ConsumeRepair, LifecycleState, StatesWith
<1>2. /\ n \in LifecycleState
      /\ n.phase = "Implement" /\ n.status = "Active" /\ n.outcome = s.outcome
      /\ n.generation = s.generation + 1 /\ n.usage = s.usage
      /\ n.exploration = s.exploration /\ n.patch = None /\ n.tests = <<>>
      /\ n.review = None /\ n.verification = None
      /\ n.repair_reserved = FALSE /\ n.repair_consumed = TRUE
      /\ n.approval = None /\ n.apply_id = None
  <2>1. /\ s.generation + 1 \in Nat
        /\ "Implement" \in Phases /\ "Active" \in Statuses
        /\ <<>> \in Seq(TestOutcomes)
    BY DEF LifecycleState, StatesWith, Phases, WorkerPhases, Statuses
  <2> QED BY <2>1 DEF LifecycleState, StatesWith
<1> HIDE DEF n
<1>3. /\ s.phase = "Verify" /\ s.status = "RepairReserved"
      /\ ~s.repair_consumed /\ ~Terminal(s)
  BY DEF CanConsumeRepair, Terminal, TerminalStatuses
<1>4. /\ s.generation = 5 /\ s.usage <= MaxWorkerTurns /\ s.outcome = None
      /\ ArtifactChain(s) /\ ActiveShape(s)
  BY <1>3 DEF Good, Validate, StatusShape, Progress
<1>5. s.exploration # <<>>
  BY <1>3, <1>4 DEF ArtifactChain, ActiveShape
<1>6. ArtifactChain(n)
  BY <1>2, <1>4 DEF ArtifactChain
<1>7. ~Terminal(n) /\ ActiveShape(n)
  BY <1>2, <1>5 DEF ActiveShape, Terminal, TerminalStatuses
<1>8. Good(n)
  BY <1>2, <1>4, <1>6, <1>7
     DEF Good, Validate, StatusShape, Progress, MaxGeneration,
         MAX_LIFECYCLE_EVENTS
<1> QED BY <1>1, <1>2, <1>8

\* ApproveApply.
LEMMA ApproveStep ==
  ASSUME NEW s \in LifecycleState, Good(s),
         NEW t \in [kind : {"ApproveApply"}, approval : Approvals],
         CanApproveApply(s, t)
  PROVE  Transition(s, t) \in LifecycleState /\ Good(Transition(s, t))
<1> DEFINE n == [s EXCEPT !.approval = t.approval, !.status = "Approved",
                          !.generation = s.generation + 1]
<1>1. Transition(s, t) = n
  BY DEF Transition, ApplyTransition, ApproveApply, LifecycleState, StatesWith
<1>2. /\ n \in LifecycleState
      /\ n.phase = s.phase /\ n.status = "Approved" /\ n.outcome = s.outcome
      /\ n.generation = s.generation + 1 /\ n.usage = s.usage
      /\ n.exploration = s.exploration /\ n.patch = s.patch
      /\ n.tests = s.tests /\ n.review = s.review
      /\ n.verification = s.verification
      /\ n.repair_reserved = s.repair_reserved
      /\ n.repair_consumed = s.repair_consumed
      /\ n.approval = t.approval /\ n.apply_id = s.apply_id
  <2>1. /\ s.generation + 1 \in Nat /\ "Approved" \in Statuses
        /\ t.approval \in Approvals
    BY DEF LifecycleState, StatesWith, Statuses
  <2> QED BY <2>1 DEF LifecycleState, StatesWith
<1> HIDE DEF n
<1>3. /\ s.phase = "Apply" /\ s.status = "AwaitingApproval" /\ ~Terminal(s)
      /\ t.approval.patch = s.patch.id
      /\ t.approval.verification = s.verification.id
      /\ t.approval # None
  BY NoneIsNotData DEF CanApproveApply, Terminal, TerminalStatuses
<1>4. /\ s.generation = Progress(s) /\ s.usage <= MaxWorkerTurns
      /\ s.outcome = None /\ ~s.repair_reserved
      /\ ArtifactChain(s) /\ ActiveShape(s)
  BY <1>3 DEF Good, Validate, StatusShape
<1>5. /\ s.verification # None /\ s.verification.verdict = "Verified"
      /\ s.apply_id = None
  BY <1>3, <1>4 DEF ActiveShape
<1>6. ArtifactChain(n)
  BY <1>2, <1>3, <1>4, <1>5 DEF ArtifactChain, ExpectedRevision
<1>7. ~Terminal(n) /\ ActiveShape(n)
  BY <1>2, <1>3, <1>5 DEF ActiveShape, Terminal, TerminalStatuses
<1>8. Good(n)
  BY <1>2, <1>3, <1>4, <1>6, <1>7
     DEF Good, Validate, StatusShape, Progress, MaxGeneration,
         MAX_LIFECYCLE_EVENTS
<1> QED BY <1>1, <1>2, <1>8

\* StartApply.
LEMMA StartApplyStep ==
  ASSUME NEW s \in LifecycleState, Good(s), CanStartApply(s),
         NEW t \in [kind : {"StartApply"}, apply_id : ApplyIds]
  PROVE  Transition(s, t) \in LifecycleState /\ Good(Transition(s, t))
<1> DEFINE n == [s EXCEPT !.apply_id = t.apply_id, !.status = "Applying",
                          !.generation = s.generation + 1]
<1>1. Transition(s, t) = n
  BY DEF Transition, ApplyTransition, StartApply, LifecycleState, StatesWith
<1>2. /\ n \in LifecycleState
      /\ n.phase = s.phase /\ n.status = "Applying" /\ n.outcome = s.outcome
      /\ n.generation = s.generation + 1 /\ n.usage = s.usage
      /\ n.exploration = s.exploration /\ n.patch = s.patch
      /\ n.tests = s.tests /\ n.review = s.review
      /\ n.verification = s.verification
      /\ n.repair_reserved = s.repair_reserved
      /\ n.repair_consumed = s.repair_consumed
      /\ n.approval = s.approval /\ n.apply_id = t.apply_id
  <2>1. s.generation + 1 \in Nat /\ "Applying" \in Statuses
    BY DEF LifecycleState, StatesWith, Statuses
  <2> QED BY <2>1 DEF LifecycleState, StatesWith
<1> HIDE DEF n
<1>3. /\ s.phase = "Apply" /\ s.status = "Approved" /\ ~Terminal(s)
      /\ t.apply_id # None
  BY NoneAssumption DEF CanStartApply, Terminal, TerminalStatuses
<1>4. /\ s.generation = Progress(s) /\ s.usage <= MaxWorkerTurns
      /\ s.outcome = None /\ ~s.repair_reserved
      /\ ArtifactChain(s) /\ ActiveShape(s)
  BY <1>3 DEF Good, Validate, StatusShape
<1>5. s.approval # None
  BY <1>3, <1>4 DEF ActiveShape
<1>6. ArtifactChain(n)
  BY <1>2, <1>3, <1>4, <1>5 DEF ArtifactChain, ExpectedRevision
<1>7. ~Terminal(n) /\ ActiveShape(n)
  BY <1>2, <1>3, <1>5 DEF ActiveShape, Terminal, TerminalStatuses
<1>8. Good(n)
  BY <1>2, <1>3, <1>4, <1>6, <1>7
     DEF Good, Validate, StatusShape, Progress, MaxGeneration,
         MAX_LIFECYCLE_EVENTS
<1> QED BY <1>1, <1>2, <1>8

\* FinishApply.
LEMMA FinishApplyStep ==
  ASSUME NEW s \in LifecycleState, Good(s),
         NEW t \in [kind : {"FinishApply"}, apply_id : ApplyIds,
                    status : FinishedApply],
         CanFinishApply(s, t)
  PROVE  Transition(s, t) \in LifecycleState /\ Good(Transition(s, t))
<1>1. /\ s.phase = "Apply" /\ s.apply_id # None /\ ~Terminal(s)
  BY NoneAssumption DEF CanFinishApply, Terminal, TerminalStatuses
<1>2. /\ s.usage <= MaxWorkerTurns /\ ArtifactChain(s) /\ s.generation <= 12
  BY <1>1, ProgressBound DEF Good, Validate
<1>3. \E status, outcome :
        /\ <<status, outcome>> \in TerminalShapes
        /\ Transition(s, t) =
             [FinishTerminal(s, status, outcome) EXCEPT !.generation = @ + 1]
  <2>1. CASE t.status = "Applied"
    BY <2>1 DEF Transition, ApplyTransition, FinishApply, TerminalShapes
  <2>2. CASE t.status = "RolledBack"
    BY <2>2 DEF Transition, ApplyTransition, FinishApply, TerminalShapes
  <2>3. CASE t.status = "RollbackFailed"
    BY <2>3 DEF Transition, ApplyTransition, FinishApply, TerminalShapes
  <2>4. CASE t.status = "RecoveryConflict"
    BY <2>4 DEF Transition, ApplyTransition, FinishApply, TerminalShapes
  <2> QED BY <2>1, <2>2, <2>3, <2>4 DEF FinishedApply
<1> QED BY <1>1, <1>2, <1>3, TerminalStep

\* Cancel and Fail.
LEMMA StopStep ==
  ASSUME NEW s \in LifecycleState, Good(s), ~Terminal(s),
         NEW t \in [kind : {"Cancel", "Fail"}]
  PROVE  Transition(s, t) \in LifecycleState /\ Good(Transition(s, t))
<1>1. /\ s.usage <= MaxWorkerTurns /\ ArtifactChain(s) /\ s.generation <= 12
  BY ProgressBound DEF Good, Validate
<1>2. \E status, outcome :
        /\ <<status, outcome>> \in TerminalShapes
        /\ outcome \notin FinishedApply
        /\ Transition(s, t) =
             [FinishTerminal(s, status, outcome) EXCEPT !.generation = @ + 1]
  <2>1. CASE t.kind = "Cancel"
    BY <2>1 DEF Transition, ApplyTransition, TerminalShapes, FinishedApply
  <2>2. CASE t.kind = "Fail"
    BY <2>2 DEF Transition, ApplyTransition, TerminalShapes, FinishedApply
  <2> QED BY <2>1, <2>2
<1> QED BY <1>1, <1>2, TerminalStep

-----------------------------------------------------------------------------
(* The machine *)

\* What apply_transition lets through from a good state is a good state, so
\* the validate() on the result never refuses it.
THEOREM GuardImpliesGood ==
  ASSUME NEW s \in LifecycleState, Good(s), ~Terminal(s),
         NEW t \in Transitions, Guard(s, t),
         t.kind = "CompleteExplore" => StrictlySorted(t.artifacts)
  PROVE  Transition(s, t) \in LifecycleState /\ Good(Transition(s, t))
<1>1. CASE t \in [kind : {"CompleteExplore"}, worker : WorkerCompletions,
                  artifacts : Seq(Nat)]
  <2>1. CanCompleteExplore(s, t)
    BY <1>1 DEF Guard
  <2> QED BY <1>1, <2>1, ExploreStep
<1>2. CASE t \in [kind : {"CompleteImplement"}, worker : WorkerCompletions,
                  patch : PatchRefs]
  <2>1. CanCompleteImplement(s, t)
    BY <1>2 DEF Guard
  <2> QED BY <1>2, <2>1, ImplementStep
<1>3. CASE t \in [kind : {"CompleteTest"}, worker : WorkerCompletions,
                  results : Seq(TestOutcomes)]
  <2>1. CanCompleteTest(s, t)
    BY <1>3 DEF Guard
  <2> QED BY <1>3, <2>1, TestStep
<1>4. CASE t \in [kind : {"CompleteReview"}, worker : WorkerCompletions,
                  review : Reviews]
  <2>1. CanCompleteReview(s, t)
    BY <1>4 DEF Guard
  <2> QED BY <1>4, <2>1, ReviewStep
<1>5. CASE t \in [kind : {"CompleteVerify"}, worker : WorkerCompletions,
                  verification : Verifications]
  <2>1. CanCompleteVerify(s, t)
    BY <1>5 DEF Guard
  <2> QED BY <1>5, <2>1, VerifyStep
<1>6. CASE t \in [kind : {"ApproveApply"}, approval : Approvals]
  <2>1. CanApproveApply(s, t)
    BY <1>6 DEF Guard
  <2> QED BY <1>6, <2>1, ApproveStep
<1>7. CASE t \in [kind : {"StartApply"}, apply_id : ApplyIds]
  <2>1. CanStartApply(s)
    BY <1>7 DEF Guard
  <2> QED BY <1>7, <2>1, StartApplyStep
<1>8. CASE t \in [kind : {"FinishApply"}, apply_id : ApplyIds,
                  status : FinishedApply]
  <2>1. CanFinishApply(s, t)
    BY <1>8 DEF Guard
  <2> QED BY <1>8, <2>1, FinishApplyStep
<1>9. CASE t \in [kind : {"ConsumeRepair"}]
  <2>1. CanConsumeRepair(s)
    BY <1>9 DEF Guard
  <2> QED BY <1>9, <2>1, ConsumeRepairStep
<1>10. CASE t \in [kind : {"Cancel", "Fail"}]
  BY <1>10, StopStep
<1>11. t \in [kind : {"ConsumeRepair", "Cancel", "Fail"}] =>
         t \in [kind : {"ConsumeRepair"}] \/ t \in [kind : {"Cancel", "Fail"}]
  OBVIOUS
<1> QED
  BY <1>1, <1>2, <1>3, <1>4, <1>5, <1>6, <1>7, <1>8, <1>9, <1>10, <1>11
     DEF Transitions

\* Only CompleteTest writes test results, and it keeps the patch; whatever
\* replaces the patch clears them.
LEMMA TestsStep ==
  ASSUME NEW s \in LifecycleState, NEW t \in Transitions, Guard(s, t),
         NEW n, n = Transition(s, t), n \in LifecycleState
  PROVE  \/ n.tests = <<>>
         \/ n.patch = s.patch /\ (t.kind # "CompleteTest" => n.tests = s.tests)
<1> USE DEF LifecycleState, StatesWith
<1>1. CASE t.kind = "CompleteExplore"
  BY <1>1 DEF Transition, ApplyTransition, CompleteExplore, Spend
<1>2. CASE t.kind = "CompleteImplement"
  BY <1>2 DEF Transition, ApplyTransition, CompleteImplement, Spend
<1>3. CASE t.kind = "CompleteTest"
  BY <1>3 DEF Transition, ApplyTransition, CompleteTest, Spend, FinishTerminal
<1>4. CASE t.kind = "CompleteReview"
  <2>1. t.review.verdict \in ReviewVerdicts
    BY <1>4 DEF Transitions, Reviews
  <2> QED
    BY <1>4, <2>1 DEF Transition, ApplyTransition, CompleteReview, Spend,
                      FinishTerminal, ReviewVerdicts
<1>5. CASE t.kind = "CompleteVerify"
  <2> DEFINE checked ==
               [Spend(s, t.worker) EXCEPT !.verification = t.verification]
  <2>1. /\ checked \in LifecycleState
        /\ checked.tests = s.tests /\ checked.patch = s.patch
    <3>1. /\ t.worker.turns \in Nat /\ t.verification \in Verifications
          /\ s.usage + t.worker.turns \in Nat
      BY <1>5 DEF Transitions, WorkerCompletions
    <3> QED BY <3>1 DEF Spend
  <2>2. n = [CompleteVerify(s, t) EXCEPT !.generation = @ + 1]
    BY <1>5 DEF Transition, ApplyTransition
  <2>3. t.verification.verdict \in VerificationVerdicts
    BY <1>5 DEF Transitions, Verifications
  <2>4. \/ CompleteVerify(s, t) =
             [checked EXCEPT !.phase = "Apply", !.status = "AwaitingApproval"]
        \/ CompleteVerify(s, t) =
             [checked EXCEPT !.status = "RepairReserved", !.repair_reserved = TRUE]
        \/ CompleteVerify(s, t) = FinishTerminal(checked, "Failed", "Failed")
        \/ CompleteVerify(s, t) =
             FinishTerminal(checked, "Inconclusive", "Inconclusive")
    BY <2>3 DEF CompleteVerify, VerificationVerdicts
  <2> HIDE DEF checked
  <2>5. CASE CompleteVerify(s, t) =
               [checked EXCEPT !.phase = "Apply", !.status = "AwaitingApproval"]
    BY <2>1, <2>2, <2>5
  <2>6. CASE CompleteVerify(s, t) =
               [checked EXCEPT !.status = "RepairReserved",
                               !.repair_reserved = TRUE]
    BY <2>1, <2>2, <2>6
  <2>7. CASE CompleteVerify(s, t) = FinishTerminal(checked, "Failed", "Failed")
    BY <2>1, <2>2, <2>7 DEF FinishTerminal
  <2>8. CASE CompleteVerify(s, t) =
               FinishTerminal(checked, "Inconclusive", "Inconclusive")
    BY <2>1, <2>2, <2>8 DEF FinishTerminal
  <2> QED BY <2>4, <2>5, <2>6, <2>7, <2>8
<1>6. CASE t.kind = "ConsumeRepair"
  BY <1>6 DEF Transition, ApplyTransition, ConsumeRepair
<1>7. CASE t.kind = "ApproveApply"
  BY <1>7 DEF Transition, ApplyTransition, ApproveApply
<1>8. CASE t.kind = "StartApply"
  BY <1>8 DEF Transition, ApplyTransition, StartApply
<1>9. CASE t.kind = "FinishApply"
  <2>1. t.status \in FinishedApply
    BY <1>9 DEF Transitions
  <2> QED
    BY <1>9, <2>1 DEF Transition, ApplyTransition, FinishApply, FinishTerminal,
                      FinishedApply
<1>10. CASE t.kind \in {"Cancel", "Fail"}
  BY <1>10 DEF Transition, ApplyTransition, FinishTerminal
<1> QED
  BY <1>1, <1>2, <1>3, <1>4, <1>5, <1>6, <1>7, <1>8, <1>9, <1>10 DEF Guard

\* DevelopmentLifecycle::new is a good state.
LEMMA NewIsGood == NewLifecycle \in LifecycleState /\ Good(NewLifecycle)
<1>1. NewLifecycle \in LifecycleState
  <2>1. <<>> \in Seq(Nat) /\ <<>> \in Seq(TestOutcomes)
    OBVIOUS
  <2> QED
    BY <2>1 DEF NewLifecycle, LifecycleState, StatesWith, Phases, WorkerPhases,
                Statuses
<1>2. ArtifactChain(NewLifecycle)
  BY DEF NewLifecycle, ArtifactChain, StrictlySorted, MAX_LIFECYCLE_ARTIFACT_REFS
<1>3. ~Terminal(NewLifecycle) /\ ActiveShape(NewLifecycle)
  BY DEF NewLifecycle, Terminal, TerminalStatuses, ActiveShape
<1>4. Good(NewLifecycle)
  BY <1>2, <1>3, SpecAssumption
     DEF Good, Validate, StatusShape, NewLifecycle, Progress, MaxGeneration,
         MAX_LIFECYCLE_EVENTS
<1> QED BY <1>1, <1>4

\* What transition() accepts from a good state is a good state: an unsorted
\* artifact list, which the guard lets through, fails validate().
LEMMA AcceptedIsGood ==
  ASSUME NEW s \in LifecycleState, Good(s), NEW t \in Transitions, Accepted(s, t)
  PROVE  Transition(s, t) \in LifecycleState /\ Good(Transition(s, t))
<1>1. t.kind = "CompleteExplore" => StrictlySorted(t.artifacts)
  <2>1. SUFFICES ASSUME t.kind = "CompleteExplore"
                 PROVE  Transition(s, t).exploration = t.artifacts
    BY DEF Accepted, Validate, ArtifactChain
  <2> QED
    BY <2>1 DEF Transition, ApplyTransition, CompleteExplore, Spend,
                LifecycleState, StatesWith
<1> QED BY <1>1, GuardImpliesGood DEF Accepted

\* Who writes what: the fields that tie a lifecycle to its change are each
\* written by one transition, and cleared when a patch is replaced.
WritesOnlyItsOwn(s, t, n) ==
  LET Written(old, kind, new) ==
        IF t.kind = kind THEN new
        ELSE IF t.kind \in {"CompleteImplement", "ConsumeRepair"} THEN None
        ELSE old
  IN  /\ n.repair_consumed = (s.repair_consumed \/ t.kind = "ConsumeRepair")
      /\ n.patch = Written(s.patch, "CompleteImplement", t.patch)
      /\ n.verification = Written(s.verification, "CompleteVerify", t.verification)
      /\ n.approval = Written(s.approval, "ApproveApply", t.approval)
      /\ n.apply_id = Written(s.apply_id, "StartApply", t.apply_id)

\* apply_transition writes only the fields of its transition.
LEMMA TransitionWrites ==
  ASSUME NEW s \in LifecycleState, NEW t \in Transitions, Guard(s, t),
         NEW n, n = Transition(s, t)
  PROVE  WritesOnlyItsOwn(s, t, n)
<1> USE DEF LifecycleState, StatesWith, WritesOnlyItsOwn
<1>0. s.usage \in Nat /\ s.generation \in Nat
  OBVIOUS
<1>1. CASE t.kind = "CompleteExplore"
  BY <1>1 DEF Transition, ApplyTransition, CompleteExplore, Spend
<1>2. CASE t.kind = "CompleteImplement"
  BY <1>2 DEF Transition, ApplyTransition, CompleteImplement, Spend
<1>3. CASE t.kind = "CompleteTest"
  BY <1>3 DEF Transition, ApplyTransition, CompleteTest, Spend, FinishTerminal
<1>4. CASE t.kind = "CompleteReview"
  <2>1. t.review.verdict \in ReviewVerdicts
    BY <1>4 DEF Transitions, Reviews
  <2> QED
    BY <1>4, <2>1 DEF Transition, ApplyTransition, CompleteReview, Spend,
                      FinishTerminal, ReviewVerdicts
<1>5. CASE t.kind = "CompleteVerify"
  <2> DEFINE checked ==
               [Spend(s, t.worker) EXCEPT !.verification = t.verification]
  <2>1. /\ checked \in LifecycleState
        /\ checked.repair_consumed = s.repair_consumed /\ checked.patch = s.patch
        /\ checked.verification = t.verification /\ checked.approval = s.approval
        /\ checked.apply_id = s.apply_id
    <3>1. /\ t.worker.turns \in Nat /\ t.verification \in Verifications
          /\ s.usage + t.worker.turns \in Nat
      BY <1>5 DEF Transitions, WorkerCompletions
    <3> QED BY <3>1 DEF Spend
  <2>2. n = [CompleteVerify(s, t) EXCEPT !.generation = @ + 1]
    BY <1>5 DEF Transition, ApplyTransition
  <2>3. t.verification.verdict \in VerificationVerdicts
    BY <1>5 DEF Transitions, Verifications
  <2>4. \/ CompleteVerify(s, t) =
             [checked EXCEPT !.phase = "Apply", !.status = "AwaitingApproval"]
        \/ CompleteVerify(s, t) =
             [checked EXCEPT !.status = "RepairReserved", !.repair_reserved = TRUE]
        \/ \E status \in TerminalStatuses :
             CompleteVerify(s, t) = FinishTerminal(checked, status, status)
    BY <2>3 DEF CompleteVerify, VerificationVerdicts, TerminalStatuses
  <2> HIDE DEF checked
  <2>5. CASE CompleteVerify(s, t) =
               [checked EXCEPT !.phase = "Apply", !.status = "AwaitingApproval"]
    BY <1>5, <2>1, <2>2, <2>5
  <2>6. CASE CompleteVerify(s, t) =
               [checked EXCEPT !.status = "RepairReserved",
                               !.repair_reserved = TRUE]
    BY <1>5, <2>1, <2>2, <2>6
  <2>7. CASE \E status \in TerminalStatuses :
               CompleteVerify(s, t) = FinishTerminal(checked, status, status)
    BY <1>5, <2>1, <2>2, <2>7 DEF FinishTerminal
  <2> QED BY <2>4, <2>5, <2>6, <2>7
<1>6. CASE t.kind = "ConsumeRepair"
  BY <1>6 DEF Transition, ApplyTransition, ConsumeRepair
<1>7. CASE t.kind = "ApproveApply"
  BY <1>7 DEF Transition, ApplyTransition, ApproveApply
<1>8. CASE t.kind = "StartApply"
  BY <1>8 DEF Transition, ApplyTransition, StartApply
<1>9. CASE t.kind = "FinishApply"
  <2>1. t.status \in FinishedApply
    BY <1>9 DEF Transitions
  <2> QED
    BY <1>9, <2>1 DEF Transition, ApplyTransition, FinishApply, FinishTerminal,
                      FinishedApply
<1>10. CASE t.kind \in {"Cancel", "Fail"}
  BY <1>10 DEF Transition, ApplyTransition, FinishTerminal
<1> QED
  BY <1>1, <1>2, <1>3, <1>4, <1>5, <1>6, <1>7, <1>8, <1>9, <1>10 DEF Guard

\* Only StartApply leads into an apply, only FinishApply out of it, and only
\* a finished apply is 'applied'.
LEMMA TransitionApplies ==
  ASSUME NEW s \in LifecycleState, Good(s), NEW t \in Transitions, Accepted(s, t),
         NEW n, n = Transition(s, t)
  PROVE  /\ n.status = "Applying" <=> t.kind = "StartApply"
         /\ s.status = "Applying" <=> t.kind = "FinishApply"
         /\ n.outcome = "Applied" <=> t.kind = "FinishApply" /\ t.status = "Applied"
<1> USE DEF LifecycleState, StatesWith
<1>0. /\ ~Terminal(s) /\ s.outcome = None /\ Guard(s, t) /\ n.status \in Statuses
      /\ None # "Applied"
  BY AcceptedIsGood, NoneAssumption
     DEF Accepted, Validate, TerminalOutcomes
<1> USE <1>0 DEF Guard, ActivePhase
<1>1. CASE t.kind = "CompleteExplore"
  BY <1>1 DEF Transition, ApplyTransition, CompleteExplore, Spend,
              CanCompleteExplore
<1>2. CASE t.kind = "CompleteImplement"
  BY <1>2 DEF Transition, ApplyTransition, CompleteImplement, Spend,
              CanCompleteImplement
<1>3. CASE t.kind = "CompleteTest"
  BY <1>3 DEF Transition, ApplyTransition, CompleteTest, Spend, FinishTerminal,
              CanCompleteTest
<1>4. CASE t.kind = "CompleteReview"
  <2>1. t.review.verdict \in ReviewVerdicts
    BY <1>4 DEF Transitions, Reviews
  <2> QED
    BY <1>4, <2>1 DEF Transition, ApplyTransition, CompleteReview, Spend,
                      FinishTerminal, ReviewVerdicts, CanCompleteReview
<1>5. CASE t.kind = "CompleteVerify"
  <2> DEFINE checked ==
               [Spend(s, t.worker) EXCEPT !.verification = t.verification]
  <2>1. /\ checked \in LifecycleState
        /\ checked.outcome = s.outcome
    <3>1. /\ t.worker.turns \in Nat /\ t.verification \in Verifications
          /\ s.usage + t.worker.turns \in Nat
      BY <1>5 DEF Transitions, WorkerCompletions
    <3> QED BY <3>1 DEF Spend
  <2>2. n = [CompleteVerify(s, t) EXCEPT !.generation = @ + 1]
    BY <1>5 DEF Transition, ApplyTransition
  <2>3. t.verification.verdict \in VerificationVerdicts
    BY <1>5 DEF Transitions, Verifications
  <2>4. \/ CompleteVerify(s, t) =
             [checked EXCEPT !.phase = "Apply", !.status = "AwaitingApproval"]
        \/ CompleteVerify(s, t) =
             [checked EXCEPT !.status = "RepairReserved", !.repair_reserved = TRUE]
        \/ \E status \in TerminalStatuses :
             CompleteVerify(s, t) = FinishTerminal(checked, status, status)
    BY <2>3 DEF CompleteVerify, VerificationVerdicts, TerminalStatuses
  <2> HIDE DEF checked
  <2>5. s.status = "Active"
    BY <1>5 DEF CanCompleteVerify
  <2>6. CASE CompleteVerify(s, t) =
               [checked EXCEPT !.phase = "Apply", !.status = "AwaitingApproval"]
    BY <1>5, <2>1, <2>2, <2>5, <2>6
  <2>7. CASE CompleteVerify(s, t) =
               [checked EXCEPT !.status = "RepairReserved",
                               !.repair_reserved = TRUE]
    BY <1>5, <2>1, <2>2, <2>5, <2>7
  <2>8. CASE \E status \in TerminalStatuses :
               CompleteVerify(s, t) = FinishTerminal(checked, status, status)
    <3>1. PICK status \in TerminalStatuses :
            CompleteVerify(s, t) = FinishTerminal(checked, status, status)
      BY <2>8
    <3>2. n.status = status /\ n.outcome = status
      BY <2>1, <2>2, <3>1 DEF FinishTerminal
    <3> QED BY <1>5, <2>5, <3>1, <3>2 DEF TerminalStatuses
  <2> QED BY <2>4, <2>6, <2>7, <2>8
<1>6. CASE t.kind = "ConsumeRepair"
  BY <1>6 DEF Transition, ApplyTransition, ConsumeRepair, CanConsumeRepair
<1>7. CASE t.kind = "ApproveApply"
  BY <1>7 DEF Transition, ApplyTransition, ApproveApply, CanApproveApply
<1>8. CASE t.kind = "StartApply"
  BY <1>8 DEF Transition, ApplyTransition, StartApply, CanStartApply
<1>9. CASE t.kind = "FinishApply"
  <2>1. t.status \in FinishedApply
    BY <1>9 DEF Transitions
  <2> QED
    BY <1>9, <2>1 DEF Transition, ApplyTransition, FinishApply, FinishTerminal,
                      FinishedApply, CanFinishApply
<1>10. CASE t.kind \in {"Cancel", "Fail"}
  BY <1>10 DEF Transition, ApplyTransition, FinishTerminal
<1> QED
  BY <1>1, <1>2, <1>3, <1>4, <1>5, <1>6, <1>7, <1>8, <1>9, <1>10

\* The way through the phases, for the transitions that do not end it.
MovesOn(s, t, n) ==
  \/ /\ t.kind = "CompleteExplore" /\ ActivePhase(s, "Explore")
     /\ ActivePhase(n, "Implement")
  \/ /\ t.kind = "CompleteImplement" /\ ActivePhase(s, "Implement")
     /\ ActivePhase(n, "Test")
  \/ /\ t.kind = "CompleteTest" /\ ActivePhase(s, "Test")
     /\ ActivePhase(n, "Review")
  \/ /\ t.kind = "CompleteReview" /\ ActivePhase(s, "Review")
     /\ ActivePhase(n, "Verify")
  \/ /\ t.kind = "CompleteVerify" /\ ActivePhase(s, "Verify")
     /\ \/ n.phase = "Apply" /\ n.status = "AwaitingApproval"
        \/ /\ n.phase = "Verify" /\ n.status = "RepairReserved"
           /\ t.verification.verdict = "Repairable"
  \/ /\ t.kind = "ConsumeRepair" /\ s.status = "RepairReserved"
     /\ ActivePhase(n, "Implement")
  \/ t.kind \in {"ApproveApply", "StartApply"} /\ s.phase = "Apply" /\ n.phase = "Apply"

\* A transition that does not end a lifecycle takes it to its next phase, to
\* the reserved repair or through the apply phase.
LEMMA TransitionMoves ==
  ASSUME NEW s \in LifecycleState, Good(s), NEW t \in Transitions, Accepted(s, t),
         NEW n, n = Transition(s, t), ~Terminal(n)
  PROVE  MovesOn(s, t, n)
<1> USE DEF LifecycleState, StatesWith
<1>0. Guard(s, t) /\ s.usage \in Nat /\ s.generation \in Nat
  BY DEF Accepted
<1> USE <1>0 DEF Guard, ActivePhase, MovesOn, Terminal, TerminalStatuses
<1>1. CASE t.kind = "CompleteExplore"
  BY <1>1 DEF Transition, ApplyTransition, CompleteExplore, Spend,
              CanCompleteExplore
<1>2. CASE t.kind = "CompleteImplement"
  BY <1>2 DEF Transition, ApplyTransition, CompleteImplement, Spend,
              CanCompleteImplement
<1>3. CASE t.kind = "CompleteTest"
  BY <1>3 DEF Transition, ApplyTransition, CompleteTest, Spend, FinishTerminal,
              CanCompleteTest
<1>4. CASE t.kind = "CompleteReview"
  <2>1. t.review.verdict \in ReviewVerdicts
    BY <1>4 DEF Transitions, Reviews
  <2> QED
    BY <1>4, <2>1 DEF Transition, ApplyTransition, CompleteReview, Spend,
                      FinishTerminal, ReviewVerdicts, CanCompleteReview
<1>5. CASE t.kind = "CompleteVerify"
  <2> DEFINE checked ==
               [Spend(s, t.worker) EXCEPT !.verification = t.verification]
  <2>1. checked \in LifecycleState /\ checked.phase = s.phase
    <3>1. /\ t.worker.turns \in Nat /\ t.verification \in Verifications
          /\ s.usage + t.worker.turns \in Nat
      BY <1>5 DEF Transitions, WorkerCompletions
    <3> QED BY <3>1 DEF Spend
  <2>2. n = [CompleteVerify(s, t) EXCEPT !.generation = @ + 1]
    BY <1>5 DEF Transition, ApplyTransition
  <2>3. t.verification.verdict \in VerificationVerdicts
    BY <1>5 DEF Transitions, Verifications
  <2>4. \/ CompleteVerify(s, t) =
             [checked EXCEPT !.phase = "Apply", !.status = "AwaitingApproval"]
        \/ /\ t.verification.verdict = "Repairable"
           /\ CompleteVerify(s, t) =
                [checked EXCEPT !.status = "RepairReserved", !.repair_reserved = TRUE]
        \/ \E status \in TerminalStatuses :
             CompleteVerify(s, t) = FinishTerminal(checked, status, status)
    BY <2>3 DEF CompleteVerify, VerificationVerdicts
  <2> HIDE DEF checked
  <2>5. s.status = "Active" /\ s.phase = "Verify"
    BY <1>5 DEF CanCompleteVerify
  <2>6. CASE CompleteVerify(s, t) =
               [checked EXCEPT !.phase = "Apply", !.status = "AwaitingApproval"]
    BY <1>5, <2>1, <2>2, <2>5, <2>6
  <2>7. CASE /\ t.verification.verdict = "Repairable"
             /\ CompleteVerify(s, t) =
                  [checked EXCEPT !.status = "RepairReserved", !.repair_reserved = TRUE]
    BY <1>5, <2>1, <2>2, <2>5, <2>7
  <2>8. CASE \E status \in TerminalStatuses :
               CompleteVerify(s, t) = FinishTerminal(checked, status, status)
    <3>1. PICK status \in TerminalStatuses :
            CompleteVerify(s, t) = FinishTerminal(checked, status, status)
      BY <2>8
    <3>2. n.status = status
      BY <2>1, <2>2, <3>1 DEF FinishTerminal
    <3> QED BY <3>1, <3>2
  <2> QED BY <2>4, <2>6, <2>7, <2>8
<1>6. CASE t.kind = "ConsumeRepair"
  BY <1>6 DEF Transition, ApplyTransition, ConsumeRepair, CanConsumeRepair
<1>7. CASE t.kind = "ApproveApply"
  BY <1>7 DEF Transition, ApplyTransition, ApproveApply, CanApproveApply
<1>8. CASE t.kind = "StartApply"
  BY <1>8 DEF Transition, ApplyTransition, StartApply, CanStartApply
<1>9. CASE t.kind = "FinishApply"
  <2>1. t.status \in FinishedApply
    BY <1>9 DEF Transitions
  <2> QED
    BY <1>9, <2>1 DEF Transition, ApplyTransition, FinishApply, FinishTerminal,
                      FinishedApply, CanFinishApply
<1>10. CASE t.kind \in {"Cancel", "Fail"}
  BY <1>10 DEF Transition, ApplyTransition, FinishTerminal
<1> QED
  BY <1>1, <1>2, <1>3, <1>4, <1>5, <1>6, <1>7, <1>8, <1>9, <1>10
=============================================================================
