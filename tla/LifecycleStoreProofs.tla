------------------------ MODULE LifecycleStoreProofs ------------------------
(***************************************************************************)
(* Theorems about LifecycleStore, for every value of its constants.        *)
(***************************************************************************)
EXTENDS LifecycleStore, LifecycleMachineProofs, WellFoundedInduction

-----------------------------------------------------------------------------
(* The store *)

\* The inductive invariant of the store.
StoreInv ==
  /\ TypeOK
  /\ lc # None => Good(lc)
  /\ TestEvidenceOfCurrentPatch

\* What a parent offers in a good state is a transition.
LEMMA OffersAreTransitions ==
  ASSUME NEW s \in LifecycleState, Good(s), ~Terminal(s), NEW t \in ParentOffers(s)
  PROVE  t \in Transitions
<1>1. /\ ArtifactChain(s) /\ ActiveShape(s)
  BY DEF Good, Validate, StatusShape
<1>2. \A phase \in WorkerPhases, turns \in TurnChoices :
        Completion(phase, turns) \in WorkerCompletions
  BY SpecAssumption, OffersAssumption DEF Completion, WorkerCompletions
<1>3. s.phase \in {"Review", "Verify"} => s.patch # None
  <2>1. s.tests # <<>> \/ s.review # None \/ s.verification # None => s.patch # None
    BY <1>1 DEF ArtifactChain
  <2>2. s.phase = "Review" => Len(s.tests) = TestPlanCount
    BY <1>1 DEF ActiveShape
  <2>3. s.phase = "Review" => s.tests # <<>>
    BY <2>2, SpecAssumption DEF MAX_LIFECYCLE_TEST_PLANS
  <2>4. s.phase = "Verify" => s.review # None \/ s.verification # None
    BY <1>1 DEF ActiveShape
  <2> QED BY <2>1, <2>3, <2>4
<1>4. s.patch # None => s.patch.id \in PatchIds
  BY DEF LifecycleState, StatesWith, PatchRefs
<1>5. CASE s.phase = "Explore"
  BY <1>2, <1>5, OffersAssumption DEF ParentOffers, Transitions, WorkerPhases
<1>6. CASE s.phase = "Implement"
  BY <1>2, <1>6 DEF ParentOffers, Transitions, WorkerPhases
<1>7. CASE s.phase = "Test"
  <2>1. t \in [kind : {"CompleteTest"}, results : [1..TestPlanCount -> TestOutcomes],
               worker : WorkerCompletions]
    BY <1>2, <1>7 DEF ParentOffers, WorkerPhases
  <2>2. t.results \in Seq(TestOutcomes)
    BY <2>1, SpecAssumption DEF MAX_LIFECYCLE_TEST_PLANS
  <2> QED BY <2>1, <2>2 DEF Transitions
<1>8. CASE s.phase = "Review"
  BY <1>2, <1>3, <1>4, <1>8 DEF ParentOffers, Transitions, WorkerPhases, Reviews
<1>9. CASE s.phase = "Verify"
  BY <1>2, <1>3, <1>4, <1>9
     DEF ParentOffers, Transitions, WorkerPhases, Verifications
<1>10. CASE s.phase = "Apply"
  BY <1>10 DEF ParentOffers
<1> QED
  BY <1>5, <1>6, <1>7, <1>8, <1>9, <1>10
     DEF LifecycleState, StatesWith, Phases, WorkerPhases

\* persist_transition keeps the projection good and the journal well formed.
LEMMA PersistStep ==
  ASSUME StoreInv, NEW expected, NEW t \in Transitions,
         PersistTransition(expected, t)
  PROVE  /\ lc \in LifecycleState /\ Good(lc) /\ ~Terminal(lc) /\ Guard(lc, t)
         /\ lc' \in LifecycleState /\ Good(lc') /\ lc' # None
         /\ lc' = Transition(lc, t)
         /\ journal' \in Seq(Events)
         /\ expected = lc
<1>1. /\ lc # None /\ Accepted(lc, t) /\ lc' = Transition(lc, t)
      /\ journal' = Append(journal, Event(lc, t))
      /\ expected = lc
  BY DEF PersistTransition, DigestMatches, StateDigest
<1>2. lc \in LifecycleState /\ Good(lc) /\ ~Terminal(lc) /\ Guard(lc, t)
  BY <1>1 DEF StoreInv, TypeOK, Digests, Accepted
<1>4. lc' \in LifecycleState /\ Good(lc')
  BY <1>1, <1>2, AcceptedIsGood
<1>5. Event(lc, t) \in Events
  BY <1>1, <1>2, <1>4 DEF Event, Events, StateDigest
<1>6. journal' \in Seq(Events)
  BY <1>1, <1>5 DEF StoreInv, TypeOK
<1> QED BY <1>1, <1>2, <1>4, <1>6, NoneIsNotData

\* The test evidence survives every persisted transition that says who made
\* new results.
LEMMA EvidenceStep ==
  ASSUME StoreInv, NEW expected, NEW t \in Transitions,
         PersistTransition(expected, t),
         testedPatch' = IF t.kind = "CompleteTest" THEN lc.patch ELSE testedPatch
  PROVE  /\ TestEvidenceOfCurrentPatch'
         /\ testedPatch' \in PatchRefs \cup {None}
<1>1. \/ lc'.tests = <<>>
      \/ lc'.patch = lc.patch /\ (t.kind # "CompleteTest" => lc'.tests = lc.tests)
  BY PersistStep, TestsStep
<1>2. /\ lc # None /\ (lc.tests # <<>> => testedPatch = lc.patch)
      /\ lc.patch \in PatchRefs \cup {None}
      /\ testedPatch \in PatchRefs \cup {None}
  BY PersistStep, NoneIsNotData
     DEF StoreInv, TypeOK, TestEvidenceOfCurrentPatch, LifecycleState, StatesWith
<1> QED BY <1>1, <1>2 DEF TestEvidenceOfCurrentPatch

\* An empty store satisfies it.
LEMMA StoreInvInit == Init => StoreInv
BY DEF Init, StoreInv, TypeOK, Digests, TestEvidenceOfCurrentPatch

\* Every store call keeps the invariant.
LEMMA StoreInvStep == StoreInv /\ [Next]_vars => StoreInv'
<1> SUFFICES ASSUME StoreInv, [Next]_vars PROVE StoreInv'
  OBVIOUS
\* A persisted transition with its frame.
<1>p. ASSUME NEW expected, NEW t \in Transitions,
             PersistTransition(expected, t),
             testedPatch' = IF t.kind = "CompleteTest" THEN lc.patch
                            ELSE testedPatch,
             view' = view \/ \E p \in Parents : view' = [view EXCEPT ![p] = lc']
      PROVE  StoreInv'
  <2>1. view' \in [Parents -> Digests']
    BY <1>p, PersistStep DEF StoreInv, TypeOK, Digests
  <2> QED
    BY <1>p, <2>1, PersistStep, EvidenceStep DEF StoreInv, TypeOK, Digests
<1>1. CASE CreateLifecycle
  BY <1>1, NewIsGood
     DEF CreateLifecycle, StoreInv, TypeOK, Digests, TestEvidenceOfCurrentPatch,
         NewLifecycle
<1>2. CASE ConsumeLifecycleRepair
  <2> DEFINE t == [kind |-> "ConsumeRepair"]
  <2>1. t \in Transitions /\ t.kind # "CompleteTest"
    BY DEF Transitions
  <2> HIDE DEF t
  <2>2. PersistTransition(lc, t) /\ UNCHANGED <<view, testedPatch>>
    BY <1>2 DEF ConsumeLifecycleRepair, t
  <2> QED BY <2>1, <2>2, <1>p
<1>3. CASE FinishLifecycleApply
  <2>1. PICK id \in ApplyIds, status \in FinishedApply :
          PersistTransition(lc,
            [kind |-> "FinishApply", apply_id |-> id, status |-> status])
    BY <1>3 DEF FinishLifecycleApply
  <2> DEFINE t == [kind |-> "FinishApply", apply_id |-> id, status |-> status]
  <2>2. t \in Transitions /\ t.kind # "CompleteTest"
    BY DEF Transitions
  <2>3. PersistTransition(lc, t) /\ UNCHANGED <<view, testedPatch>>
    BY <2>1, <1>3 DEF FinishLifecycleApply
  <2> HIDE DEF t
  <2> QED BY <2>2, <2>3, <1>p
<1>4. CASE FailLifecycle
  <2> DEFINE t == [kind |-> "Fail"]
  <2>1. t \in Transitions /\ t.kind # "CompleteTest"
    BY DEF Transitions
  <2> HIDE DEF t
  <2>2. PersistTransition(lc, t) /\ UNCHANGED <<view, testedPatch>>
    BY <1>4 DEF FailLifecycle, t
  <2> QED BY <2>1, <2>2, <1>p
<1>5. ASSUME NEW p \in Parents, ReadProjection(p)
      PROVE  StoreInv'
  BY <1>5 DEF ReadProjection, StoreInv, TypeOK, Digests,
              TestEvidenceOfCurrentPatch
<1>6. ASSUME NEW p \in Parents, ParentCrash(p)
      PROVE  StoreInv'
  BY <1>6 DEF ParentCrash, StoreInv, TypeOK, Digests, TestEvidenceOfCurrentPatch
<1>7. ASSUME NEW p \in Parents, CommitCompletion(p)
      PROVE  StoreInv'
  <2>1. PICK t \in ParentOffers(view[p]) :
          /\ PersistTransition(view[p], t)
          /\ testedPatch' =
               IF t.kind = "CompleteTest" THEN view[p].patch ELSE testedPatch
          /\ view' = [view EXCEPT ![p] = lc']
    BY <1>7 DEF CommitCompletion
  <2>2. view[p] = lc /\ lc # None /\ ~Terminal(lc)
    BY <1>7, <2>1
       DEF CommitCompletion, PersistTransition, DigestMatches, StateDigest
  <2>3. t \in Transitions
    BY <2>2, OffersAreTransitions DEF StoreInv, TypeOK, Digests
  <2> QED BY <2>1, <2>2, <2>3, <1>p
<1>8. ASSUME NEW p \in Parents, CommitTerminal(p)
      PROVE  StoreInv'
  <2>1. PICK kind \in {"Cancel", "Fail"} :
          PersistTransition(view[p], [kind |-> kind])
    BY <1>8 DEF CommitTerminal
  <2> DEFINE t == [kind |-> kind]
  <2>2. t \in Transitions /\ t.kind # "CompleteTest"
    BY DEF Transitions
  <2>3. /\ PersistTransition(view[p], t) /\ testedPatch' = testedPatch
        /\ view' = [view EXCEPT ![p] = lc']
    BY <2>1, <1>8 DEF CommitTerminal
  <2> HIDE DEF t
  <2> QED BY <2>2, <2>3, <1>p
<1>9. ASSUME NEW p \in Parents, ApproveLifecycleApply(p)
      PROVE  StoreInv'
  <2> DEFINE a == [digest |-> StateDigest(view[p]), patch |-> view[p].patch.id,
                   verification |-> view[p].verification.id]
             t == [kind |-> "ApproveApply", approval |-> a]
  <2>1. /\ PersistTransition(view[p], t) /\ testedPatch' = testedPatch
        /\ view' = [view EXCEPT ![p] = lc']
        /\ view[p].status = "AwaitingApproval"
        /\ view[p].phase = "Apply"
    BY <1>9 DEF ApproveLifecycleApply
  <2>2. view[p] = lc /\ lc \in LifecycleState /\ Good(lc)
    BY <2>1 DEF PersistTransition, DigestMatches, StateDigest, StoreInv, TypeOK,
                Digests
  <2>3. ~Terminal(lc)
    BY <2>1, <2>2 DEF Terminal, TerminalStatuses
  <2>4. lc.approval = None /\ lc.patch # None /\ lc.verification # None
    BY <2>1, <2>2, <2>3 DEF Good, Validate, StatusShape, ActiveShape, ArtifactChain
  <2>5. lc \in StatesWith({None})
    BY <2>2, <2>4 DEF LifecycleState, StatesWith
  <2>6. lc.patch.id \in PatchIds /\ lc.verification.id \in VerificationIds
    BY <2>2, <2>4 DEF LifecycleState, StatesWith, PatchRefs, Verifications
  <2>7. a \in Approvals
    BY <2>2, <2>5, <2>6 DEF Approvals, StateDigest
  <2> HIDE DEF a
  <2>8. t \in Transitions /\ t.kind # "CompleteTest"
    BY <2>7 DEF Transitions
  <2> HIDE DEF t
  <2> QED BY <2>1, <2>8, <1>p
<1>10. ASSUME NEW p \in Parents, BeginLifecycleApply(p)
       PROVE  StoreInv'
  <2>1. PICK id \in ApplyIds :
          PersistTransition(view[p], [kind |-> "StartApply", apply_id |-> id])
    BY <1>10 DEF BeginLifecycleApply
  <2> DEFINE t == [kind |-> "StartApply", apply_id |-> id]
  <2>2. t \in Transitions /\ t.kind # "CompleteTest"
    BY DEF Transitions
  <2>3. PersistTransition(view[p], t) /\ UNCHANGED <<view, testedPatch>>
    BY <2>1, <1>10 DEF BeginLifecycleApply
  <2> HIDE DEF t
  <2> QED BY <2>2, <2>3, <1>p
<1>11. CASE UNCHANGED vars
  BY <1>11 DEF vars, StoreInv, TypeOK, Digests, TestEvidenceOfCurrentPatch
<1> QED
  BY <1>1, <1>2, <1>3, <1>4, <1>5, <1>6, <1>7, <1>8, <1>9, <1>10, <1>11 DEF Next

\* The strengthened invariant holds in every reachable state of the store.
THEOREM StoreInvariant == Spec => []StoreInv
BY StoreInvInit, StoreInvStep, PTL DEF Spec

\* Every stored projection, read and event is well formed, whatever the
\* parents do.
THEOREM TypeCorrectness == Spec => []TypeOK
<1>1. StoreInv => TypeOK
  BY DEF StoreInv
<1> QED BY <1>1, StoreInvariant, PTL

\* The 16 events that validate() and the journal reader allow are never used
\* up: 13 is the longest run, and the generation is the progress made.
THEOREM GenerationBound == Spec => []GenerationCountsProgress
<1>1. StoreInv => GenerationCountsProgress
  BY DEF StoreInv, Good, GenerationCountsProgress
<1> QED BY <1>1, StoreInvariant, PTL

\* No stored lifecycle gets stuck: validate() accepts whatever the guards of
\* apply_transition let through.
THEOREM NoLegalStepRefused == Spec => []LegalTransitionNeverRefused
<1>1. ASSUME StoreInv PROVE LegalTransitionNeverRefused
  <2> SUFFICES ASSUME lc # None, ~Terminal(lc),
                      NEW t \in ParentOffers(lc)
                        \cup [kind : {"ConsumeRepair", "Cancel", "Fail"}]
                        \cup [kind : {"StartApply"}, apply_id : ApplyIds]
                        \cup [kind : {"FinishApply"}, apply_id : ApplyIds,
                              status : FinishedApply],
                      Guard(lc, t),
                      t.kind = "CompleteExplore" => StrictlySorted(t.artifacts)
               PROVE  Validate(Transition(lc, t))
    BY DEF LegalTransitionNeverRefused
  <2>1. lc \in LifecycleState /\ Good(lc)
    BY <1>1 DEF StoreInv, TypeOK, Digests
  <2>2. t \in Transitions
    BY <2>1, OffersAreTransitions DEF Transitions
  <2> QED BY <2>1, <2>2, GuardImpliesGood DEF Good
<1> QED BY <1>1, StoreInvariant, PTL

\* Stored test results always belong to the stored patch, although they do
\* not name it.
THEOREM TestEvidence == Spec => []TestEvidenceOfCurrentPatch
<1>1. StoreInv => TestEvidenceOfCurrentPatch
  BY DEF StoreInv
<1> QED BY <1>1, StoreInvariant, PTL

\* No store call, whoever makes it, changes a terminal lifecycle.
THEOREM TerminalStaysFinal == Spec => TerminalIsFinal
<1>1. [Next]_vars => [lc # None /\ Terminal(lc) => lc' = lc]_vars
  <2> SUFFICES ASSUME Next, lc # None, Terminal(lc) PROVE lc' = lc
    BY DEF vars
  <2>1. \A expected, t : ~PersistTransition(expected, t)
    BY DEF PersistTransition, Accepted
  <2> QED
    BY <2>1 DEF Next, CreateLifecycle, ReadProjection, ParentCrash,
                CommitCompletion, CommitTerminal, ApproveLifecycleApply,
                BeginLifecycleApply, ConsumeLifecycleRepair,
                FinishLifecycleApply, FailLifecycle
<1> QED BY <1>1, PTL DEF Spec, TerminalIsFinal

-----------------------------------------------------------------------------
(* Induction over numbers *)

\* A non-empty set of natural numbers has a least element.
LEMMA LeastNumber ==
  ASSUME NEW S, S \subseteq Nat, S # {}
  PROVE  \E n \in S : \A m \in S : n <= m
<1>1. PICK n \in S : \A m \in S : ~(<<m, n>> \in OpToRel(<, Nat))
  BY NatLessThanWellFounded, WFMin
<1>2. \A m \in S : <<m, n>> \in OpToRel(<, Nat) <=> m < n
  BY DEF OpToRel
<1>3. \A m \in S : ~(m < n)
  BY <1>1, <1>2
<1>4. \A m \in S : m \in Nat /\ n \in Nat
  OBVIOUS
<1>5. \A m \in S : n <= m
  BY <1>3, <1>4
<1> QED BY <1>5

\* Induction: a set with 0 that is closed under successors up to n holds 0 .. n.
LEMMA CountsUp ==
  ASSUME NEW n \in Nat, NEW S, 0 \in S, \A k \in 0 .. (n - 1) : k \in S => k + 1 \in S
  PROVE  \A k \in 0 .. n : k \in S
<1> SUFFICES ASSUME NEW j \in 0 .. n, j \notin S PROVE FALSE
  OBVIOUS
<1> DEFINE T == {k \in 0 .. n : k \notin S}
<1>1. PICK k \in T : \A m \in T : k <= m
  <2>1. T \subseteq Nat /\ T # {}
    OBVIOUS
  <2> QED BY <2>1, LeastNumber
<1>2. k # 0 /\ k - 1 \in 0 .. (n - 1)
  OBVIOUS
<1>3. k - 1 \in S
  BY <1>1, <1>2
<1>4. (k - 1) + 1 \in S
  BY <1>2, <1>3
<1> QED BY <1>4, <1>1

-----------------------------------------------------------------------------
(* Replay *)

\* One round of replay().
ReplayStep(before, event) ==
  IF /\ before # None
     /\ event.prior = StateDigest(before)
     /\ Accepted(before, event.transition)
     /\ event = Event(before, event.transition)
  THEN Transition(before, event.transition)
  ELSE None

\* f holds the states that replaying the first n events passes through.
Passes(f, events, n) ==
  f = [k \in 0 .. n |-> IF k = 0 THEN NewLifecycle ELSE ReplayStep(f[k - 1], events[k])]

\* A replay of the first events goes on with the next one.
LEMMA PassesFrom ==
  ASSUME NEW events, NEW n \in Nat, NEW f, Passes(f, events, n)
  PROVE  \E g : Passes(g, events, n + 1)
<1> DEFINE g == [k \in 0 .. (n + 1) |->
                   IF k <= n THEN f[k] ELSE ReplayStep(f[n], events[n + 1])]
           h == [k \in 0 .. (n + 1) |->
                   IF k = 0 THEN NewLifecycle ELSE ReplayStep(g[k - 1], events[k])]
<1>0. \A k \in 0 .. n : f[k] = IF k = 0 THEN NewLifecycle ELSE ReplayStep(f[k - 1], events[k])
  BY DEF Passes
<1>1. \A k \in 0 .. n : g[k] = f[k]
  OBVIOUS
<1>2. ASSUME NEW k \in 0 .. (n + 1) PROVE g[k] = h[k]
  <2>1. CASE k = 0
    BY <2>1, <1>0, <1>1
  <2>2. CASE k \in 1 .. n
    <3>1. k - 1 \in 0 .. n /\ k \in 0 .. n /\ k # 0
      BY <2>2
    <3>2. g[k] = ReplayStep(f[k - 1], events[k])
      BY <1>0, <1>1, <3>1
    <3>3. g[k - 1] = f[k - 1]
      BY <1>1, <3>1
    <3>4. h[k] = ReplayStep(g[k - 1], events[k])
      BY <3>1
    <3> QED BY <3>2, <3>3, <3>4
  <2>3. CASE k = n + 1
    <3>1. g[k] = ReplayStep(f[n], events[n + 1])
      BY <2>3
    <3>2. g[k - 1] = f[n]
      BY <1>1, <2>3
    <3>3. h[k] = ReplayStep(g[k - 1], events[k])
      BY <2>3
    <3> QED BY <3>1, <3>2, <3>3, <2>3
  <2> QED BY <2>1, <2>2, <2>3
<1>3. g = [k \in 0 .. (n + 1) |-> g[k]] /\ h = [k \in 0 .. (n + 1) |-> h[k]]
  OBVIOUS
<1> HIDE DEF g
<1>4. g = h
  <2> HIDE DEF h
  <2> QED BY <1>2, <1>3
<1>5. Passes(g, events, n + 1)
  BY <1>4 DEF Passes
<1> QED BY <1>5

\* There is a replay of every journal.
LEMMA PassesExist ==
  ASSUME NEW events, NEW n \in Nat
  PROVE  \E f : Passes(f, events, n)
<1> DEFINE S == {k \in Nat : \E f : Passes(f, events, k)}
<1>1. 0 \in S
  <2>1. Passes([k \in 0 .. 0 |-> NewLifecycle], events, 0)
    BY DEF Passes
  <2> QED BY <2>1
<1>2. \A k \in 0 .. (n - 1) : k \in S => k + 1 \in S
  BY PassesFrom
<1> HIDE DEF S
<1>3. n \in S
  BY <1>1, <1>2, CountsUp
<1> QED BY <1>3 DEF S

\* Two journals that agree on the first n events pass through the same states.
LEMMA PassesAgree ==
  ASSUME NEW e1, NEW e2, NEW m1 \in Nat, NEW m2 \in Nat, NEW n \in Nat, n <= m1, n <= m2,
         NEW f, NEW g, Passes(f, e1, m1), Passes(g, e2, m2),
         \A k \in 1 .. n : e1[k] = e2[k]
  PROVE  f[n] = g[n]
<1> DEFINE S == {k \in 0 .. n : f[k] = g[k]}
<1>0. /\ \A k \in 0 .. m1 : f[k] = IF k = 0 THEN NewLifecycle ELSE ReplayStep(f[k - 1], e1[k])
      /\ \A k \in 0 .. m2 : g[k] = IF k = 0 THEN NewLifecycle ELSE ReplayStep(g[k - 1], e2[k])
  BY DEF Passes
<1>1. 0 \in S
  BY <1>0
<1>2. ASSUME NEW k \in 0 .. (n - 1), k \in S PROVE k + 1 \in S
  <2>1. k + 1 \in 1 .. n /\ k + 1 \in 0 .. m1 /\ k + 1 \in 0 .. m2 /\ k + 1 # 0 /\ (k + 1) - 1 = k
    OBVIOUS
  <2>2. f[k + 1] = ReplayStep(f[k], e1[k + 1]) /\ g[k + 1] = ReplayStep(g[k], e2[k + 1])
    BY <1>0, <2>1
  <2>3. e1[k + 1] = e2[k + 1] /\ f[k] = g[k]
    BY <1>2, <2>1
  <2> QED BY <2>1, <2>2, <2>3
<1> HIDE DEF S
<1>3. n \in S
  BY <1>1, <1>2, CountsUp
<1> QED BY <1>3 DEF S

\* Replay is the replay of all events, in order.
LEMMA ReplayPasses ==
  ASSUME NEW events, Len(events) \in Nat
  PROVE  \E f : Passes(f, events, Len(events)) /\ Replay(events) = f[Len(events)]
<1> DEFINE f == CHOOSE f : f = [k \in 0 .. Len(events) |->
                   IF k = 0 THEN NewLifecycle ELSE ReplayStep(f[k - 1], events[k])]
<1>1. Passes(f, events, Len(events))
  <2>1. \E g : g = [k \in 0 .. Len(events) |->
                   IF k = 0 THEN NewLifecycle ELSE ReplayStep(g[k - 1], events[k])]
    BY PassesExist DEF Passes
  <2> QED BY <2>1 DEF Passes
<1>2. Replay(events) = f[Len(events)]
  BY DEF Replay, ReplayStep
<1> QED BY <1>1, <1>2

\* Replay of no event.
LEMMA ReplayNone == Replay(<<>>) = NewLifecycle
<1>1. PICK f : Passes(f, <<>>, 0) /\ Replay(<<>>) = f[0]
  BY ReplayPasses
<1> QED BY <1>1 DEF Passes

\* Replay of one more event.
LEMMA ReplayAppend ==
  ASSUME NEW events \in Seq(Events), NEW e \in Events
  PROVE  Replay(Append(events, e)) = ReplayStep(Replay(events), e)
<1> DEFINE n == Len(events)
           longer == Append(events, e)
<1>1. n \in Nat /\ Len(longer) = n + 1 /\ longer[n + 1] = e /\ \A k \in 1 .. n : events[k] = longer[k]
  OBVIOUS
<1>2. PICK f : Passes(f, events, n) /\ Replay(events) = f[n]
  BY <1>1, ReplayPasses
<1> HIDE DEF n, longer
<1>3. PICK g : Passes(g, longer, n + 1) /\ Replay(longer) = g[n + 1]
  <2>1. Len(longer) \in Nat
    BY <1>1
  <2>2. \E g : Passes(g, longer, Len(longer)) /\ Replay(longer) = g[Len(longer)]
    BY <2>1, ReplayPasses
  <2> QED BY <1>1, <2>2
<1>4. n <= n + 1 /\ n <= n /\ n + 1 \in Nat
  BY <1>1
<1>5. f[n] = g[n]
  BY <1>1, <1>2, <1>3, <1>4, PassesAgree
<1>6. g[n + 1] = ReplayStep(g[n], longer[n + 1])
  <2>1. n + 1 \in 0 .. (n + 1) /\ n + 1 # 0 /\ (n + 1) - 1 = n
    BY <1>1
  <2> QED BY <1>3, <2>1 DEF Passes
<1>7. Replay(longer) = ReplayStep(Replay(events), e)
  BY <1>1, <1>2, <1>3, <1>5, <1>6
<1> QED BY <1>7 DEF longer

-----------------------------------------------------------------------------
(* The journal and the projection *)

\* What the store keeps in step: no event before the lifecycle is created, and
\* the projection is what the journal replays to.
JournalInv ==
  /\ lc = None => journal = <<>>
  /\ ReplayMatchesProjection

\* An appended event takes the replay to the projection it was written with.
LEMMA JournalGrows ==
  ASSUME StoreInv, StoreInv', JournalInv, NEW expected, NEW t, PersistTransition(expected, t)
  PROVE  JournalInv'
<1>1. /\ lc # None /\ Accepted(lc, t) /\ lc' = Transition(lc, t)
      /\ journal' = Append(journal, Event(lc, t))
  BY DEF PersistTransition
<1>2. journal \in Seq(Events) /\ journal' \in Seq(Events)
  BY DEF StoreInv, TypeOK
<1> DEFINE e == Event(lc, t)
<1>3. e \in Events
  <2>1. Len(journal) + 1 \in DOMAIN journal' /\ journal'[Len(journal) + 1] = e
    BY <1>1, <1>2
  <2> QED BY <1>2, <2>1
<1>4. e.prior = StateDigest(lc) /\ e.transition = t /\ e.result = Transition(lc, t)
  BY DEF Event, StateDigest
<1>5. ReplayStep(lc, e) = Transition(lc, t)
  <2>1. e = Event(lc, e.transition)
    BY <1>4
  <2> HIDE DEF e
  <2> QED BY <1>1, <1>4, <2>1 DEF ReplayStep
<1> HIDE DEF e
<1>6. Replay(journal') = lc'
  <2>1. Replay(journal) = lc
    BY <1>1 DEF JournalInv, ReplayMatchesProjection
  <2>2. Replay(Append(journal, e)) = ReplayStep(Replay(journal), e)
    BY <1>2, <1>3, ReplayAppend
  <2> QED BY <1>1, <1>5, <2>1, <2>2 DEF e
<1>7. lc' # None
  BY <1>1, <1>3, <1>4, NoneIsNotData DEF Events
<1> QED BY <1>6, <1>7 DEF JournalInv, ReplayMatchesProjection

\* Every step of the store keeps the journal in agreement with the projection.
LEMMA JournalStep == StoreInv /\ StoreInv' /\ JournalInv /\ [Next]_vars => JournalInv'
<1> SUFFICES ASSUME StoreInv, StoreInv', JournalInv, [Next]_vars PROVE JournalInv'
  OBVIOUS
<1>1. CASE \E expected, t : PersistTransition(expected, t)
  BY <1>1, JournalGrows
<1>2. CASE CreateLifecycle
  <2>1. lc = None /\ lc' = NewLifecycle /\ journal' = journal
    BY <1>2 DEF CreateLifecycle
  <2>2. Replay(journal') = lc'
    BY <2>1, ReplayNone DEF JournalInv
  <2> QED BY <2>1, <2>2 DEF JournalInv, ReplayMatchesProjection, StoreInv
<1>3. CASE UNCHANGED <<lc, journal>>
  BY <1>3 DEF JournalInv, ReplayMatchesProjection
<1> QED
  BY <1>1, <1>2, <1>3 DEF Next, vars, ReadProjection, ParentCrash, CommitCompletion,
     CommitTerminal, ApproveLifecycleApply, BeginLifecycleApply, ConsumeLifecycleRepair,
     FinishLifecycleApply, FailLifecycle

\* Restart never sees another lifecycle than the one that was stored: replaying
\* the journal, however long it is, gives exactly the projection.
THEOREM ReplayIsExact == Spec => []ReplayMatchesProjection
<1>1. Init => JournalInv
  BY DEF Init, JournalInv, ReplayMatchesProjection
<1>2. JournalInv => ReplayMatchesProjection
  BY DEF JournalInv
<1> QED BY <1>1, <1>2, JournalStep, StoreInvariant, PTL DEF Spec
====
