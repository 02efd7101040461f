--------------------------- MODULE LifecycleStore ---------------------------
(***************************************************************************)
(* The persisted lifecycle of one change and the parents that advance it:  *)
(* crates/needle-runtime/src/store/lifecycles.rs.                          *)
(*                                                                         *)
(* The store keeps a projection (the row of change_lifecycles) and an      *)
(* append-only journal (the lifecycle rows of change_events).  Every store *)
(* call is one serializable SQLite transaction, hence one action.  Parents *)
(* (kernels, the control plane) read a projection, work on it for as long  *)
(* as they like, and commit against the digest they read.  Lifecycles of   *)
(* different changes share no rows, so one change is enough.               *)
(***************************************************************************)
EXTENDS LifecycleMachine

CONSTANTS
  Parents,        \* processes that hold the store capability
  TurnChoices,    \* bound: worker turns a completion may report
  ArtifactLists   \* bound: exploration artifact lists a parent may offer

ASSUME OffersAssumption ==
  /\ TurnChoices \subseteq Nat
  /\ ArtifactLists \subseteq Seq(Nat)

VARIABLES
  lc,             \* the stored projection, None before create_lifecycle
  journal,        \* the lifecycle events, in sequence order
  view,           \* parent -> the projection it last read
  testedPatch     \* history: the patch that produced the stored test results

vars == <<lc, journal, view, testedPatch>>

Digests == LifecycleState \cup {None}

Init ==
  /\ lc = None
  /\ journal = <<>>
  /\ view = [p \in Parents |-> None]
  /\ testedPatch = None

-----------------------------------------------------------------------------
(* Transactions *)

\* create_lifecycle: refused when a lifecycle exists.
CreateLifecycle ==
  /\ lc = None
  /\ lc' = NewLifecycle
  /\ UNCHANGED <<journal, view, testedPatch>>

\* lifecycle(), replay_lifecycle(): a read of the current projection.
ReadProjection(p) ==
  /\ lc # None
  /\ view' = [view EXCEPT ![p] = lc]
  /\ UNCHANGED <<lc, journal, testedPatch>>

\* The parent process dies and forgets what it read.
ParentCrash(p) ==
  /\ view[p] # None
  /\ view' = [view EXCEPT ![p] = None]
  /\ UNCHANGED <<lc, journal, testedPatch>>

\* Fault: the write does not compare digests.
AnyDigest(expected) == TRUE

\* The compare-and-swap of persist_transition.
DigestMatches(expected) == StateDigest(lc) = expected

\* persist_transition: projection and event in one transaction.
PersistTransition(expected, t) ==
  /\ lc # None
  /\ DigestMatches(expected)
  /\ Accepted(lc, t)
  /\ lc' = Transition(lc, t)
  /\ journal' = Append(journal, Event(lc, t))

\* The worker a parent launched for a phase, as it reports back.
Completion(phase, turns) ==
  [depth |-> 1, spawns |-> 1, profile |-> FrozenProfile[phase], turns |-> turns]

\* What a parent that works on state v may commit with
\* parent_transition_lifecycle; the reserved kinds are not among them.
ParentOffers(v) ==
  CASE v.phase = "Explore" ->
         [kind : {"CompleteExplore"}, artifacts : ArtifactLists,
          worker : {Completion("Explore", n) : n \in TurnChoices}]
    [] v.phase = "Implement" ->
         [kind : {"CompleteImplement"}, patch : PatchRefs,
          worker : {Completion("Implement", n) : n \in TurnChoices}]
    [] v.phase = "Test" ->
         [kind : {"CompleteTest"}, results : [1..TestPlanCount -> TestOutcomes],
          worker : {Completion("Test", n) : n \in TurnChoices}]
    [] v.phase = "Review" ->
         [kind : {"CompleteReview"},
          review : [patch : {v.patch.id}, verdict : ReviewVerdicts],
          worker : {Completion("Review", n) : n \in TurnChoices}]
    [] v.phase = "Verify" ->
         [kind : {"CompleteVerify"},
          verification : [id : VerificationIds, patch : {v.patch.id},
                          verdict : VerificationVerdicts],
          worker : {Completion("Verify", n) : n \in TurnChoices}]
    [] v.phase = "Apply" -> {}

\* parent_transition_lifecycle with the completion of a worker.
CommitCompletion(p) ==
  /\ view[p] # None
  /\ ~Terminal(view[p])
  /\ \E t \in ParentOffers(view[p]) :
       /\ PersistTransition(view[p], t)
       /\ testedPatch' =
            IF t.kind = "CompleteTest" THEN view[p].patch ELSE testedPatch
       /\ view' = [view EXCEPT ![p] = lc']

\* parent_transition_lifecycle with Cancel or Fail.
CommitTerminal(p) ==
  /\ view[p] # None
  /\ \E kind \in {"Cancel", "Fail"} : PersistTransition(view[p], [kind |-> kind])
  /\ view' = [view EXCEPT ![p] = lc']
  /\ UNCHANGED testedPatch

\* approve_lifecycle_apply: the approval is built from a projection read
\* outside the transaction that records it.
ApproveLifecycleApply(p) ==
  /\ view[p] # None
  /\ view[p].phase = "Apply" /\ view[p].status = "AwaitingApproval"
  /\ PersistTransition(view[p],
       [kind |-> "ApproveApply",
        approval |-> [digest |-> StateDigest(view[p]),
                      patch |-> view[p].patch.id,
                      verification |-> view[p].verification.id]])
  /\ view' = [view EXCEPT ![p] = lc']
  /\ UNCHANGED testedPatch

\* begin_lifecycle_apply with the digest the caller supplies.
BeginLifecycleApply(p) ==
  /\ view[p] # None
  /\ \E id \in ApplyIds :
       PersistTransition(view[p], [kind |-> "StartApply", apply_id |-> id])
  /\ UNCHANGED <<view, testedPatch>>

\* consume_lifecycle_repair, finish_lifecycle_apply and fail_lifecycle read
\* the projection in the transaction that changes it.
ConsumeLifecycleRepair ==
  /\ PersistTransition(lc, [kind |-> "ConsumeRepair"])
  /\ UNCHANGED <<view, testedPatch>>

FinishLifecycleApply ==
  /\ \E id \in ApplyIds, status \in FinishedApply :
       PersistTransition(lc,
         [kind |-> "FinishApply", apply_id |-> id, status |-> status])
  /\ UNCHANGED <<view, testedPatch>>

FailLifecycle ==
  /\ lc # None
  /\ lc.status = "Active" /\ lc.phase \in {"Explore", "Implement"}
  /\ PersistTransition(lc, [kind |-> "Fail"])
  /\ UNCHANGED <<view, testedPatch>>

Next ==
  \/ CreateLifecycle
  \/ ConsumeLifecycleRepair
  \/ FinishLifecycleApply
  \/ FailLifecycle
  \/ \E p \in Parents :
       \/ ReadProjection(p)
       \/ ParentCrash(p)
       \/ CommitCompletion(p)
       \/ CommitTerminal(p)
       \/ ApproveLifecycleApply(p)
       \/ BeginLifecycleApply(p)

Spec == Init /\ [][Next]_vars

-----------------------------------------------------------------------------
(* Properties *)

Events ==
  [transition : Transitions, prior : LifecycleState, result : LifecycleState]

\* The store holds well-formed projections, events and reads.
TypeOK ==
  /\ lc \in Digests
  /\ view \in [Parents -> Digests]
  /\ testedPatch \in PatchRefs \cup {None}
  /\ journal \in Seq(Events)

\* The generation counts progress: it is fixed by how far the lifecycle has
\* come, so no interleaving of parents, repair or apply can use up the 16
\* events that validate() and the journal reader allow.
GenerationCountsProgress ==
  lc # None =>
    /\ ~Terminal(lc) => lc.generation = Progress(lc)
    /\ lc.generation <= MaxGeneration

\* Whatever the transition rules of apply_transition let through is also
\* accepted by the validate() that runs on the result: no legal step of a
\* reachable lifecycle is refused, so none gets stuck with a stored state
\* that only an illegal step would leave.  (An exploration list must be
\* sorted: that alone is left to validate().)
LegalTransitionNeverRefused ==
  lc # None /\ ~Terminal(lc) =>
    \A t \in ParentOffers(lc)
         \cup [kind : {"ConsumeRepair", "Cancel", "Fail"}]
         \cup [kind : {"StartApply"}, apply_id : ApplyIds]
         \cup [kind : {"FinishApply"}, apply_id : ApplyIds,
               status : FinishedApply] :
      Guard(lc, t) /\ (t.kind = "CompleteExplore" => StrictlySorted(t.artifacts))
        => Validate(Transition(lc, t))

\* Restart: replaying the journal gives exactly the stored projection.
ReplayMatchesProjection == lc # None => Replay(journal) = lc

\* Test results carry no patch identity.  They are still always results of
\* the patch they are stored with: a parent that tested revision 1 cannot
\* commit them after the repair has replaced it.
TestEvidenceOfCurrentPatch ==
  lc # None /\ lc.tests # <<>> => testedPatch = lc.patch

\* A terminal lifecycle never changes again, whoever still holds a read of it.
TerminalIsFinal == [][lc # None /\ Terminal(lc) => lc' = lc]_vars

=============================================================================
