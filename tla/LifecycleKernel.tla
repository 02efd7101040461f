--------------------------- MODULE LifecycleKernel --------------------------
(***************************************************************************)
(* Execution kernels that drive a bound lifecycle:                         *)
(* crates/needle-runtime/src/lifecycle_executor.rs over the transactions   *)
(* of ChangeStore.                                                         *)
(*                                                                         *)
(* A kernel replays the lifecycle, invokes the adapter of the phase and    *)
(* commits what the adapter returned against the digest it replayed.  Any  *)
(* number of kernels work on the same change; a kernel may crash between   *)
(* any two store calls and is started again.  Adapters are external: they  *)
(* persist their artifact and remember their outcome under the invocation  *)
(* id, as the contract of LifecyclePhaseAdapter demands.                   *)
(***************************************************************************)
EXTENDS ChangeStore

CONSTANTS
  Kernels,         \* processes that run LifecycleExecutionKernel::step
  TurnChoices,     \* bound: worker turns an adapter may report
  Verdicts,        \* the verdicts a verifier may reach
  MaxCrashes       \* bound: kernel crashes

\* worker_turns is unsigned.
ASSUME TurnsAssumption == TurnChoices \subseteq Nat

VARIABLES
  kpc,             \* kernel -> "idle" | "loaded" | "invoking" | "returned"
  kview,           \* kernel -> the projection its step replayed
  kout,            \* kernel -> what the adapter returned
  recorded,        \* adapters: the outcomes remembered by invocation id
  cancelled,       \* LifecycleCancellation
  crashes

kernelVars == <<kpc, kview, kout, recorded, cancelled, crashes>>
lifecycleVars == <<vars, kernelVars>>

KInit ==
  /\ Init
  /\ kpc = [k \in Kernels |-> "idle"]
  /\ kview = [k \in Kernels |-> None]
  /\ kout = [k \in Kernels |-> None]
  /\ recorded = {}
  /\ cancelled = FALSE
  /\ crashes = 0

\* The step of kernel k returns to its caller.
StepReturns(k) ==
  /\ kpc' = [kpc EXCEPT ![k] = "idle"]
  /\ kview' = [kview EXCEPT ![k] = None]
  /\ kout' = [kout EXCEPT ![k] = None]

\* parent_transition_lifecycle against the digest kernel k replayed.
Commits(k, t) == kview[k] = lc /\ ArtifactsStored(t) /\ Persist(t)

\* commit_terminal: committed, or the state moved on meanwhile (StaleState).
CommitTerminal(k, kind) ==
  /\ \/ Commits(k, [kind |-> kind])
     \/ kview[k] # lc /\ UNCHANGED lc
  /\ StepReturns(k)
  /\ UNCHANGED <<change, patches, verifs, applies, recorded, cancelled, crashes>>

-----------------------------------------------------------------------------
(* execute_step *)

\* replay(); a terminal lifecycle, and one in the apply phase, is left alone.
Load(k) ==
  /\ kpc[k] = "idle"
  /\ Bound /\ ~Terminal(lc) /\ lc.phase # "Apply"
  /\ kpc' = [kpc EXCEPT ![k] = "loaded"]
  /\ kview' = [kview EXCEPT ![k] = lc]
  /\ UNCHANGED <<vars, kout, recorded, cancelled, crashes>>

CancelBefore(k) ==
  /\ kpc[k] = "loaded" /\ cancelled
  /\ CommitTerminal(k, "Cancel")

\* resume_repair; a conflict is reported as StaleState or as an error.
ResumeRepair(k) ==
  /\ kpc[k] = "loaded" /\ ~cancelled
  /\ kview[k].status = "RepairReserved"
  /\ StepReturns(k)
  /\ LET permitted == LatestPatch = kview[k].patch.id /\ CanBeginRepair
     IN  IF permitted THEN BeginChangeRepair ELSE UNCHANGED vars
  /\ UNCHANGED <<recorded, cancelled, crashes>>

BudgetExhausted(k) ==
  /\ kpc[k] = "loaded" /\ ~cancelled
  /\ kview[k].status = "Active" /\ kview[k].usage = MaxWorkerTurns
  /\ CommitTerminal(k, "Fail")

\* repair_verification: after the repair the latest verification of the
\* latest patch must exist and be repairable.
RepairVerificationFound(s) ==
  s.repair_consumed =>
    \E v \in verifs :
      IsLatest(v, VerificationsOf(LatestPatch)) /\ v.verdict = "Repairable"

ReadyToInvoke(k) ==
  /\ kpc[k] = "loaded" /\ ~cancelled
  /\ kview[k].status = "Active" /\ kview[k].usage < MaxWorkerTurns

Invoke(k) ==
  /\ ReadyToInvoke(k)
  /\ RepairVerificationFound(kview[k])
  /\ kpc' = [kpc EXCEPT ![k] = "invoking"]
  /\ UNCHANGED <<vars, kview, kout, recorded, cancelled, crashes>>

\* LifecycleCorruption: the step returns an error and changes nothing.
RefuseToInvoke(k) ==
  /\ ReadyToInvoke(k)
  /\ ~RepairVerificationFound(kview[k])
  /\ StepReturns(k)
  /\ UNCHANGED <<vars, recorded, cancelled, crashes>>

-----------------------------------------------------------------------------
(* LifecyclePhaseAdapter::invoke *)

\* Fault: the id depends on the attempt.
InvocationIdPerAttempt(k) == [kview[k] EXCEPT !.generation = crashes]

\* invocation_id: fixed by the lifecycle state the request carries.
InvocationId(k) == kview[k]

WorkerOf(phase, turns) ==
  [depth |-> 1, spawns |-> 1, profile |-> FrozenProfile[phase], turns |-> turns]

Completed(t) == [result |-> "Completed", transition |-> t]
Broken == {[result |-> "Failed"], [result |-> "CleanupFailed"],
           [result |-> "Mismatched"]}

\* The completions of the phases whose artifact is not a row of ChangeStore.
Reports(s, turns) ==
  CASE s.phase = "Explore" ->
         [kind : {"CompleteExplore"}, worker : {WorkerOf("Explore", turns)},
          artifacts : {<<1>>}]
    [] s.phase = "Test" ->
         [kind : {"CompleteTest"}, worker : {WorkerOf("Test", turns)},
          results : [1..TestPlanCount -> TestOutcomes]]
    [] s.phase = "Review" ->
         [kind : {"CompleteReview"}, worker : {WorkerOf("Review", turns)},
          review : [patch : {s.patch.id}, verdict : ReviewVerdicts]]
    [] OTHER -> {}

\* The adapter does the work and remembers the outcome.
AdapterWorks(k, outcome) ==
  LET s == kview[k]
  IN  \/ outcome \in Broken /\ UNCHANGED vars
      \/ \E turns \in TurnChoices : \E t \in Reports(s, turns) :
           outcome = Completed(t) /\ UNCHANGED vars
      \/ /\ s.phase = "Implement"
         /\ \E turns \in TurnChoices, patch \in PatchIds :
              LET revision == ExpectedRevision(s)
              IN  /\ RecordPreparedChange(patch, revision)
                  /\ outcome = Completed(
                       [kind |-> "CompleteImplement",
                        worker |-> WorkerOf("Implement", turns),
                        patch |-> [id |-> patch, revision |-> revision]])
      \/ /\ s.phase = "Verify"
         /\ \E turns \in TurnChoices, v \in VerificationRows :
              /\ v.verdict \in Verdicts
              /\ RecordVerificationArtifact(v)
              /\ outcome = Completed(
                   [kind |-> "CompleteVerify",
                    worker |-> WorkerOf("Verify", turns),
                    verification |->
                      [id |-> v.id, patch |-> v.patch, verdict |-> v.verdict]])

\* What a worker that took n turns may complete.
CompletionsIn(n) ==
  [kind : {"CompleteExplore"}, worker : {WorkerOf("Explore", n)}, artifacts : {<<1>>}]
    \cup
  [kind : {"CompleteImplement"}, worker : {WorkerOf("Implement", n)}, patch : PatchRefs]
    \cup
  [kind : {"CompleteTest"}, worker : {WorkerOf("Test", n)},
   results : [1..TestPlanCount -> TestOutcomes]]
    \cup
  [kind : {"CompleteReview"}, worker : {WorkerOf("Review", n)}, review : Reviews]
    \cup
  [kind : {"CompleteVerify"}, worker : {WorkerOf("Verify", n)},
   verification : Verifications]

Outcomes ==
  Broken \cup {Completed(t) : t \in UNION {CompletionsIn(n) : n \in TurnChoices}}

\* Fault: a verifier runs again for every invocation.
RememberedUnlessVerify(k) ==
  {r.outcome : r \in {x \in recorded : x.id = InvocationId(k) /\ x.id.phase # "Verify"}}

Remembered(k) == {r.outcome : r \in {x \in recorded : x.id = InvocationId(k)}}

\* The first invocation does the work; a repeated one answers from memory.
AdapterReturns(k) ==
  /\ kpc[k] = "invoking"
  /\ \E outcome \in Outcomes :
       /\ \/ Remembered(k) = {} /\ AdapterWorks(k, outcome)
          \/ outcome \in Remembered(k) /\ UNCHANGED vars
       /\ recorded' =
            recorded \cup {[id |-> InvocationId(k), outcome |-> outcome]}
       /\ kout' = [kout EXCEPT ![k] = outcome]
  /\ kpc' = [kpc EXCEPT ![k] = "returned"]
  /\ UNCHANGED <<kview, cancelled, crashes>>

-----------------------------------------------------------------------------
(* finish_adapter_step *)

\* adapter_outcome_matches, usage_within and completion_matches
UsableOutcome(k) ==
  /\ kout[k].result = "Completed"
  /\ kview[k].usage + kout[k].transition.worker.turns <= MaxWorkerTurns

CancelAfter(k) ==
  /\ kpc[k] = "returned" /\ cancelled
  /\ kout[k].result = "Failed" \/ UsableOutcome(k)
  /\ CommitTerminal(k, "Cancel")

\* Fault: a failed step is reported to the caller but not recorded.
FailureOnlyReported(k) ==
  /\ kpc[k] = "returned"
  /\ kout[k].result # "Completed" \/ ~UsableOutcome(k)
  /\ StepReturns(k)
  /\ UNCHANGED <<vars, recorded, cancelled, crashes>>

FailStep(k) ==
  /\ kpc[k] = "returned"
  /\ \/ kout[k].result \in {"Mismatched", "CleanupFailed"}
     \/ kout[k].result = "Failed" /\ ~cancelled
     \/ kout[k].result = "Completed" /\ ~UsableOutcome(k)
  /\ CommitTerminal(k, "Fail")

\* commit_completion: committed, stale, or invalid_output when the store
\* refuses it although nothing moved.
CommitCompletion(k) ==
  /\ kpc[k] = "returned" /\ ~cancelled
  /\ UsableOutcome(k)
  /\ LET t == kout[k].transition
         refused == kview[k] = lc /\ ~(ArtifactsStored(t) /\ Accepted(lc, t))
     IN  \/ Commits(k, t)
         \/ kview[k] # lc /\ UNCHANGED lc
         \/ refused /\ Persist([kind |-> "Fail"])
  /\ StepReturns(k)
  /\ UNCHANGED <<change, patches, verifs, applies, recorded, cancelled, crashes>>

-----------------------------------------------------------------------------

\* The kernel process dies; the adapter's work and its memory remain.
KernelCrash(k) ==
  /\ kpc[k] # "idle"
  /\ crashes < MaxCrashes /\ crashes' = crashes + 1
  /\ StepReturns(k)
  /\ UNCHANGED <<vars, recorded, cancelled>>

Cancel ==
  /\ ~cancelled /\ cancelled' = TRUE
  /\ UNCHANGED <<vars, kpc, kview, kout, recorded, crashes>>

Setup == (RecordChangeRequest \/ CreateLifecycle) /\ UNCHANGED kernelVars

KernelStep(k) ==
  \/ Load(k) \/ CancelBefore(k) \/ ResumeRepair(k) \/ BudgetExhausted(k)
  \/ Invoke(k) \/ RefuseToInvoke(k) \/ AdapterReturns(k)
  \/ CancelAfter(k) \/ FailStep(k) \/ CommitCompletion(k)

KNext ==
  \/ Setup
  \/ Cancel
  \/ \E k \in Kernels : KernelStep(k) \/ KernelCrash(k)

\* Every kernel keeps calling step().
KSpec ==
  KInit /\ [][KNext]_lifecycleVars /\ \A k \in Kernels : WF_lifecycleVars(KernelStep(k))

-----------------------------------------------------------------------------
(* Properties *)

\* The kernels and the adapters hold values of their types.
KTypeOK ==
  /\ TypeOK
  /\ kpc \in [Kernels -> {"idle", "loaded", "invoking", "returned"}]
  /\ kview \in [Kernels -> LifecycleState \cup {None}]
  /\ kout \in [Kernels -> Outcomes \cup {None}]
  /\ recorded \subseteq [id : LifecycleState, outcome : Outcomes]

\* A reserved repair can be consumed: the change still waits for it and the
\* verification that asked for it is still the latest, although several
\* kernels may have verified, crashed and retried.
ReservationConsumable ==
  Bound /\ lc.status = "RepairReserved" =>
    /\ RepairAllowed
    /\ \E v \in VerificationsOf(LatestPatch) :
         /\ IsLatest(v, VerificationsOf(LatestPatch))
         /\ lc.verification.id = v.id

\* Work is neither repeated nor lost (LifecyclePhaseAdapter's contract and
\* invocation_id): one lifecycle state yields at most one patch and one
\* verification, however many kernels run it and however often they retry, and
\* an artifact that a crash left without its transition is still remembered
\* under the invocation that the next kernel will make.
WorkDoneOnce ==
  /\ \A v, w \in verifs : v.patch = w.patch => v = w
  /\ Bound /\ lc.phase = "Implement" /\ ~lc.repair_consumed => change.revision <= 1
  /\ Bound /\ ~Terminal(lc) =>
       /\ lc.phase = "Implement" /\ change.state = "prepared" =>
            \E r \in recorded : r.id = lc
       /\ lc.phase = "Verify" /\ lc.status = "Active"
            /\ VerificationsOf(LatestPatch) # {} => \E r \in recorded : r.id = lc

\* Kernels that keep stepping bring the lifecycle to an end, to the user's
\* approval or to the second revision: stale reads, crashes, lost outcomes and
\* kernels that race each other never leave it standing.
ReachesSecondRevision ==
  Bound ~> /\ Bound
           /\ \/ Terminal(lc)
              \/ lc.phase = "Apply"
              \/ change.revision = 2

\* "The kernel consumes the one transactional repair reservation and stops at
\* `apply/awaiting_approval`" (docs/ARCHITECTURE.md), unless the lifecycle ends
\* before.
KernelStopsAtApproval ==
  Bound ~> /\ Bound
           /\ Terminal(lc) \/ (lc.phase = "Apply" /\ lc.status = "AwaitingApproval")

=============================================================================
