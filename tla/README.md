# Needle in TLA+

Needle is a local-first routing and evidence-reuse layer between a coding model
and bounded workers. This directory holds TLA+ models of the parts of it whose
correctness depends on interleavings, crashes and long call sequences, the TLC
configurations that check them on small instances, and TLAPS proofs of what
matters most for all instances.

Tools: `tlc -config X.cfg MCX` checks a run, `tlapm XProofs.tla` checks proofs.

## Inventory

| Part | Code | State it keeps | Hard behaviour |
|---|---|---|---|
| Lifecycle state machine | `needle-core/src/lifecycle.rs`, `lifecycle/model.rs` | phase, status, outcome, generation, usage, evidence chain, one repair, approval | the rules are stated twice (transition rules and `validate`), bounded generation |
| Lifecycle store | `needle-runtime/src/store/lifecycles.rs` | projection row, append-only journal | stale parents, compare-and-swap, replay after restart |
| Verified-change store | `needle-runtime/src/store/changes.rs` | request, patches, verifications, apply journal | late verdicts overwrite the state, one repair, one apply |
| Active apply and recovery | `needle-runtime/src/changes.rs`, `needle-app/src/server.rs` | the user's worktree, apply journal | crash between writes, torn files, edits by the user, failing rollback |
| Execution kernel | `needle-runtime/src/lifecycle_executor.rs` | nothing of its own | crash between artifact and transition, two kernels, retry |
| Patcher and verifier sessions | `needle-platform-codex/src/{patcher,verifier}.rs`, `needle-app/src/mcp.rs` | a disposable checkout | concurrent prepare, verify and repair; the tree moves meanwhile; a session dies |
| Orchestrator, need cache, leases | `needle-runtime/src/{orchestrator,artifact_cache,store}.rs` | cache entries, leases, worker runs | lookup and lease in separate transactions, expiry, source drift |
| Approval inbox and broker | `needle-runtime/src/{approval,store}.rs`, `needle-core/src/approval.rs`, `needle-platform-codex/src/app_server.rs` | pending requests, decisions, budgets, the gate of a verifier | decision races timeout, every request is open to the web user for a moment |
| Role profiles | `needle-runtime/src/store/role_profiles.rs`, `needle-app/src/server/role_profiles.rs` | immutable revisions, active pointer, audit events | concurrent activation, revision and deactivation; two-statement reads |
| MCP server and multi-need ledger | `needle-app/src/mcp.rs`, `needle-core/src/multi_need.rs` | queue, running call, ledger, stored steps | cancellation of a running call, a store that fails, limits, ordinals |
| Main session on App Server | `needle-platform-codex/src/app_server/main_session.rs`, `needle-app/src/minimal_live_pilot/supervised_main.rs` | active turn, pending needs | an answer arrives when its turn has ended, interrupts cross completions |
| Evidence worker | `needle-platform-codex/src/worker.rs`, `worker/protocol.rs`, `needle-runtime/src/sandbox.rs` | a session row, a worktree, a server process | one repair turn, timeout, teardown that fails half way, recovery |
| Needs, proofs, claims | `needle-core/src/semantic.rs`, `needle-runtime/src/{semantic_resolver,semantic_validation,proof,claim_proof,claims,test_plan}.rs` | artifacts, claims, certificates, contradictions | stale evidence, plan selection, edits between validation and delivery |
| Hooks and session records | `needle-platform-codex/src/lib.rs`, `needle-app/src/main.rs` | state file, lock file, session row | two hooks of one turn, a hook dies between its files, a session restarts |
| Resident runtime | `needle-app/src/{runtime_instance,product_resolver}.rs` | profile lock, descriptor, IPC | two servers, stale descriptor, a server dies during a call |
| Store opening | `needle-runtime/src/store.rs` | schema, migration checksums | several builds open one file, a process dies during a migration |
| Control plane configuration | `needle-app/src/server.rs` | settings, model policy, routes, authority, audit | read, compare and write in separate transactions, two tabs and the command line |
| Live pilot | `needle-app/src/minimal_live_pilot.rs`, `multi_task_campaign.rs` | a store of its own, a report | promotions made without a user, arms that fail half way |
| CLI, web, benchmarks | `needle-app`, `needle-bench` | presentation, experiments | none that is not already above |

The parts meet in SQLite. The parent of a lifecycle (a kernel or the control
plane) reads a projection, lets a worker run, and commits against the digest it
read. Patchers and verifiers write artifacts into the change store in their own
transactions; the change store calls into the lifecycle store inside the same
transaction for repairs, failures and applies. The control plane is the only
caller of apply and recovery and holds the instance lock; MCP servers are other
processes on the same database.

What makes each part correct: the lifecycle always replays and its evidence
belongs to its patch; a change is repaired and applied at most once and only
after a verdict on its base; an apply ends in the patched or in the base tree or
in a recorded failure; a kernel neither repeats nor loses work and does not stand
still; a need is computed by one worker at a time and its answer is about the
source the caller captured; a command runs only on the acceptance of whoever may
give it, and nobody waits for ever; a profile is what its audit log says; every
MCP request is answered once, in order, and the ledger is what is stored; a main
session answers the needs it reads in order and calls a turn closed only once it
is over; a worker's report is true of its run, and a report of a clean end leaves no
worktree behind (a process only where the App Server failed to start); reused
evidence held in the files as the resolver read them and covers the need; a turn is
continued at most once per claim; one resident runtime serves a directory; who
opened the store has its whole schema; authority is granted on evidence.

## Modules

`LifecycleMachine` — the pure state machine. A state is a record, a transition
is a record; `Guard` is what `apply_transition` checks, `Transition` what it
builds, `Accepted` when `transition()` returns `Ok`, `Replay` the fold over the
journal. Digests are the digested values (blake3 taken as injective). The three
budget dimensions are one number: the code checks them in one conjunction.

`LifecycleStore` — projection, journal and parents with arbitrarily stale
views. One action per store transaction.

`ChangeStore` — the tables of one change and the lifecycle that may be bound to
it. One action per transaction of `changes.rs`, including the lifecycle calls
it makes. `Times` bounds the timestamps that `ORDER BY created_unix_ms` sees;
equal and decreasing times are included because clocks allow them.

`ActiveApply` — the control plane applying a patch file by file, with crashes,
torn writes, failing file operations and transactions, user edits, a repair
that supersedes the patch, and recovery. `edited` is a history variable: what
was edited since the server last looked. `AtomicApply` is the promise it
implements, through the refinement mapping `Atomic`. `MCLifecycleStore` checks it in
behaviours of its own beside those of `LifecycleStore`; `focus` says which.

`ChangeSessions` — the MCP sessions over `ChangeStore`: `prepare_change_call`,
`verify_change_call` and the repair, cut at their transactions, checkouts, turns
and reads of the tree, together with an editor of the tree and the control
plane's apply. A session may be killed at any step, and the transaction that records
a failed run may itself fail: the session then reports "cannot persist the failed
change state" and its round is in `unrecorded`. `PatchObservation` and
`VerifierVerdict` are the pure parts: what a checkout has become as a patch, and
what a verifier's answer and its test evidence are worth.

`LifecycleKernel` — kernels over `ChangeStore`: one action per stretch of
`execute_step` and `finish_adapter_step` between two store or adapter calls.
The adapters are external: they persist their artifact and remember their
outcome under the invocation id, as the trait's contract demands.

`SingleFlight` — calls of `RuntimeEngine::resolve` for one need, in threads of
several processes, over the cache, artifact and lease tables and the working
tree. The actions of a call follow `resolve_with_worker_policy`, `generate` and
`wait_for_result`, cut wherever another process can act: between two store
transactions and between two reads of the tree. A tree is a pair of the bytes
the evidence depends on and the rest; a snapshot digest is the tree. A worker's
outcome records what it read (`origin`), the bytes whose digests were bound to
it (`bound`) and its form. The brief of a legacy result delivers the bound digests;
typed groups are hashed once more from the tree when they are materialized, so a
call and an artifact row also have what they tell (`told`). The nodes of a route plan depend on the same bytes in
this model and stand as one artifact, so a partial hit does not arise; the
semantic (NeedIR) path and the recorded worker runs are left out. `live`,
`undone` (the tree came back to the snapshot between the binding and the second
capture) and `late` (it was edited between the last comparison and the hashing of
what is told) are history. `Crash`, `Edit` and `Tick` are the
environment. A worker may outlive the lease of its call: a wait for an approval
extends its budget (`remaining_worker_budget`), the lease stays as it was.

`CommandApprovals` — App Server sessions and the approval inbox. A session
follows `run_turn_cancellable` and `handle_command_approval`, cut at its store
transactions: classify (which already counts the execution and moves the
verifier's gate), enqueue, decide or wait, respond. Evidence workers wait for the
web user; patchers and verifiers fail fast; a patcher has one file change, a
verifier an ordered list of plans, each named by its position (plans are distinct
by digest and may share their argv). A command is its argv, directory and
permissions, so an approval id is a session and an item; the parser is abstracted
to six kinds of command. `Stamps` is the set of clock values `decide_approval` may
have read before it got the write lock; `expire_approvals` is taken to read the
clock in its transaction. The turns of a session are one turn: the broker and its
maps outlive them. The digest check of a decision, whose refusal leaves no trace,
and the captured output are left out.

`RoleProfiles` — one profile (profiles do not interact): canonical definitions,
revisions, the active pointer under its generation, the audit log, the handlers
that read, check `If-Match`, commit and read again, and a reader in another
process that reads state and revisions in two statements.

`McpSession` — one connection: reader, bounded queue, loop, the thread of the
running call, cancellation, and the need steps it stores. `NeedPolicy` is the
limits it shares with `MainSession`; `NeedLedger` the relation of a need to the
earlier ones and the reuse of an answer that covers it.

`MainSession` — the supervising loop and its session on the App Server: turns,
deltas, the `@@end` marker, interruption, steering, the queue of pending needs
and the native fallback. The App Server and the agent behind it are external: they
do what the reading code expects of them, in every order that leaves possible.
`wait_for_response` drops whatever is read before the response to `turn/start`, so a
need among those events is lost and never becomes a step.

`WorkerProtocol`, `WorkerSession` — what a worker is asked and what its responses
become; and the run around it: recovery of stale sessions, checkout, App Server,
one or two turns, teardown, the recorded run. `disk` and `servers` are what runs
have left behind; a server that fails to start may leave its process in `servers`,
and the run still reports that it cleaned up once its worktree is gone.

`NeedCompilation`, `ProofPlanning`, `SemanticValidation`, `ClaimProofs` — pure
definitions: the compilation of a need, the exact set cover of its obligations
(the two passes of the code's dynamic program), the validation of an artifact
against the files it names, proofs from claims and what the agent is told of them.
Where the code takes the smallest digest, `ClaimProofs` has every choice. The id of
a need (`NeedId`) is the sequence of fields that is hashed; nothing in it separates
the required obligations from the preferred ones, so two needs may share it.
`Decisions` makes each of them one step from a task to its result; the properties
compare the result with a definition that knows nothing of the algorithm.

`SemanticReuse` — `resolve_semantic` and the publication of what a worker adds,
while the tree, the contradictions and the capability modes change between any two
steps. The captured source of a call is the tree itself. The files that are compared
with a manifest, and those that are validated and then hashed, are read one after
another: `met` holds the trees one such reading has met, `seen` those of the
comparison that decided, and `torn` (history) the certificates of which a file changed
between its validation and its hashing. A test plan comes from a worker, and then has
to close on a declared target, or from the caller (`declared`), and then need not. The
claim advisory and the answer read the tree in one step. Nothing is validated when
evidence is delivered, so an edit after the comparison is not noticed.

`HookSession` — a process per Codex event: the Stop hook's lock file and claim
file, the resolve under what the session froze, and the session row other hooks
write. `DigestRank` is the byte order by which the state file is pruned.

`RuntimeInstance` — lock, socket, descriptor and token of the resident runtime,
its clients and their fall back to a local engine. `StoreOpening` — `initialize`
and `apply_migration` by processes of several builds; `FirstIsFixed` assumes that
builds agree on the first migration, whose row is inserted with `OR IGNORE`.

`ControlPlane` — settings, model policy, route states and capability authority
under `If-Match`, beside the command line's writes to the same tables.

`LivePilot` — the arms, promotions and gate of the pilot and of the multi-task
campaign. `load_protocol` refuses every provider run, so only the offline modes
are modelled; what an arm observed is an input.

`Services` — the parts that share no state with the engine or with each other, put
side by side: the MCP connection, profiles, workers, the resident runtime, the
configuration, the opening of the store and the pilot. A behaviour is about the one
that `focus` names. `MCServices` holds only the inputs of its instance. `MCChanges`
does the same for the records of a change under any order of transactions, the
sessions that make these transactions, and the hooks; `MCEvidence` for the main
session, the reuse of evidence and the decisions.

Proofs: `LifecycleMachineProofs`, `LifecycleStoreProofs`, `ChangeProofs` (the store of
a change, its sessions and the kernels), `ActiveApplyProofs`, `SingleFlightProofs`,
`PlatformProofs` (approvals, hooks and the main session), `ServicesProofs` and
`EvidenceProofs` (the reuse of evidence and the decisions).
`MC*` — instances.

Operators whose comment begins with `Fault:` are mutated forms of the definition
below them, one plausible bug each. They are used by no specification; replacing
the definition by its fault makes TLC report the property the fault breaks.

## Runs

| Run | Shows | Bounds |
|---|---|---|
| `lifecycle_store` | the store's invariants with stale, crashing parents; the apply is atomic, its journal is true and recovery settles it | 2 parents, 2 patches, 1 verification, 2 applies, turn choices that reach and exceed the budget; one file per operation and one untouched file, 2 faults, 2 edits |
| `changes` | repair and apply happen once, only after a verdict on the base, and in agreement with the bound lifecycle; a change is repairing only while a session is at it, was killed at it or reported that its failure could not be stored; a failed bound change stays failed; a turn is continued under what its session froze | 2 patches (the maximum the code allows), 3 verifications, 2 applies, 2 timestamps, 2 sessions with 3 calls and 1 edit; 2 hooks, 2 turns, a state file of 1 entry, 3 stops, 2 session starts (none in an experiment, which does not read the session row); symmetric in sessions and in hooks |
| `apply_drift` (violation) | a rollback overwrites the drift it detected | no faults, 1 edit |
| `kernel` | racing and crashing kernels neither repeat nor lose work; fair kernels reach the end, approval or the second revision | 2 kernels, 1 crash, budget 6 with steps of 1 or 2 turns |
| `kernel_repair` (violation) | a kernel never gets past the repaired revision | 1 kernel, no crash |
| `flight` | at most one call works for a snapshot under an unexpired lease, answers are about the snapshot the call captured (or have a complete manifest) and say what their worker read, two windows excepted, every call returns | 2 calls in 2 processes, 2 edits over 2 × 1 trees, restoring ones included, every gate and policy, 2 forms, failing workers and store, crashes, timeout 1 |
| `flight_reuse` (violation) | an answer is reused for bytes its worker never read | 2 calls, 1 edit, no failure |
| `approvals` | a command runs only on the right acceptance, a request is decided once, plans run in order, every wait ends | two workers, a worker and a patcher, a worker with a test, or a verifier with 3 plans of which 2 share their argv; a web user, failures, timeout 1 |
| `services` | the ledger is what is stored, requests are answered in order and at all; the audit log replays to the profile, readers see one state; edits are of what was seen; a worker's report is true; processes start safely; authority is earned | 2 request ids, 1 need, a queue of 1, ordinals up to 2, 3 lines; 2 editors, 5 definitions, 3 audit rows; 1 worker with 2 runs; 2 hosts, 2 clients, 3 starts; 2 tabs, 1 route, 2 audited changes, 1 further write; 3 builds, 4 openings; 3, 7 and 9 arms of each kind, 2 tasks |
| `mcp_limit` (violation) | a cancelled call makes every later one of the connection fail | 3 ids, limit 1, 4 lines, no failing store |
| `evidence` | the needs that are read are answered in order, each event at most once; a turn said to be closed is over; evidence reused instead of a worker held in the files as they were read, and with the worker's fragment covers the need; plans, manifests, claim proofs, patches and verdicts are what their definitions say, and an answer is reused for a need whose requirements it met or, under the same id, preferred | 3 emissions, 1 pending need, a wire of 1; needs over 2 routes, 1 edit, 2 calls, 2 changes of authority, one declared test plan; all tasks over the given sets: among them two candidates with costs, and three free ones under a budget of 2 |
| `need_identity` (violation) | a need is told it is satisfied by an answer in which its requirement was a preference | the ledger tasks of `evidence` |

Two patches and two revisions are exact: the code has no third revision. Two
parents or kernels suffice for every race in these modules, since a process
interferes with another only through the single row it swaps. Two faults cover
a crash during the recovery from a crash. Two calls let a waiter take over
from a slow owner that comes back late; exclusion is proved for any number. The
clock runs freely up to `MaxTime` and beyond it only while somebody waits, which is all that the lease
comparisons can tell apart. An `Edit` may restore an earlier tree, and two edits are
enough to change it and change it back: the digests are then bound to bytes that are
gone when the snapshot is compared (the hazard at `snapshot.rs:163`), which is the
first window `ServedFromCapturedSource` excepts. The second is an edit between the
last comparison and the hashing of typed groups. Limits of the code (ordinals, queue length, entries
of the state file, claims, paths, bytes) are constants, set so low that the run
meets them; their true values change no guard. `CHECK_DEADLOCK FALSE` is used where
the system may stop: an applied or failed change, a finished lifecycle, a session
that ended. Rows of the inbox meet only in an expiry, so `Together` and `Asks`
limit which sessions run at the same time and what they ask for: two sessions with
one open request each show every race on a row, and the sequences of requests
matter where the broker keeps a memory, in the verifier and in the worker with a
test.

Fairness: `ActiveApply` assumes that the server takes its next step
(`WF(ServerStep)`): it is sequential code without waits; it is not assumed that
anybody starts it or that faults stop before their bound. `LifecycleKernel`
assumes that every kernel keeps calling `step()` and that adapters return, which
their wall-clock budget guarantees. `SingleFlight` assumes that the clock
advances and that the thread of a call takes its next regular step
(`WF(Advance)`), a worker answering unless it fails; errors and crashes may
happen and are never owed, so a waiter is not rescued by a failing store.
`CommandApprovals` assumes the same of the clock and of the thread of a session
that has a request to answer; the web user owes nothing. `McpSession` assumes
`WF(ServeStep)`: the loop and the thread of the running call take their next
step, and the resolver, whose wall-clock budget ends it, returns; the client
owes neither a line nor a cancellation, and the store may fail each time.
The other modules assume no fairness: what they promise is safety.

## Disagreements with the documentation

*The kernel does not survive a repair.* `repair_verification` demands a
repairable verification of the latest patch revision. Once revision 2 is stored
there is none, and each step returns `LifecycleCorruption`. The architecture
document says the kernel consumes the repair and stops at approval. Run
`kernel_repair`; `ReachesSecondRevision` in `kernel` shows that nothing else stops it.

*Drift is overwritten.* When the second base validation, after the journal
entry, finds an edited file, nothing has been written yet; the rollback that
follows restores the before blobs over the edit and then reports `RolledBack`.
The architecture document promises "no merge and no write". Run `apply_drift`.

*A limit that answers with an error.* `cancelled_failure` stores a need step under
the next ordinal and does not push it to the ledger. The next call computes the
same ordinal; `need_steps` is unique in session and ordinal, so its step is
refused, whether it resolved or was over a limit, and so is every later one. The
transport document says that limit exhaustion returns a normal bypass. Run
`mcp_limit`; `LedgerIsStored` says what does hold: each entry of the ledger is the
stored step of its ordinal.

*A manifest of bytes nobody read.* `manifest_for_groups` hashes the dependencies
when the artifact is stored, after the last comparison with the snapshot. An
edit in between yields a complete manifest of the new bytes for claims about
the old ones, and a later call on the edited tree is served those claims as a
composite hit. The comment at `artifact_cache.rs:43` says that the dependencies
must still hash to the observed digest. Run `flight_reuse`;
`ServedFromCapturedSource` is what remains true: a legacy answer delivers the digests
of the old bytes, a typed one, hashed again when it is materialized, may deliver those
of the new bytes, but only if an edit fell into that window.

*Needs that share an identity.* The id of a need hashes its required obligations and
then its preferred ones with no mark in between (`semantic.rs:1353`). A need that
prefers tests and one that requires them have the same id if the digest of the
location obligation is the smaller one. `fully_satisfied_ledger_entry` reuses a step
on equal ids, so the second need is told that it is already satisfied although nobody
looked for its tests. The README of the program says that a worker is avoided "when
certified evidence already satisfies the request". Run `need_identity`;
`EvidenceDecisionsHold` says what remains true: whatever is reused had each obligation
of the new need among its requirements or, under an equal id, among its preferences.

Edges that the models make visible and the properties allow:

- A call that missed just before the owner of the lease published, and acquires
  the lease just after it was released, starts a second worker: nothing is looked
  up again under the lease. The answer is right, its cost is paid twice.
- `decide_approval` of an expired request sets its status to `timed_out` and
  nothing else, and `expire_approvals` no longer selects it, so the inbox never
  records the decline that the waiting session answers with (`store.rs:4076`).
- `wait_for_web_decision` looks at the clock before it reads the row, so an
  acceptance stored just before the expiry is answered with a decline while the
  inbox keeps `accept` (`app_server.rs:795`). `AcceptedByTheRightOne` shows that
  the opposite never happens.
- Between the `If-Match` comparison of a configuration handler and its write,
  another tab or process may write the same table; that update is lost. The role
  profiles compare again in the transaction, and `EditsWhatItSaw` shows that they
  lose none.
- The review page reads a change's diff and its `ETag` in separate transactions,
  so a diff can be shown under the tag of the next revision; an apply under that
  tag is still licensed by a verdict on the revision it applies.

## Proofs

Every result holds for all values of the constants: any number of processes,
files, needs and edits, and none of the bounds that the runs need. Each inductive
invariant was also checked by TLC on the instances of the runs, except `DecisionInv`,
which only repeats the decision steps and is too slow to evaluate there.

`LifecycleMachineProofs` defines `Good(s)`: typed, valid, not terminal or
finished correctly, and with `generation = Progress(s)` while it runs. Validity
alone is not inductive: that `validate()` will accept the next state needs the
generation to be tied to the progress made, since 16 generations are all there
is. One lemma per transition shows that a guarded step keeps `Good`;
`GuardImpliesGood` combines them. Further lemmas say which fields a transition
writes; the proofs below cite these instead of the definition of the machine.

`LifecycleStoreProofs` lifts this to the store: `StoreInv` says that the
projection, every parent's view and the journal are typed, that the projection
is `Good`, and that stored test results come from the stored patch. The last
part needs the compare-and-swap: a parent's commit is a step of the projection
only because its view equals it. From `StoreInv` follow type correctness, the
generation bound, that no legal step is refused, the test evidence and, as an
action property, that terminal states are final. `JournalInv` adds that replaying
the journal gives the projection (`ReplayIsExact`): the replay is a fold over the
events, and a lemma says that the fold of a journal with one more event is the step
of that event after the fold of the journal before.

`ChangeProofs`, the store: `ChangeInv` is the conjunction of the types, `RepairOnce`,
`AppliesAreLicensed` and `BoundAgreement` with two facts that make it inductive:
every row has its owner (a verification is of a stored patch), and the bound
lifecycle is `Good`, its approval given in `AwaitingApproval`. The invariants need
each other: that an apply is licensed rests on the agreement of change and
lifecycle, and the agreement on there being one repair.

Its second part is about the processes over that store.
`SessionsImplementStore` proves that every step of an MCP session is a transaction
of `ChangeStore` or leaves it alone, so the results above hold of sessions;
`SessionInv` adds what a session may rely on between two of its steps whatever the
others do (`CallHolds`: its checkout is still of the base, its repaired patch is
the second one), from which `VerdictOfTheBase` and `RepairingHasARepairer` follow;
the latter names the one way in which a change stays `repairing` with nobody at work
and nobody killed: its session could not store the failure, and said so.
For the kernels `KernelInv` adds `StageAgrees`, that the change is as far as its
lifecycle or one remembered outcome ahead, and `KernelHolds`, that a kernel whose
view is stale finds its work recorded. `WorkDoneOnce` alone is not inductive: a
slow kernel could store a second verification unless it is known that its
invocation was already answered.

`ActiveApplyProofs`: `ApplyInv` says that files are touched only under a journal
entry, that the other paths are the user's, and that what the journal says *or is
about to say* of the unedited paths is true. From it follow `JournalIsTrue` and the
refinement: `ApplyIsAtomic` proves `ApplySpec => Atomic!Spec`, one step of the mapping
per action, crashes, torn writes, failed rollbacks and recovery included.

`SingleFlightProofs` proves, for any number of calls and processes, any trees and
any timeout, type correctness, `LeaseExclusive` and `ServedFromCapturedSource`.
Its inductive invariant `FlightInv` adds to the types: `CallGood`, what each
stage of a call may rely on (after the second capture the bound bytes are those
of the snapshot, or an edit was undone in between; until a call materializes, the tree
is still the one it compared, or it was overtaken by an edit); `StoreGood`, the same
for whatever is in the cache and artifact tables; and `LeaseNamesHolder`, that a
call working under an unexpired lease is the owner its lease row names, unless
two owner strings are equal. The last one is what makes exclusion inductive: the
row is a function of the snapshot, so it names one holder.

`PlatformProofs`, approvals: `ApprovalInv` ties each row of the inbox to the
decisions table (`RowsTrue`), each answered item to the row that justifies it, and
the gate of a verifier to the items it has given plans to (`GateHolds`): the plan in
flight is the last one admitted and the only one without evidence. Hence
`AcceptedByTheRightOne`, `PlansRunInOrder` and, as an action property, `DecidedOnce`.
Hooks: `HookInv` says who may be inside the lock and what is in the two files at
each step of the replacement; `ClaimsHold`, that a claimed turn is in the state
file, in the backup of a hook that is about to replace it, behind a lock that was
left for good, or forgotten. A claim made twice is therefore a forgotten one, which
is what `HookContinuations` allows. That pruning twice is pruning once
(`PrunedTwice`) needs cardinalities and nothing else of `DigestRank`.
Main session: `MainInv` numbers the agent's events and says that the numbers go up
strictly along the path of a need: recorded steps, the need at hand, the pending
needs, the one a steered turn came to (`LoopHolds`); the needs the call has queued,
the text it is reading, its result (`ReadingHolds`); the events not yet read
(`WireHolds`, `InTurn`). So whichever way a need takes, it cannot overtake an earlier
one or become two steps, which is `NeedsAnsweredInOrder`. What the start of a turn
drops leaves the rest in order. The deltas that end a call and the completed item that
repeats them are two events, so a need can be stored once for each. For `ClosedTurnsAreOver` it adds that an unread
`turn/completed` is of a turn that is over, and that a call which has noted one, or
returns a closed turn, has a turn that is over; turns that are over stay over
(`ServerGoes`).

`ServicesProofs` has one invariant per component of `Services`, and a lemma that a
step of the whole is a step of one component and leaves the others alone.
`InstanceInv`: a server that is up holds the lock and is the only one.
`OpeningInv`: an opener has found every version it has passed, and the recorded
versions only grow. `PlaneInv`: the audit rows lead from `shadow` to the stored mode.
`PilotInv`: what it takes to be at each stage of the pilot. `WorkerInv`: a run belongs
to one worker, and what its row says about disk and processes stays true. That a run
with a session has stopped its server before it reports a clean end is part of it, and
does not hold of a run whose server failed to start. Rows that a later
recovery wrote are outside the statement.
`McpInv`: answers, active call, queue and input are in the order of sending, a
cancellation under way was asked for, and an ordinal is the next place of the ledger
or the last there is. `ProfileInv`: the last audit row has the digest of the stored
state, digests of different rows differ, and an editor or reader holds the digest of a row.

`EvidenceProofs`, reuse: `ReuseInv` says of the tables that every stored certificate
is `Sound`, that is, its artifact validates in the files of its own manifest, unless
it is `torn`. It says of a call that its candidates are certified and that those it
plans over were each fresh in a tree met by the comparison (`FreshAreFresh`), so what its selection covers
(`DecisionCovers`, `DeliveryCovers`) holds there. `ReusedEvidenceHolds` alone is not
inductive: nothing is validated when evidence is delivered, so the proof needs that
whatever the recorded files decide is the same in any tree where they are unchanged
(the lemmas on `Validates`, which also give `ManifestsSuffice`). What is left to the
worker is the complement of the covered mask, whence `FragmentAndReuseCoverTheNeed`.

`EvidenceProofs`, decisions: `DecisionInv` says that a result is the decision of its
task; the rest is about pure definitions, for inputs of any size.
- Planner: the induction is over the candidates seen. After each of them every kept
  state fits its mask (`StatesFit`) and every selection within the budget is matched
  by a kept state that is at least as good (`StatesReach`), which is the exchange
  argument a dynamic program rests on. Both passes follow from one lemma, as does
  that the certificate replays.
- Claims: the walk along `precedes` is an iteration, injective by the pigeonhole
  principle, so it is a path; a path through the relations of one trace is an unbroken
  stretch of that trace, and the projection reads it back in order.
- Patches: what is observed is the difference of the two trees path by path, so it
  leads there and back; verdicts: every plan is matched by one piece of evidence.
- Ledger: an obligation of the new need is a requirement of the answered one, or the
  ids are equal and it is a preference of it, since equal ids have the same sequence of
  obligations.

Induction: the library's theorems with an operator as a parameter cannot be used
here, but `NatLessThanWellFounded` and `WFMin` take sets. From them `LeastNumber` and
`CountsUp` are proved, an induction over 0 .. n for the members of a set, and every
recursion of these modules is a recursive function or a fold over such an interval.

Assumed are facts about the constants, which TLC evaluates in every run: the
lifecycle specification was validated (`SpecAssumption`); the placeholder for a
missing value is no value (`NoneIsNoRow`, `NoneIsNoValue`, `NoneIsNothing`,
`NoneIsNoApproval`, `FreeIsNoHook`, `InDoubtAssumption`); a worker takes a natural
number of turns (`TurnsAssumption`); a patch has at least one file
(`PatchAssumption`; `observe_patch` refuses an empty difference); a build has at
least one migration and all builds have the same first one (`OpeningConstants`,
`FirstIsFixed`); arms are priced in natural numbers or unpriced (`ArmsArePriced`);
a worker's response has one of the four schemas (`WorkerConstants`); limits are
natural numbers (`HookConstants`, `SingleFlightAssumption`, `McpSessionAssumption`,
`MaxArtifactsAssumption`, `MaxSelectedAssumption`).

The inputs of the evidence modules are assumed to be what the code passes:
- a need's obligations are about its subject (`NeedsAssumption`, `Need::is_canonical`)
  and artifacts have one of the three kinds (`ResultsAssumption`,
  `ManifestTasksAssumption`);
- each task has the kind of its set (`TasksAssumption`); trees are functions from
  paths to entries (`PatchTasksAssumption`), plans are ordered (`VerdictTasksAssumption`),
  a ledger's order ranges over all predicates (`LedgerTasksAssumption`);
- claims were extracted from their origin, which `extract_validated_claims` refuses if
  it has one claim twice; relations come from traces; and a need has one obligation
  per predicate, as `merge_obligation_expressions` makes it (`ClaimTasksAssumption`);
- candidates of the planner are free of cost or not more than the budget takes
  (`PlanTasksAssumption`). `semantic_resolver.rs:172` and `:499` pass a cost of 0 for
  every candidate. The assumption is needed: with a budget of two artifacts and
  candidates A for {1, 2} at 10, B for {1}, C for {2} and D for {3} at 1 each,
  `plan_economics` (`proof.rs`) replaces A by the cheaper B and C, D then exceeds the
  budget, no state is left for {1, 2, 3}, which A and D cover, and the plan is
  reported as a miss. Callers that set `expected_reuse_microusd` would have to keep
  the number of artifacts in the state.

Only model-checked: the five liveness properties (`RecoverySettles`,
`ReachesSecondRevision`, `EveryCallReturns`, `EveryWaitEnds`, `RequestsAreAnswered`),
since the prover handles neither fairness nor `ENABLED`. Every invariant and every
action property of the passing runs, and the refinement of `AtomicApply`, is also
stated by a theorem.

## Plan

What would come next: a smaller grain for the file-system walk of a snapshot, whose
single files are read at different times; the pages of the control plane that
read in several queries; and the nodes of a route plan with files of their own.

## Not modelled

Terminal and web presentation and the read-only pages of the control plane; the
command line's experiments, which run the modelled interfaces one after the other;
benchmark accounting and its floating-point statistics; provider runs of the
pilot, which the code refuses; JSON schemas and canonical serialization (digests
are taken as injective in what they hash; the id of a need, where different needs
hash the same fields, is modelled as the sequence of these fields); the text grammar of a need and the syntactic search of a
file; the file-system walk of snapshots and git; the prompts. The nodes of a route
plan depend on the same files in `SingleFlight`, so the partial hits of the legacy
cache do not arise there.
