--------------------------- MODULE WorkerSession ----------------------------
(***************************************************************************)
(* One run of an evidence worker (CodexWorker::execute_inner in            *)
(* needle-platform-codex/src/worker.rs): stale sessions are recovered, a   *)
(* checkout is materialised (needle-runtime/src/sandbox.rs), an App Server *)
(* is started over it, one or two turns are run, everything is torn down   *)
(* and the orchestrator records the run in worker_runs.                    *)
(*                                                                         *)
(* `disk' and `servers' are what runs have left on the machine: worktrees  *)
(* with their run directory, and App Server processes.  The provider, git  *)
(* and the operating system may fail at every call.                        *)
(***************************************************************************)
EXTENDS WorkerProtocol

CONSTANTS
  Workers,       \* executors that share one data directory
  WorkerRequests,      \* worker requests, as in WorkerProtocol
  Responses,     \* responses the provider may give
  CommandRuns,   \* sequences of command results of one turn
  RepairPolicies, \* evidence failure policies that are configured
  MaxRuns        \* bound on the worker runs

ASSUME WorkerConstants ==
  \A response \in Responses : response.schema \in {"semantic", "artifact", "legacy", "none"}

VARIABLES work, disk, servers, rows, runs

workerVars == <<work, disk, servers, rows, runs>>

NoRequest == [route |-> "none", requested |-> {}, fragment |-> FALSE, declared |-> {}]

IdleWorker ==
  [phase |-> "idle", run |-> 0, request |-> NoRequest, policy |-> "none", normal |-> NothingNormal,
   commands |-> <<>>, turns |-> 0, repaired |-> FALSE, session |-> FALSE, cleanup |-> "unknown",
   code |-> "none"]

WorkerInit ==
  /\ work = [w \in Workers |-> IdleWorker]
  /\ disk = {}
  /\ servers = {}
  /\ rows = {}
  /\ runs = 0

\* pending_worker_sessions.
PendingSessions == {r \in rows : r.session /\ r.cleanup # "ok"}

\* recover_stale_sessions: what `codex delete' could delete is marked cleaned.
MarkedCleaned(deleted) ==
  {IF r \in deleted THEN [r EXCEPT !.cleanup = "ok", !.recovered = TRUE] ELSE r : r \in rows}

\* execute_inner up to the isolation check.
StartRun(w) ==
  /\ work[w].phase = "idle" /\ runs < MaxRuns
  /\ runs' = runs + 1
  /\ \E request \in WorkerRequests, policy \in RepairPolicies :
       work' = [work EXCEPT ![w] = [IdleWorker EXCEPT !.phase = "started", !.run = runs + 1,
                                                      !.request = request, !.policy = policy]]
  /\ \E deleted \in SUBSET PendingSessions : rows' = MarkedCleaned(deleted)
  /\ UNCHANGED <<disk, servers>>

FailWith(w, code) == work' = [work EXCEPT ![w].phase = "ended", ![w].code = code]

\* verify_isolation refuses the executable, or its version.
IsolationRefused(w) ==
  /\ work[w].phase = "started"
  /\ FailWith(w, "isolation")
  /\ UNCHANGED <<disk, servers, rows, runs>>

\* IsolatedCheckout::materialize.  A failure before the worktree is complete
\* leaves what it had made; one after it removes what it can and ignores errors.
Materialize(w) ==
  /\ work[w].phase = "started"
  /\ work' = [work EXCEPT ![w].phase = "materialized"]
  /\ disk' = disk \cup {work[w].run}
  /\ UNCHANGED <<servers, rows, runs>>

MaterializeFails(w) ==
  /\ work[w].phase = "started"
  /\ FailWith(w, "sandbox_bypass")
  /\ disk' \in {disk, disk \cup {work[w].run}}
  /\ UNCHANGED <<servers, rows, runs>>

\* IsolatedCheckout::cleanup: a removal that failed is reported, and Drop tries
\* once more without a report.
RemoveCheckout(run) ==
  {[ok |-> TRUE, disk |-> disk \ {run}], [ok |-> FALSE, disk |-> disk \ {run}],
   [ok |-> FALSE, disk |-> disk]}

\* failure_after_sandbox_cleanup: only the checkout is removed, and reported on.
EndWithoutSession(w, code) ==
  \E removal \in RemoveCheckout(work[w].run) :
    /\ disk' = removal.disk
    /\ work' = [work EXCEPT ![w].phase = "ended",
                            ![w].cleanup = IF removal.ok THEN "ok" ELSE "failed",
                            ![w].code = IF removal.ok THEN code ELSE "worker_cleanup_failed"]

\* The source has moved, or the store cannot be opened.
FailAfterSandbox(w) ==
  /\ work[w].phase = "materialized"
  /\ EndWithoutSession(w, "not_started")
  /\ UNCHANGED <<servers, rows, runs>>

\* AppServerSession::start fails, before or after it has spawned the process:
\* its own cleanup may fail, which is told in the diagnostic and nowhere else.
StartServerFails(w) ==
  /\ work[w].phase = "materialized"
  /\ servers' \in {servers, servers \cup {work[w].run}}
  /\ EndWithoutSession(w, "app_server_start_failed")
  /\ UNCHANGED <<rows, runs>>

\* AppServerSession::start: from here on the run has a session.
StartServer(w) ==
  /\ work[w].phase = "materialized"
  /\ servers' = servers \cup {work[w].run}
  /\ work' = [work EXCEPT ![w].phase = "turn", ![w].session = TRUE, ![w].turns = 1]
  /\ UNCHANGED <<disk, rows, runs>>

\* The checks that follow the last turn.
Judged(run) ==
  [run EXCEPT !.phase = "clean up", !.code = Verdict(run.request, run.normal, run.commands)]

\* The body of a turn that was answered, and whether a repair turn follows it.
AfterTurn(run, response, commands) ==
  LET normal == Normalized(response, ModelKinds(run.request))
      sum == IF run.turns = 1 THEN normal ELSE MergedResponse(run.normal, normal)
      done == [run EXCEPT !.normal = sum, !.commands = run.commands \o commands]
  IN  IF run.turns = 1 /\ RepairRequired(run.policy, run.request, response, normal, done.commands)
      THEN [done EXCEPT !.turns = 2, !.repaired = TRUE] ELSE Judged(done)

\* A turn is answered.
TurnAnswered(w) ==
  /\ work[w].phase = "turn"
  /\ \E response \in Responses, commands \in CommandRuns :
       work' = [work EXCEPT ![w] = AfterTurn(work[w], response, commands)]
  /\ UNCHANGED <<disk, servers, rows, runs>>

\* run_turn_cancellable fails: the budget, a cancellation, the provider.
TurnFails(w) ==
  /\ work[w].phase = "turn"
  /\ work' = [work EXCEPT ![w].phase = "clean up", ![w].code = "turn_failed"]
  /\ UNCHANGED <<disk, servers, rows, runs>>

\* into_need_result binds the evidence to the checkout, which may fail.
BindingFails(w) ==
  /\ work[w].phase = "clean up" /\ work[w].code = "accepted"
  /\ work' = [work EXCEPT ![w].code = "evidence_binding_failed"]
  /\ UNCHANGED <<disk, servers, rows, runs>>

\* AppServerSession::cleanup kills the process and reaps it; there is no second
\* try.  An ephemeral thread is not deleted.
StopServer(run) ==
  {[ok |-> TRUE, servers |-> servers \ {run}], [ok |-> FALSE, servers |-> servers \ {run}],
   [ok |-> FALSE, servers |-> servers]}

\* Fault: the outcome of the turns is reported whatever the cleanup did.
CodeAfterCleanupKept(code, ok) == code

\* The match over the protocol's result and the cleanup's.
CodeAfterCleanup(code, ok) == IF ok THEN code ELSE "worker_cleanup_failed"

\* cleanup_worker_resources: the checkout is removed whether or not the server
\* stopped, and either failure fails the run.
CleanUp(w) ==
  /\ work[w].phase = "clean up"
  /\ \E stop \in StopServer(work[w].run), removal \in RemoveCheckout(work[w].run) :
       /\ servers' = stop.servers
       /\ disk' = removal.disk
       /\ work' = [work EXCEPT ![w].phase = "ended",
                               ![w].cleanup = IF stop.ok /\ removal.ok THEN "ok" ELSE "failed",
                               ![w].code = CodeAfterCleanup(@, stop.ok /\ removal.ok)]
  /\ UNCHANGED <<rows, runs>>

\* A row of worker_runs.
RunRow(run, code) ==
  [run |-> run.run, session |-> run.session, cleanup |-> run.cleanup, recovered |-> FALSE,
   code |-> code, turns |-> run.turns, repaired |-> run.repaired, request |-> run.request,
   normal |-> run.normal, commands |-> run.commands]

\* record_worker_failure, record_outcome_failure (the evidence no longer matches
\* the source) or record_worker_run.
RecordRun(w) ==
  /\ work[w].phase = "ended"
  /\ \E code \in IF work[w].code = "accepted" THEN {"accepted", "source_changed"} ELSE {work[w].code} :
       rows' = rows \cup {RunRow(work[w], code)}
  /\ work' = [work EXCEPT ![w] = IdleWorker]
  /\ UNCHANGED <<disk, servers, runs>>

\* The process dies: no destructor runs and no row is written.  The App Server
\* may notice that its input has closed.
WorkerCrash(w) ==
  /\ work[w].phase # "idle"
  /\ work' = [work EXCEPT ![w] = IdleWorker]
  /\ servers' \in {servers, servers \ {work[w].run}}
  /\ UNCHANGED <<disk, rows, runs>>

WorkerNext ==
  \E w \in Workers :
    \/ StartRun(w) \/ IsolationRefused(w)
    \/ Materialize(w) \/ MaterializeFails(w)
    \/ FailAfterSandbox(w) \/ StartServerFails(w) \/ StartServer(w)
    \/ TurnAnswered(w) \/ TurnFails(w) \/ BindingFails(w)
    \/ CleanUp(w) \/ RecordRun(w) \/ WorkerCrash(w)

-----------------------------------------------------------------------------
(* Properties.                                                             *)

\* What worker_runs says of a run is true.  Unless a later run's recovery wrote
\* it, a cleanup that is recorded as done left no worktree, and it left a process
\* only where the App Server failed to start: failure_after_sandbox_cleanup then
\* reports on the checkout alone.  An accepted run left neither, and no recovery
\* rewrote it (cleanup_worker_resources and the match in execute_inner), its
\* evidence covers what its caller asked for in the sum of its turns, and its
\* second turn was a declared repair.
WorkerReportIsTrue ==
  \A r \in rows :
    /\ r.cleanup = "ok" /\ ~r.recovered =>
         /\ r.run \notin disk
         /\ r.run \in servers => ~r.session /\ r.code = "app_server_start_failed"
    /\ r.code = "accepted" =>
         /\ r.cleanup = "ok" /\ ~r.recovered /\ r.run \notin disk \cup servers
         /\ AcceptanceIsEarned(r.request, r.normal, r.commands)
         /\ r.turns = 2 <=> r.repaired
=============================================================================
