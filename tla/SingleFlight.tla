---------------------------- MODULE SingleFlight ----------------------------
(***************************************************************************)
(* Resolution of one need by concurrent requesters, each a call of         *)
(* RuntimeEngine::resolve in a thread of some process, sharing the SQLite  *)
(* store and the repository working tree (orchestrator.rs, artifact_cache  *)
(* .rs, and the lease, cache and artifact tables of store.rs).             *)
(*                                                                         *)
(* Every requester asks for the same need under the same route, preset,    *)
(* worker configuration and role profile, so the source snapshot it        *)
(* captured is what tells one cache identity from another.  A source is a  *)
(* record of two fields: dep, the bytes the evidence depends on, and       *)
(* other, the rest of the tree.  The request carries no NeedIR; the nodes  *)
(* of its route's plan all depend on dep, so that they are found, stored   *)
(* and invalidated together and stand as one typed artifact.               *)
(***************************************************************************)
EXTENDS Integers, FiniteSets, Sequences, Functions

CONSTANTS
    Requesters,   \* the calls of resolve
    ProcessOf,    \* the process each call runs in
    Deps,         \* contents of the files the evidence depends on
    Others,       \* contents of the remaining files
    Starts,       \* the trees a behaviour may begin with
    Timeout,      \* worker_config.timeout_seconds, in clock ticks
    MaxTime,      \* the clock ticks freely up to here, then only for a waiter
    EditsAllowed, \* how many times the working tree changes
    Gates,        \* the values utility_gate_passed may begin with
    Policies,     \* per call, the values of worker_execution_allowed
    Forms,        \* the forms of a worker's result
    MayFail,      \* whether workers and the store report errors
    MayCrash,     \* the calls whose process may be killed
    None

ASSUME SingleFlightAssumption ==
    /\ Timeout \in Nat \ {0}
    /\ MaxTime \in Nat
    /\ EditsAllowed \in Nat
    /\ Starts \subseteq [dep : Deps, other : Others]
    /\ Gates \subseteq BOOLEAN /\ Policies \in [Requesters -> SUBSET BOOLEAN]
    /\ Forms \subseteq {"legacy", "typed-exact", "typed-semantic"}
    /\ MayFail \in BOOLEAN /\ MayCrash \subseteq Requesters
    /\ None \notin Requesters \cup Deps

VARIABLES
    now,        \* the wall clock all processes read
    source,     \* the repository working tree
    edits,      \* how often it was edited
    promoted,   \* settings.utility_gate_passed
    cache,      \* cache_entries: per snapshot, an entry or None
    artifacts,  \* artifacts, in order of created_unix_ms
    lease,      \* worker_leases: per snapshot, [owner, expires] or None
    req         \* the local state of each call

vars == <<now, source, edits, promoted, cache, artifacts, lease, req>>

Source == [dep : Deps, other : Others]

\* One run of the worker: the snapshot whose bytes it read in its sandbox, the
\* bytes whose digests bind_evidence_digests attached to the evidence, the call
\* that ran it, and its form: a legacy result, which becomes a snapshot-exact
\* brief, or typed groups, whose dependency manifest is incomplete ("typed-
\* exact", no reuse across snapshots) or complete ("typed-semantic").  History:
\* undone, whether the tree came back to the snapshot after the digests were
\* bound and before the second capture.
Outcome == [origin : Source, bound : Deps \cup {None}, form : Forms, by : Requesters,
            undone : BOOLEAN]

Bound == {o \in Outcome : o.bound # None}

\* A row of artifacts: its request names the snapshot outcome.origin; told are the
\* content digests of its payload, manifest those of its dependency manifest.
\* History: late, whether the tree was edited between the last comparison of the
\* call that made the row and its reading of told.
Artifact == [outcome : Bound, told : Deps, late : BOOLEAN, manifest : Deps]

\* The owner string "{pid}-{now_ms}".
Owner == {ProcessOf[r] : r \in Requesters} \X Nat

Lease == [owner : Owner, expires : Nat]

InStages == {"gate", "artifact", "cache", "stamp", "acquire", "waiting", "reacquire",
             "execute", "running", "bind", "validate", "recapture",
             "materialize", "bundle", "publish", "release"}

Working == {"execute", "running", "bind", "validate", "recapture", "materialize",
            "bundle", "publish"}

Answers == {"hit", "generated", "generated-unpromoted"}

\* None is not a tree, an owner, a lease, an outcome or an answer.
ASSUME NoneIsNoValue ==
    /\ None \notin Source
    /\ None \notin Owner
    /\ None \notin Lease
    /\ None \notin Outcome
    /\ None \notin Answers

\* The locals of resolve_with_worker_policy: leased and spawned record whether
\* this call took the lease and started a worker, told and late are those of the
\* brief it makes or finds, live the bytes in the tree when it returned.
Call == [pc : InStages \cup {"idle", "done", "crashed"},
         snap : Source \cup {None}, allowed : BOOLEAN,
         owner : Owner \cup {None}, expires : Nat,
         leased : BOOLEAN, spawned : BOOLEAN, result : Outcome \cup {None},
         told : Deps \cup {None}, late : BOOLEAN,
         answer : Answers \cup {"failed", None}, live : Deps \cup {None}]

Idle == [pc |-> "idle", snap |-> None, allowed |-> FALSE, owner |-> None,
         expires |-> 0, leased |-> FALSE, spawned |-> FALSE, result |-> None,
         told |-> None, late |-> FALSE, answer |-> None, live |-> None]

TypeOK ==
    /\ now \in Nat
    /\ source \in Source
    /\ edits \in Nat
    /\ promoted \in BOOLEAN
    /\ cache \in [Source -> Bound \cup {None}]
    /\ artifacts \in Seq(Artifact)
    /\ lease \in [Source -> Lease \cup {None}]
    /\ req \in [Requesters -> Call]

Init ==
    /\ now = 0
    /\ source \in Starts
    /\ edits = 0
    /\ promoted \in Gates
    /\ cache = [s \in Source |-> None]
    /\ artifacts = <<>>
    /\ lease = [s \in Source |-> None]
    /\ req = [r \in Requesters |-> Idle]

-----------------------------------------------------------------------------
(* The store's operations.                                                 *)

\* Fault: a row is taken for expired one tick too early.
LeasesExpireEarly == [s \in Source |-> IF lease[s] # None /\ lease[s].expires <= now + 1
                                          THEN None ELSE lease[s]]

\* acquire_lease: expired rows of every identity are deleted, then the row is
\* inserted unless the identity still has one.
LiveLeases == [s \in Source |-> IF lease[s] # None /\ lease[s].expires <= now
                                   THEN None ELSE lease[s]]

CanAcquire(s) == LiveLeases[s] = None

\* release_lease: only the row of this identity and this owner.
ReleaseLease(s, owner) ==
    lease' = [lease EXCEPT ![s] =
                IF @ # None /\ @.owner = owner THEN None ELSE @]

\* What a brief says its files hold: a legacy brief repeats the evidence digests;
\* code_locations and behavior_trace hash the files of typed groups as they are in
\* the working tree now.
Told(o) == IF o.form = "legacy" THEN o.bound ELSE source.dep

\* publish_artifact: the artifact id is a digest of the request and the payload,
\* and a second insertion of the same id is ignored, whatever its manifest.
\* manifest_for_groups hashes the files of typed groups once more.
PublishArtifact(o, told, late) ==
    LET row == [outcome |-> o, told |-> told, late |-> late,
                manifest |-> IF o.form = "legacy" THEN o.bound ELSE source.dep]
    IN  artifacts' = IF \E old \in Range(artifacts) : old.outcome = o /\ old.told = told
                       THEN artifacts ELSE Append(artifacts, row)

Typed == {i \in DOMAIN artifacts : artifacts[i].outcome.form # "legacy"}

ForSnapshot(s) == {i \in DOMAIN artifacts : artifacts[i].outcome.origin = s}

\* ORDER BY created_unix_ms DESC LIMIT 1.
Newest(rows, i) == i \in rows /\ \A j \in rows : j <= i

\* validate_manifest: a complete manifest whose files hash to what the working
\* tree holds now.
Reusable(i) ==
    /\ artifacts[i].outcome.form = "typed-semantic"
    /\ artifacts[i].manifest = source.dep

\* resolve_artifact, then latest_logical_artifact: the row of exactly this
\* snapshot, else the newest row of the need if it may cross snapshots.
PlanFinds(s, i) ==
    \/ Newest(Typed \cap ForSnapshot(s), i)
    \/ Typed \cap ForSnapshot(s) = {} /\ Newest(Typed, i) /\ Reusable(i)

-----------------------------------------------------------------------------
(* The steps of one call.                                                  *)

Goto(r, pc) == req' = [req EXCEPT ![r].pc = pc]

\* What is left of a call that is over: whom it called itself, what it was asked
\* and what it was answered.
Over(call, pc, answer) ==
    [Idle EXCEPT !.pc = pc, !.owner = call.owner, !.snap = call.snap, !.answer = answer]

Refuse(r) == req' = [req EXCEPT ![r] = Over(req[r], "done", "failed")]

\* A brief is the answer.
Return(r, answer, result, told, late) ==
    req' = [req EXCEPT ![r] =
              [Over(req[r], "done", answer) EXCEPT !.result = result, !.told = told,
                                                   !.late = late, !.live = source.dep]]

Hit(r, row) == Return(r, "hit", row.outcome, row.told, row.late)

\* An error before a lease is held returns at once; under a lease the call
\* still has to release it.
FailGenerate(r) ==
    IF req[r].leased
      THEN req' = [req EXCEPT ![r].pc = "release", ![r].answer = "failed",
                              ![r].result = None, ![r].told = None, ![r].late = FALSE]
      ELSE Refuse(r)

\* resolve / resolve_cache_only: capture_git_snapshot and the identity.
Start(r, allowed) ==
    /\ req[r].pc = "idle"
    /\ req' = [req EXCEPT ![r].pc = "gate", ![r].snap = source,
                          ![r].allowed = allowed]
    /\ UNCHANGED <<now, source, edits, promoted, cache, artifacts, lease>>

\* utility_gate_passed: an unpromoted store generates without lease or cache.
Gate(r) ==
    /\ req[r].pc = "gate"
    /\ \/ promoted /\ Goto(r, "artifact")
       \/ ~promoted /\ ~req[r].allowed /\ Refuse(r)
       \/ ~promoted /\ req[r].allowed /\ Goto(r, "execute")
    /\ UNCHANGED <<now, source, edits, promoted, cache, artifacts, lease>>

\* resolve_route_plan over the typed nodes, then ArtifactCache::resolve of the
\* brief, whose legacy rows never cross snapshots.
PlanHit(r) ==
    \E i \in DOMAIN artifacts :
        PlanFinds(req[r].snap, i) /\ Hit(r, artifacts[i])

PlanMiss(r) == \A i \in DOMAIN artifacts : ~PlanFinds(req[r].snap, i)

ResolveArtifact(r) ==
    /\ req[r].pc = "artifact"
    /\ LET briefs == ForSnapshot(req[r].snap) \ Typed
       IN  \/ PlanHit(r)
           \/ /\ PlanMiss(r)
              /\ \E i \in DOMAIN artifacts :
                    Newest(briefs, i) /\ Hit(r, artifacts[i])
           \/ PlanMiss(r) /\ briefs = {} /\ Goto(r, "cache")
    /\ UNCHANGED <<now, source, edits, promoted, cache, artifacts, lease>>

\* validate_cached_need_result: the evidence digests against the working tree.
EvidenceHolds(outcome) == outcome.bound = source.dep

\* cache_lookup: the entry of the identity.
CachedEntry(r) == cache[req[r].snap]

\* A hit goes on to materialize the stored outcome again.
TakeEntry(r) ==
    req' = [req EXCEPT ![r].pc = "materialize", ![r].result = CachedEntry(r)]

\* The exact-hit path, or the cache-only miss.
CacheLookup(r) ==
    /\ req[r].pc = "cache"
    /\ \/ CachedEntry(r) # None /\ EvidenceHolds(CachedEntry(r)) /\ TakeEntry(r)
       \/ /\ CachedEntry(r) # None /\ ~EvidenceHolds(CachedEntry(r))
          /\ Refuse(r)
       \/ CachedEntry(r) = None /\ req[r].allowed /\ Goto(r, "stamp")
       \/ CachedEntry(r) = None /\ ~req[r].allowed /\ Refuse(r)
    /\ UNCHANGED <<now, source, edits, promoted, cache, artifacts, lease>>

\* owner and expires are read off the clock before the transaction begins.
Stamp(r) ==
    /\ req[r].pc = "stamp"
    /\ req' = [req EXCEPT ![r].pc = "acquire", ![r].expires = now + Timeout,
                          ![r].owner = <<ProcessOf[r], now>>]
    /\ UNCHANGED <<now, source, edits, promoted, cache, artifacts, lease>>

\* acquire_lease, the first time and after the wait; the second failure is
\* RuntimeError::LeaseExpired.
Acquire(r) ==
    /\ req[r].pc \in {"acquire", "reacquire"}
    /\ LET s == req[r].snap
       IN  \/ /\ CanAcquire(s)
              /\ lease' = [LiveLeases EXCEPT ![s] = [owner |-> req[r].owner,
                                                     expires |-> req[r].expires]]
              /\ req' = [req EXCEPT ![r].pc = "execute", ![r].leased = TRUE]
           \/ /\ ~CanAcquire(s)
              /\ lease' = LiveLeases
              /\ IF req[r].pc = "acquire" THEN Goto(r, "waiting")
                                          ELSE Refuse(r)
    /\ UNCHANGED <<now, source, edits, promoted, cache, artifacts>>

\* wait_for_result, one turn of the polling loop that finds an entry.
Poll(r) ==
    /\ req[r].pc = "waiting"
    /\ CachedEntry(r) # None
    /\ LET holds == EvidenceHolds(CachedEntry(r)) /\ source = req[r].snap
       IN  \/ holds /\ PlanHit(r)
           \/ holds /\ PlanMiss(r) /\ TakeEntry(r)
           \/ ~holds /\ Refuse(r)
    /\ UNCHANGED <<now, source, edits, promoted, cache, artifacts, lease>>

\* Fault: the loop ends only once the owner's row is gone.
WaitForTheOwner(r) ==
    /\ req[r].pc = "waiting"
    /\ lease[req[r].snap] = None
    /\ req' = [req EXCEPT ![r].pc = "reacquire", ![r].expires = now + Timeout]
    /\ UNCHANGED <<now, source, edits, promoted, cache, artifacts, lease>>

\* The loop ends without an entry; expires is read off the clock again.
WaitTimesOut(r) ==
    /\ req[r].pc = "waiting"
    /\ now > req[r].expires
    /\ req' = [req EXCEPT ![r].pc = "reacquire", ![r].expires = now + Timeout]
    /\ UNCHANGED <<now, source, edits, promoted, cache, artifacts, lease>>

\* worker.execute: the sandbox must reproduce the requested snapshot.
EnterSandbox(r) ==
    /\ req[r].pc = "execute"
    /\ IF source = req[r].snap
         THEN req' = [req EXCEPT ![r].pc = "running", ![r].spawned = TRUE]
         ELSE FailGenerate(r)
    /\ UNCHANGED <<now, source, edits, promoted, cache, artifacts, lease>>

\* The worker answers from its sandbox; an approval wait extends its budget, so
\* it may outlive the lease.
WorkerAnswers(r, form) ==
    /\ req[r].pc = "running"
    /\ req' = [req EXCEPT ![r].pc = "bind",
                          ![r].result = [origin |-> req[r].snap, bound |-> None,
                                         form |-> form, by |-> r, undone |-> FALSE]]
    /\ UNCHANGED <<now, source, edits, promoted, cache, artifacts, lease>>

WorkerFails(r) ==
    /\ MayFail
    /\ req[r].pc = "running"
    /\ FailGenerate(r)
    /\ UNCHANGED <<now, source, edits, promoted, cache, artifacts, lease>>

\* bind_evidence_digests reads the working tree, not the sandbox.
BindEvidence(r) ==
    /\ req[r].pc = "bind"
    /\ req' = [req EXCEPT ![r].pc = "validate", ![r].result.bound = source.dep]
    /\ UNCHANGED <<now, source, edits, promoted, cache, artifacts, lease>>

\* validate_need_result.
ValidateResult(r) ==
    /\ req[r].pc = "validate"
    /\ IF EvidenceHolds(req[r].result) THEN Goto(r, "recapture")
                                       ELSE FailGenerate(r)
    /\ UNCHANGED <<now, source, edits, promoted, cache, artifacts, lease>>

\* Fault: generate trusts the snapshot it was given.
TrustFirstCapture(r) == TRUE

\* The second capture_git_snapshot of generate, else RuntimeError::SourceChanged.
SourceUnchanged(r) == source = req[r].snap

Recapture(r) ==
    /\ req[r].pc = "recapture"
    /\ IF SourceUnchanged(r) THEN Goto(r, "materialize") ELSE FailGenerate(r)
    /\ UNCHANGED <<now, source, edits, promoted, cache, artifacts, lease>>

\* materialize_worker_artifact of a new or a stored outcome: the payload, ...
Materialize(r) ==
    /\ req[r].pc = "materialize"
    /\ req' = [req EXCEPT ![r].pc = "bundle", ![r].told = Told(req[r].result)]
    /\ UNCHANGED <<now, source, edits, promoted, cache, artifacts, lease>>

\* ... then the manifest and, in a promoted store, the row.
Bundle(r) ==
    /\ req[r].pc = "bundle"
    /\ \/ /\ ~req[r].spawned
          /\ PublishArtifact(req[r].result, req[r].told, req[r].late)
          /\ Return(r, "hit", req[r].result, req[r].told, req[r].late)
       \/ /\ req[r].spawned /\ req[r].leased
          /\ PublishArtifact(req[r].result, req[r].told, req[r].late)
          /\ Goto(r, "publish")
       \/ /\ req[r].spawned /\ ~req[r].leased
          /\ Return(r, "generated-unpromoted", req[r].result, req[r].told, req[r].late)
          /\ UNCHANGED artifacts
    /\ UNCHANGED <<now, source, edits, promoted, cache, lease>>

\* RuntimeStore::publish, INSERT OR REPLACE.
Publish(r) ==
    /\ req[r].pc = "publish"
    /\ cache' = [cache EXCEPT ![req[r].snap] = req[r].result]
    /\ req' = [req EXCEPT ![r].pc = "release", ![r].answer = "generated"]
    /\ UNCHANGED <<now, source, edits, promoted, artifacts, lease>>

\* The store reports an error and the call returns it; one of
\* materialize_worker_artifact or of publish still releases the lease.
StoreFails(r) ==
    /\ MayFail
    /\ req[r].pc \in {"gate", "artifact", "cache", "acquire", "waiting", "reacquire",
                      "materialize", "bundle", "publish"}
    /\ FailGenerate(r)
    /\ UNCHANGED <<now, source, edits, promoted, cache, artifacts, lease>>

Release(r) ==
    /\ req[r].pc = "release"
    /\ ReleaseLease(req[r].snap, req[r].owner)
    /\ Return(r, req[r].answer, req[r].result, req[r].told, req[r].late)
    /\ UNCHANGED <<now, source, edits, promoted, cache, artifacts>>

\* release_lease fails: the call reports it, and the row waits to expire.
ReleaseFails(r) ==
    /\ MayFail
    /\ req[r].pc = "release"
    /\ Refuse(r)
    /\ UNCHANGED <<now, source, edits, promoted, cache, artifacts, lease>>

-----------------------------------------------------------------------------
(* The environment.                                                        *)

\* The process of a call is killed: its lease stays in the table.
Crash(r) ==
    /\ r \in MayCrash
    /\ req[r].pc \in InStages
    /\ req' = [req EXCEPT ![r] = Over(req[r], "crashed", None)]
    /\ UNCHANGED <<now, source, edits, promoted, cache, artifacts, lease>>

\* What an edit of the tree to s means to a call that is running.
Disturbed(call, s) ==
    [call EXCEPT !.late = @ \/ call.pc = "materialize",
                 !.result = IF call.pc \in {"validate", "recapture"} /\ s = call.snap
                              THEN [@ EXCEPT !.undone = TRUE] ELSE @]

\* The working tree is edited, to new contents or back to earlier ones.
Edit(s) ==
    /\ edits < EditsAllowed
    /\ s # source
    /\ source' = s
    /\ edits' = edits + 1
    /\ req' = [r \in Requesters |->
                 IF req[r].pc \in InStages THEN Disturbed(req[r], s) ELSE req[r]]
    /\ UNCHANGED <<now, promoted, cache, artifacts, lease>>

\* needle cache invalidate.
InvalidateCache(s) ==
    /\ cache[s] # None
    /\ cache' = [cache EXCEPT ![s] = None]
    /\ UNCHANGED <<now, source, edits, promoted, artifacts, lease, req>>

\* mark_utility_gate_passed.
MarkUtilityGatePassed ==
    /\ ~promoted
    /\ promoted' = TRUE
    /\ UNCHANGED <<now, source, edits, cache, artifacts, lease, req>>

ClockRuns ==
    \/ now < MaxTime
    \/ \E r \in Requesters : req[r].pc = "waiting" /\ now <= req[r].expires

Tick ==
    /\ ClockRuns
    /\ now' = now + 1
    /\ UNCHANGED <<source, edits, promoted, cache, artifacts, lease, req>>

AllReturned == \A r \in Requesters : req[r].pc \in {"done", "crashed"}

\* Nothing is left to do: every call has returned and the clock has stopped.
Finished == AllReturned /\ ~ClockRuns /\ UNCHANGED vars

Advance(r) ==
    \/ Gate(r) \/ ResolveArtifact(r) \/ CacheLookup(r)
    \/ Stamp(r) \/ Acquire(r) \/ Poll(r) \/ WaitTimesOut(r) \/ EnterSandbox(r)
    \/ \E form \in Forms : WorkerAnswers(r, form)
    \/ BindEvidence(r) \/ ValidateResult(r) \/ Recapture(r)
    \/ Materialize(r) \/ Bundle(r) \/ Publish(r) \/ Release(r)

CallStep(r) == Advance(r) \/ WorkerFails(r) \/ StoreFails(r) \/ ReleaseFails(r)

Next ==
    \/ \E r \in Requesters :
          \/ \E allowed \in Policies[r] : Start(r, allowed)
          \/ CallStep(r)
          \/ Crash(r)
    \/ \E s \in Source : Edit(s) \/ InvalidateCache(s)
    \/ MarkUtilityGatePassed
    \/ Tick
    \/ Finished

Spec == Init /\ [][Next]_vars

\* A call that is running keeps running: its thread is scheduled, the worker
\* answers unless it fails, and the clock advances; no error is ever owed.
FairSpec == Spec /\ WF_vars(Tick) /\ \A r \in Requesters : WF_vars(Advance(r))

-----------------------------------------------------------------------------
(* Properties.                                                             *)

Holding(r) == req[r].leased /\ req[r].pc \in Working /\ now < req[r].expires

\* Two calls whose owner strings were made in the same process and millisecond.
OwnersCollide == \E a, b \in Requesters :
                    a # b /\ req[a].owner # None /\ req[a].owner = req[b].owner

\* acquire_lease and release_lease: while a call works for a snapshot under a
\* lease that has not expired, no other call works for it under another one,
\* whatever crashed, timed out or finished late before; only two calls that
\* made the same owner string can undo this.
LeaseExclusive ==
    OwnersCollide \/
    \A a, b \in Requesters :
        (a # b /\ Holding(a) /\ Holding(b)) => req[a].snap # req[b].snap

\* generate, cache_lookup, wait_for_result and materialize_worker_artifact: an
\* answer was computed for the snapshot the call captured, unless its manifest is
\* complete, and says what its worker read.  Two windows are open: an edit that
\* was undone before the second capture of the call that ran the worker, and, for
\* typed groups, one between the last comparison of the call that materialized
\* them and its hashing of the files.
ServedFromCapturedSource ==
    \A r \in Requesters :
        (req[r].pc = "done" /\ req[r].answer \in Answers) =>
            LET o == req[r].result
            IN  /\ o.origin = req[r].snap \/ o.form = "typed-semantic"
                /\ o.bound = o.origin.dep \/ o.undone
                /\ \/ req[r].told = o.origin.dep \/ o.undone
                   \/ o.form # "legacy" /\ req[r].late

\* "A semantic reuse is only possible when every claim-bearing dependency is
\* complete and still hashes to the observed digest" (artifact_cache.rs:43): an
\* answer computed for another snapshot was computed from the bytes that are in
\* the working tree when it is given.
ReuseOfObservedBytes ==
    \A r \in Requesters :
        (req[r].pc = "done" /\ req[r].answer \in Answers) =>
            \/ req[r].result.origin = req[r].snap
            \/ req[r].live = req[r].result.origin.dep

\* resolve: a call that began returns, with an answer or an error, unless its
\* process is killed; a lease left behind by a killed owner delays it by no
\* more than its own timeout.
EveryCallReturns ==
    \A r \in Requesters :
        (req[r].pc = "gate") ~> (req[r].pc \in {"done", "crashed"})

=============================================================================
