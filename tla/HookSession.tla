---------------------------- MODULE HookSession ----------------------------
(***************************************************************************)
(* The hook transport: one short-lived process per Codex event.  A Stop    *)
(* hook that finds a need in the last message claims the turn in a state   *)
(* file under a lock file (needle-platform-codex/src/lib.rs), resolves the *)
(* need under what the session froze (store.rs, orchestrator.rs) and       *)
(* prints a continuation; every error lets the main model go on.  The      *)
(* session row is written by the other hooks (main.rs, run_hook).          *)
(*                                                                         *)
(* A digest is the value it is the digest of, and DigestRank its place in  *)
(* the byte order by which the ordered sets of the state file are pruned.  *)
(***************************************************************************)
EXTENDS Integers, Sequences, FiniteSets

CONSTANTS
  Hooks,            \* hook processes that may run at the same time
  HookSessions,     \* session ids
  Turns,            \* turn ids
  HookNeeds,        \* needs a final message may carry, all with a configured key
  DigestRank(_),    \* order of the digests of state keys and of turn keys
  MaxStateEntries,  \* MAX_STATE_ENTRIES
  LastRevision,     \* bound: revisions of the role profile
  LastRoutes,       \* bound: versions of the route set
  MaxStops,         \* bound: Stop events and kills
  MaxSessionStarts  \* bound: SessionStart events

VARIABLES
  files,      \* PLUGIN_DATA: state file and backup (at most one each), lock file
  rows,       \* per session id: the row of `sessions', or NoRow
  hook,       \* per hook process: where it is and what it carries
  world,      \* environment: active profile revision, route set, experiment arm
  continued,  \* continuations printed, oldest first
  forgotten   \* history: turn keys that left the state file

hookVars == <<files, rows, hook, world, continued, forgotten>>

ASSUME HookConstants ==
  /\ MaxStateEntries \in Nat \ {0}
  /\ LastRevision \in Nat
  /\ LastRoutes \in Nat
  /\ MaxStops \in Nat
  /\ MaxSessionStarts \in Nat

Free == "free"
ASSUME FreeIsNoHook == Free \notin Hooks
NoFile == {}
NoTurn == "null"
NoRow == [revision |-> 0, routes |-> 0, root |-> NoTurn, turn |-> NoTurn]
Fallback == [revision |-> 0, routes |-> 0]

LoopStateOf(handled, blocked) == [handled |-> handled, blocked |-> blocked]
NoClaims == LoopStateOf({}, {})

state_key(h) == <<h.session, h.turn, h.need>>
turn_key(h) == <<h.session, h.turn>>

\* pop_first drops the smallest digest, whichever entry is the oldest.
Largest(S) ==
  {k \in S : Cardinality({j \in S : DigestRank(j) > DigestRank(k)}) < MaxStateEntries}
prune_state(s) == LoopStateOf(Largest(s.handled), Largest(s.blocked))

\* A missing state file is an empty state, whatever became of its backup.
read_state == IF files.state = NoFile THEN NoClaims ELSE CHOOSE s \in files.state : TRUE

IdleHook == [at |-> "idle"]

-----------------------------------------------------------------------------
(* The Stop hook.  Under NEEDLE_EXPERIMENT_ARM (`experiment') it answers   *)
(* without a resolver, and an unusable state file yields the fallback.     *)

\* No marker, a malformed one, an unknown key, a missing id, stop_hook_active
\* or the arms P0 and P3: a noop, still recorded.
StopWithoutNeed(h) ==
  /\ hook[h].at = "idle"
  /\ world.stops < MaxStops
  /\ hook' = [hook EXCEPT ![h] = [at |-> "log", answer |-> "noop"]]
  /\ world' = [world EXCEPT !.stops = @ + 1]
  /\ UNCHANGED <<files, rows, continued, forgotten>>

StopWithNeed(h, s, t, n) ==
  /\ hook[h].at = "idle"
  /\ world.stops < MaxStops
  /\ hook' = [hook EXCEPT ![h] =
       [at |-> "claim", session |-> s, turn |-> t, need |-> n,
        next |-> NoClaims, pruned |-> {}]]
  /\ world' = [world EXCEPT !.stops = @ + 1]
  /\ UNCHANGED <<files, rows, continued, forgotten>>

\* What a Stop hook does when the claim fails, and when the turn is taken.
ClaimFailed(h) ==
  hook' = [hook EXCEPT ![h] =
    IF world.experiment
    THEN [at |-> "log", answer |-> "block", session |-> @.session, turn |-> @.turn,
          claimed |-> FALSE, with |-> Fallback]
    ELSE [at |-> "log", answer |-> "noop"]]

Unlocked == [files EXCEPT !.lock = Free]

\* Fault: the claim does not wait for the lock.
ClaimUnlocked(h) ==
  /\ hook[h].at = "claim"
  /\ files' = [files EXCEPT !.lock = h]
  /\ hook' = [hook EXCEPT ![h].at = "read"]
  /\ UNCHANGED <<rows, world, continued, forgotten>>

\* with_plugin_data_lock: create_new, or two seconds of trying.
TakeLock(h) ==
  /\ hook[h].at = "claim"
  /\ files.lock = Free
  /\ files' = [files EXCEPT !.lock = h]
  /\ hook' = [hook EXCEPT ![h].at = "read"]
  /\ UNCHANGED <<rows, world, continued, forgotten>>

LockTimeout(h) ==
  /\ hook[h].at = "claim"
  /\ files.lock # Free
  /\ ClaimFailed(h)
  /\ UNCHANGED <<files, rows, world, continued, forgotten>>

\* claim_stop up to write_state; what pruning drops is forgotten.
ReadClaims(h) ==
  LET read == prune_state(read_state)
      full == LoopStateOf(read.handled \cup {state_key(hook[h])}, read.blocked \cup {turn_key(hook[h])})
      next == prune_state(full)
  IN
  /\ hook[h].at = "read"
  /\ UNCHANGED <<rows, world, continued>>
  /\ \/ /\ state_key(hook[h]) \in read.handled \/ turn_key(hook[h]) \in read.blocked
        /\ files' = Unlocked
        /\ hook' = [hook EXCEPT ![h] = [at |-> "log", answer |-> "noop"]]
        /\ UNCHANGED forgotten
     \/ /\ state_key(hook[h]) \notin read.handled
        /\ turn_key(hook[h]) \notin read.blocked
        /\ hook' = [hook EXCEPT ![h] =
             [@ EXCEPT !.at = "aside", !.next = next, !.pruned = full.blocked \ next.blocked]]
        /\ UNCHANGED <<files, forgotten>>

\* write_state: the old file is moved aside ...
MoveAside(h) ==
  /\ hook[h].at = "aside"
  /\ files' = [files EXCEPT !.state = NoFile,
                            !.backup = files.state]
  /\ hook' = [hook EXCEPT ![h].at = "install"]
  /\ UNCHANGED <<rows, world, continued, forgotten>>

\* ... and the new one renamed into its place.
Install(h) ==
  /\ hook[h].at = "install"
  /\ files' = [files EXCEPT !.state = {hook[h].next}]
  /\ forgotten' = forgotten \cup hook[h].pruned
  /\ hook' = [hook EXCEPT ![h].at = "tidy"]
  /\ UNCHANGED <<rows, world, continued>>

\* The rename fails; restoring the backup may fail as well, and nobody looks.
InstallFails(h) ==
  /\ hook[h].at = "install"
  /\ ClaimFailed(h)
  /\ UNCHANGED <<rows, world, continued>>
  /\ \/ /\ files' = [Unlocked EXCEPT !.state = files.backup, !.backup = NoFile]
        /\ UNCHANGED forgotten
     \/ /\ files.backup # NoFile
        /\ files' = Unlocked
        /\ forgotten' = forgotten \cup UNION {b.blocked : b \in files.backup}

\* Reading, writing the temporary file, removing the backup or moving the
\* state aside fails: an error with the lock released.
ClaimIoFails(h) ==
  /\ hook[h].at \in {"read", "aside", "tidy"}
  /\ files' = Unlocked
  /\ ClaimFailed(h)
  /\ UNCHANGED <<rows, world, continued, forgotten>>

Claimed(h) ==
  /\ hook[h].at = "tidy"
  /\ files' = [Unlocked EXCEPT !.backup = NoFile]
  /\ hook' = [hook EXCEPT ![h].at = "resolve"]
  /\ UNCHANGED <<rows, world, continued, forgotten>>

Blocks(h, with) ==
  hook' = [hook EXCEPT ![h] =
    [at |-> "log", answer |-> "block", session |-> @.session, turn |-> @.turn,
     claimed |-> TRUE, with |-> with]]

\* The rows a resolution accepts: bound to a revision, with a root task, in
\* the turn of the request or in none.
Resolvable(r, turn) ==
  /\ r # NoRow
  /\ r.root # NoTurn
  /\ r.turn \in {NoTurn, turn}

\* resolve_session_worker_config and the frozen routes: never the pointers.
ResolvedWith(r) == [revision |-> r.revision, routes |-> r.routes]

\* The session as it is loaded; a row that does not parse is an error.
SessionOf(s) == rows[s]

\* The resolver yields a payload, or an error and then the fallback.
ResolveNeed(h) ==
  LET r == SessionOf(hook[h].session) IN
  /\ hook[h].at = "resolve"
  /\ UNCHANGED <<files, rows, world, continued, forgotten>>
  /\ \/ world.experiment /\ Blocks(h, Fallback)
     \/ /\ ~world.experiment
        /\ Resolvable(r, hook[h].turn)
        /\ Blocks(h, ResolvedWith(r))
     \/ ~world.experiment /\ Blocks(h, Fallback)

\* record_hook_telemetry takes the same lock and gives it back; a timeout only
\* skips the record.
LogEvent(h) ==
  /\ hook[h].at = "log"
  /\ hook' = [hook EXCEPT ![h].at = "print"]
  /\ UNCHANGED <<files, rows, world, continued, forgotten>>

\* Only now does Codex see the answer.
PrintAnswer(h) ==
  /\ hook[h].at = "print"
  /\ hook' = [hook EXCEPT ![h] = IdleHook]
  /\ continued' = IF hook[h].answer = "block" THEN Append(continued, hook[h]) ELSE continued
  /\ UNCHANGED <<files, rows, world, forgotten>>

\* Codex kills a hook that takes too long; a lock file it holds stays.
KillHook(h) ==
  /\ hook[h].at # "idle"
  /\ world.stops < MaxStops
  /\ hook' = [hook EXCEPT ![h] = IdleHook]
  /\ world' = [world EXCEPT !.stops = @ + 1]
  /\ \/ UNCHANGED files
     \/ hook[h].at = "log" /\ files.lock = Free /\ files' = [files EXCEPT !.lock = h]
  /\ UNCHANGED <<rows, continued, forgotten>>

-----------------------------------------------------------------------------
(* The session row, and the configuration that moves on meanwhile.         *)

\* The route set is read before the transaction that binds the revision.
SessionStart(h, s) ==
  /\ hook[h].at = "idle"
  /\ world.starts < MaxSessionStarts
  /\ hook' = [hook EXCEPT ![h] = [at |-> "start", session |-> s, routes |-> world.routes]]
  /\ world' = [world EXCEPT !.starts = @ + 1]
  /\ UNCHANGED <<files, rows, continued, forgotten>>

\* ON CONFLICT DO NOTHING: a known session keeps what it has, also when the
\* active revision is another by now; without a revision nothing is recorded.
RecordSessionStart(h) ==
  LET s == hook[h].session IN
  /\ hook[h].at = "start"
  /\ rows' = IF rows[s] = NoRow /\ world.active # 0
                THEN [rows EXCEPT ![s] = [revision |-> world.active, routes |-> hook[h].routes,
                                             root |-> NoTurn, turn |-> NoTurn]]
                ELSE rows
  /\ hook' = [hook EXCEPT ![h] = [at |-> "log", answer |-> "context"]]
  /\ UNCHANGED <<files, world, continued, forgotten>>

\* The first prompt stays the root task, the turn is the latest one.
RecordUserPrompt(s, t) ==
  /\ rows[s] # NoRow
  /\ rows' = [rows EXCEPT ![s].turn = t, ![s].root = IF @ = NoTurn THEN "task" ELSE @]
  /\ UNCHANGED <<files, hook, world, continued, forgotten>>

EndSession(s) ==
  /\ rows[s] # NoRow
  /\ rows' = [rows EXCEPT ![s].turn = NoTurn, ![s].root = NoTurn]
  /\ UNCHANGED <<files, hook, world, continued, forgotten>>

Reconfigure ==
  /\ \/ world.active < LastRevision /\ world' = [world EXCEPT !.active = @ + 1]
     \/ world.routes < LastRoutes /\ world' = [world EXCEPT !.routes = @ + 1]
  /\ UNCHANGED <<files, rows, hook, continued, forgotten>>

-----------------------------------------------------------------------------
HookInit ==
  /\ files = [state |-> NoFile, backup |-> NoFile, lock |-> Free]
  /\ rows = [s \in HookSessions |-> NoRow]
  /\ hook = [h \in Hooks |-> IdleHook]
  /\ world \in [active : {0}, routes : {1}, stops : {0}, starts : {0}, experiment : BOOLEAN]
  /\ continued = <<>>
  /\ forgotten = {}

StopStep(h) ==
  \/ StopWithoutNeed(h) \/ TakeLock(h) \/ LockTimeout(h) \/ ReadClaims(h) \/ MoveAside(h)
  \/ Install(h) \/ InstallFails(h) \/ ClaimIoFails(h) \/ Claimed(h) \/ ResolveNeed(h)
  \/ LogEvent(h) \/ PrintAnswer(h) \/ KillHook(h)
  \/ \E s \in HookSessions, t \in Turns, n \in HookNeeds : StopWithNeed(h, s, t, n)

HookNext ==
  \/ \E h \in Hooks : StopStep(h) \/ RecordSessionStart(h)
  \/ \E h \in Hooks, s \in HookSessions : SessionStart(h, s)
  \/ \E s \in HookSessions, t \in Turns \cup {NoTurn} : RecordUserPrompt(s, t)
  \/ \E s \in HookSessions : EndSession(s)
  \/ Reconfigure

HookSpec == HookInit /\ [][HookNext]_hookVars

-----------------------------------------------------------------------------
\* A turn is continued once: of two claimed continuations of a turn the claim
\* was pruned from the state file in between, or the file was lost when
\* neither the new one nor its backup could be put in place.  Killed hooks,
\* failed writes and concurrent Stop events add no third case (claim_stop).
TurnContinuedOnce ==
  \A i, j \in DOMAIN continued :
    (/\ i # j
     /\ continued[i].claimed /\ continued[j].claimed
     /\ turn_key(continued[i]) = turn_key(continued[j]))
    => turn_key(continued[i]) \in forgotten

\* And a session is answered under one configuration: all payloads of a
\* session come from the profile revision and the route set it was recorded
\* with, however often either changed, the session ended or began again.
SessionFrozen ==
  \A i, j \in DOMAIN continued :
    (/\ continued[i].session = continued[j].session
     /\ Fallback \notin {continued[i].with, continued[j].with})
    => continued[i].with = continued[j].with

\* The Stop hook continues a turn once and a session under one configuration.
HookContinuations == TurnContinuedOnce /\ SessionFrozen
=============================================================================
