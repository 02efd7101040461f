---------------------------- MODULE RoleProfiles ----------------------------
(***************************************************************************)
(* The role profiles of the control plane: immutable numbered definitions, *)
(* an active pointer moved by compare-and-swap on a state digest and an    *)
(* append-only audit log (store/role_profiles.rs), the HTTP handlers that  *)
(* read, check If-Match, commit and read again (server/role_profiles.rs),  *)
(* and a reader in another process, which does not share the connection    *)
(* mutex and reads the state row and the revisions in two statements.      *)
(*                                                                         *)
(* Profiles do not interact, so the model follows one profile id.  A       *)
(* definition is its policies, its routes and one letter for every other   *)
(* field; the definition digest is the canonical definition itself.        *)
(***************************************************************************)
EXTENDS Integers, Sequences, FiniteSets

CONSTANTS
  Editors,         \* web editors of the profile
  Inputs,          \* definition inputs they submit
  MaxRoutes,       \* HARD_MAX_NEEDS_PER_TASK
  MaxProfileAudit  \* bound: number of audit rows

VARIABLES
  profile,  \* revisions, state row and audit rows in the database
  editor,   \* per editor: program counter, If-Match, request, handler reads
  reader    \* the reader in another process

profileVars == <<profile, editor, reader>>

ASSUME ProfileConstants ==
  /\ MaxRoutes \in Nat
  /\ MaxProfileAudit \in Nat

Roles == {"explorer", "implementer", "test_runner", "reviewer", "verifier", "auditor"}

\* validate_without_digest: bounds on numbers and names stand as "rest = 0".
WellFormed(d) ==
  /\ d.rest # 0
  /\ Cardinality(d.routes) <= MaxRoutes
  /\ d.tool = "isolated_write" => d.fs = "disposable_checkout" /\ d.role = "implementer"
  /\ d.role # "implementer" => d.tool = "read_only" /\ d.fs = "read_only_checkout"
  /\ d.command = "certified_tests" <=> d.test = "certified"
  /\ d.command = "certified_tests" => d.role \in {"test_runner", "verifier"}

\* Sorting and deduplicating the routes leaves exactly their set.
Canonical(i) ==
  [i EXCEPT !.routes = {i.routes[n] : n \in DOMAIN i.routes}]

\* A list longer than the limit is refused before it is deduplicated.
Acceptable(i) == Len(i.routes) <= MaxRoutes /\ WellFormed(Canonical(i))

RevisionState(row, n) ==
  CASE row.active = n -> "active"
    [] row.active # n /\ row.latest = n -> "draft"
    [] OTHER -> "inactive"

Absent == [latest |-> 0, active |-> 0, generation |-> 0]

\* compute_state_digest of a loaded state, absence_digest of no profile.
StateDigestOf(p, row) ==
  [latest |-> row.latest,
   latestDef |-> IF row.latest = 0 THEN {} ELSE {p.revs[row.latest].def},
   active |-> row.active,
   activeDef |-> IF row.active = 0 THEN {} ELSE {p.revs[row.active].def},
   generation |-> row.generation]

DigestOfProfile == StateDigestOf(profile, profile.row)

AuditRow(op, n, before, after) ==
  [op |-> op, revision |-> n, prior |-> StateDigestOf(profile, profile.row),
   result |-> StateDigestOf(after, after.row),
   priorState |-> before, resultState |-> RevisionState(after.row, n)]

WithAudit(op, n, before, after) ==
  [after EXCEPT !.audit = Append(@, AuditRow(op, n, before, after))]

\* What a stored change makes of the profile.
Created(d) ==
  WithAudit("create", 1, "none",
    [profile EXCEPT !.revs = <<[def |-> d, activated |-> FALSE]>>,
                    !.row = [latest |-> 1, active |-> 0, generation |-> 0]])

Revised(d) ==
  LET n == profile.row.latest + 1 IN
  WithAudit("revise", n, RevisionState(profile.row, profile.row.latest),
    [profile EXCEPT !.revs = Append(@, [def |-> d, activated |-> FALSE]),
                    !.row.latest = n,
                    !.row.generation = @ + 1])

\* Fault: the activation metadata of the revision is not written.
ActivatedWithoutMetadata(n) ==
  WithAudit("activate", n, RevisionState(profile.row, n),
    [profile EXCEPT !.row.active = n,
                    !.row.generation = @ + 1])

Activated(n) ==
  WithAudit("activate", n, RevisionState(profile.row, n),
    [profile EXCEPT !.revs[n].activated = TRUE,
                    !.row.active = n,
                    !.row.generation = @ + 1])

Deactivated ==
  WithAudit("deactivate", profile.row.active, "active",
    [profile EXCEPT !.row.active = 0,
                    !.row.generation = @ + 1])

Revisions == DOMAIN profile.revs
Exists == profile.row.latest # 0

NoDigest == [latest |-> 0, latestDef |-> {}, active |-> 0, activeDef |-> {}, generation |-> 0]

ProfileInit ==
  /\ profile = [revs |-> <<>>, row |-> Absent, audit |-> <<>>]
  /\ editor = [e \in Editors |->
                [pc |-> "idle", seen |-> NoDigest, seenAt |-> -1, request |-> <<>>,
                 expected |-> NoDigest, existed |-> FALSE, answer |-> "none"]]
  /\ reader = [pc |-> "idle", row |-> Absent, since |-> 0, got |-> <<>>]

Set(e, changes) == editor' = [editor EXCEPT ![e] = changes]

Answer(e, status) ==
  Set(e, [editor[e] EXCEPT !.pc = "idle", !.answer = status,
                           !.request = <<>>, !.expected = NoDigest, !.existed = FALSE])

\* get_role_profile and preflight hand the state digest (or the digest of
\* absence) to the editor, who sends it back as If-Match.
Fetch(e) ==
  /\ editor[e].pc = "idle"
  /\ Set(e, [editor[e] EXCEPT !.seen = DigestOfProfile, !.seenAt = Len(profile.audit),
                              !.answer = "none"])
  /\ UNCHANGED <<profile, reader>>

\* The editor submits a draft, an activation of a revision it names together
\* with that revision's digest, or a deactivation naming the active digest.
Submit(e, request) ==
  /\ editor[e].pc = "idle"
  /\ editor[e].seenAt # -1
  /\ Set(e, [editor[e] EXCEPT !.pc = "check", !.request = request, !.answer = "none"])
  /\ UNCHANGED <<profile, reader>>

Requests ==
  {<<"save", i>> : i \in Inputs}
    \cup {<<"activate", n>> : n \in Revisions} \cup {<<"deactivate">>}

IfMatch(e) == editor[e].seen = DigestOfProfile

\* save_draft up to the store call: validation, current state, If-Match.
CheckSave(e) ==
  LET i == editor[e].request[2] IN
  /\ editor[e].pc = "check" /\ editor[e].request[1] = "save"
  /\ IF Acceptable(i) /\ IfMatch(e)
     THEN Set(e, [editor[e] EXCEPT !.pc = "commit", !.expected = DigestOfProfile,
                                   !.existed = Exists])
     ELSE Answer(e, IF Acceptable(i) THEN "precondition_failed" ELSE "unprocessable")
  /\ UNCHANGED <<profile, reader>>

\* activate and deactivate up to the store call.
CheckPointer(e) ==
  LET r == editor[e].request
      possible == \/ r[1] = "activate" /\ r[2] \in Revisions
                  \/ r[1] = "deactivate" /\ profile.row.active # 0 IN
  /\ editor[e].pc = "check" /\ r[1] \in {"activate", "deactivate"}
  /\ IF Exists /\ IfMatch(e) /\ possible
     THEN Set(e, [editor[e] EXCEPT !.pc = "commit", !.expected = DigestOfProfile])
     ELSE Answer(e, IF ~Exists THEN "not_found"
                    ELSE IF ~IfMatch(e) THEN "precondition_failed" ELSE "conflict")
  /\ UNCHANGED <<profile, reader>>

RoomForAudit == Len(profile.audit) < MaxProfileAudit

\* Fault: the newest revision is compared instead of the state.
UnmovedByRevision(e) == editor[e].expected.latest = profile.row.latest

\* compare_state inside the immediate transaction.
Unmoved(e) == editor[e].expected = DigestOfProfile

Duplicate(d) == \E n \in Revisions : profile.revs[n].def = d

\* revise_role_profile or create_role_profile, then the handler's outcome.
CommitSave(e) ==
  LET d == Canonical(editor[e].request[2])
      stored == IF editor[e].existed THEN Unmoved(e) /\ ~Duplicate(d) ELSE ~Exists
      wrongRole == editor[e].existed /\ Unmoved(e) /\ d.role # profile.revs[1].def.role IN
  /\ editor[e].pc = "commit" /\ editor[e].request[1] = "save"
  /\ RoomForAudit
  /\ \/ /\ ~wrongRole /\ stored
        /\ profile' = IF editor[e].existed THEN Revised(d) ELSE Created(d)
        /\ Set(e, [editor[e] EXCEPT !.pc = "respond"])
     \/ /\ wrongRole
        /\ Answer(e, "unprocessable") /\ UNCHANGED profile
     \/ /\ ~wrongRole /\ ~stored
        /\ Set(e, [editor[e] EXCEPT !.pc = "refused"]) /\ UNCHANGED profile
  /\ UNCHANGED reader

\* After a conflict the handler reads again to tell 412 from 409.
Refused(e) ==
  /\ editor[e].pc = "refused"
  /\ Answer(e, IF Unmoved(e) THEN "conflict" ELSE "precondition_failed")
  /\ UNCHANGED <<profile, reader>>

\* activate_role_profile_checked; an active revision is left as it is.
CommitActivate(e) ==
  LET n == editor[e].request[2] IN
  /\ editor[e].pc = "commit" /\ editor[e].request[1] = "activate"
  /\ RoomForAudit
  /\ \/ /\ Unmoved(e)
        /\ profile' = IF profile.row.active = n THEN profile ELSE Activated(n)
        /\ Set(e, [editor[e] EXCEPT !.pc = "respond"])
     \/ /\ ~Unmoved(e)
        /\ Answer(e, "precondition_failed") /\ UNCHANGED profile
  /\ UNCHANGED reader

\* deactivate_role_profile_checked.
CommitDeactivate(e) ==
  /\ editor[e].pc = "commit" /\ editor[e].request[1] = "deactivate"
  /\ RoomForAudit
  /\ \/ /\ Unmoved(e)
        /\ profile' = Deactivated
        /\ Set(e, [editor[e] EXCEPT !.pc = "respond"])
     \/ /\ ~Unmoved(e)
        /\ Answer(e, "precondition_failed") /\ UNCHANGED profile
  /\ UNCHANGED reader

\* The response carries the state digest of one more read.
Respond(e) ==
  /\ editor[e].pc = "respond"
  /\ Set(e, [editor[e] EXCEPT !.pc = "idle", !.answer = "ok", !.request = <<>>,
                              !.expected = NoDigest, !.existed = FALSE,
                              !.seen = DigestOfProfile, !.seenAt = Len(profile.audit)])
  /\ UNCHANGED <<profile, reader>>

\* load_state in another process: the state row first ...
ReadRow ==
  /\ reader.pc = "idle" /\ Exists
  /\ reader' = [reader EXCEPT !.pc = "loading", !.row = profile.row,
                              !.since = Len(profile.audit), !.got = <<>>]
  /\ UNCHANGED <<profile, editor>>

\* Fault: the newest revision is taken from the revisions.
RowWithNewest == [reader.row EXCEPT !.latest = Len(profile.revs)]

\* ... then MAX(revision), the latest and the active revision.
LoadedRow == reader.row

ReadRevisions ==
  /\ reader.pc = "loading"
  /\ reader' = [reader EXCEPT !.pc = "idle", !.row = Absent,
        !.got = IF Len(profile.revs) = LoadedRow.latest
                     /\ LoadedRow.active <= LoadedRow.latest
                     /\ LoadedRow.generation >= LoadedRow.latest - 1
                     /\ (LoadedRow.active # 0 => profile.revs[LoadedRow.active].activated)
                THEN <<"ok", StateDigestOf(profile, LoadedRow)>>
                ELSE <<"corruption">>]
  /\ UNCHANGED <<profile, editor>>

ProfileNext ==
  \/ \E e \in Editors :
       \/ Fetch(e) \/ CheckSave(e) \/ CheckPointer(e) \/ CommitSave(e) \/ Refused(e)
       \/ CommitActivate(e) \/ CommitDeactivate(e) \/ Respond(e)
       \/ \E request \in Requests : Submit(e, request)
  \/ ReadRow
  \/ ReadRevisions

-----------------------------------------------------------------------------

\* Each audited operation, as the change from one state digest to the next.
AuditedStep(a) ==
  /\ a.result.generation = IF a.op = "create" THEN 0 ELSE a.prior.generation + 1
  /\ CASE a.op = "create" -> a.prior = NoDigest /\ a.result.latest = 1 /\ a.revision = 1
       [] a.op = "revise" -> /\ a.revision = a.prior.latest + 1
                             /\ a.result.latest = a.revision
                             /\ a.result.active = a.prior.active
       [] a.op = "activate" -> /\ a.result.active = a.revision
                               /\ a.prior.active # a.revision
                               /\ a.result.latest = a.prior.latest
       [] a.op = "deactivate" -> /\ a.result.active = 0
                                 /\ a.prior.active = a.revision
                                 /\ a.result.latest = a.prior.latest
  /\ a.result.latestDef = {profile.revs[a.result.latest].def}
  /\ a.resultState = RevisionState(a.result, a.revision)

\* The audit log read from the beginning reproduces the stored state: every row
\* starts from the digest the previous one ended in, the last one ends in the
\* current state, the digests still fit the revisions (which therefore never
\* changed), a revision carries activation metadata exactly when it was
\* activated once, and all revisions are well formed, different and of one role
\* (insert_audit, load_state, the immutability of role_profile_revisions).
AuditReplays ==
  LET log == profile.audit
      role == profile.revs[1].def.role IN
  /\ \A n \in DOMAIN log :
       /\ AuditedStep(log[n])
       /\ n > 1 => log[n].prior = log[n - 1].result
  /\ Exists => log[Len(log)].result = DigestOfProfile
  /\ \A n \in Revisions :
       /\ profile.revs[n].activated <=>
            \E m \in DOMAIN log : log[m].op = "activate" /\ log[m].revision = n
       /\ WellFormed(profile.revs[n].def) /\ profile.revs[n].def.role = role
       /\ \A m \in Revisions : profile.revs[m].def = profile.revs[n].def => m = n

\* A change is stored only if the profile did not change in any way since the
\* state the editor's If-Match stands for was read, not even to and fro
\* (save_draft, activate, deactivate and the digest comparison in the store).
EditsWhatItSaw ==
  [][\A e \in Editors :
       editor[e].pc = "commit" /\ editor'[e].pc = "respond"
         => Len(profile.audit) = editor[e].seenAt]_profileVars

\* A reader in another process that gets an answer gets the state as it was when
\* it read the state row, never a mixture of that row with later revisions
\* (load_state without a transaction).
ReadsOneState ==
  reader.got # <<>> /\ reader.got[1] = "ok"
    => reader.got[2] = profile.audit[reader.since].result

=============================================================================
