--------------------------- MODULE ChangeSessions ---------------------------
(***************************************************************************)
(* The MCP sessions that prepare, verify and repair one change             *)
(* (mcp.rs: prepare_change_call, verify_change_call; patcher.rs;           *)
(* verifier.rs), composed with the transactions of ChangeStore, an editor  *)
(* of the working tree and the control plane's apply.                      *)
(*                                                                         *)
(* Each session is a process of its own and makes one call at a time.      *)
(* Between two reads, a checkout, a turn of the model and a transaction,   *)
(* any other session may run.  Turns end with any outcome; what makes a    *)
(* response a verdict is the subject of VerifierVerdict, what makes files  *)
(* a patch that of PatchObservation.  A snapshot digest is the version of  *)
(* the working tree; materialize checks its copy against the capture, so a *)
(* checkout is of one version.  A transaction may be refused by its checks *)
(* or by the database.                                                     *)
(***************************************************************************)
EXTENDS ChangeStore

CONSTANTS
  Sessions,        \* MCP sessions
  MaxEdits,        \* bound: edits of the working tree
  MaxCalls         \* bound: calls of all sessions

VARIABLES
  tree,            \* version of the working tree
  base,            \* source_snapshot_digest of the change
  session,         \* per session: the call in progress
  calls,           \* number of calls made
  examined,        \* history: per verification, the tree and patch its verifier had
  unrecorded       \* history: revisions whose failed run could not be recorded

sessionVars == <<tree, base, session, calls, examined, unrecorded>>
allVars == <<change, patches, verifs, applies, lc, tree, base, session, calls, examined, unrecorded>>

NoCall ==
  [pc |-> "idle", round |-> 1, patch |-> None, state |-> "requested",
   checkout |-> 0, verdict |-> None, performed |-> FALSE, outcome |-> None]

SessionInit ==
  /\ Init
  /\ tree = 0 /\ base = 0
  /\ session = [s \in Sessions |-> NoCall]
  /\ calls = 0
  /\ examined = <<>>
  /\ unrecorded = {}

At(s, pc) == session[s].pc = pc
Go(s, pc) == session' = [session EXCEPT ![s].pc = pc]

\* A call ends with a tool error or with an outcome.
EndCall(s, outcome) ==
  session' = [session EXCEPT ![s] =
    [NoCall EXCEPT !.outcome = outcome,
                   !.performed = session[s].performed]]

\* An error inside the call: in the first verification it is the answer; after
\* a repairable verdict the call still records an inconclusive verification.
CallFails(s) ==
  IF session[s].round = 1 THEN EndCall(s, None) ELSE Go(s, "inconclusive")

-----------------------------------------------------------------------------
(* prepare_change *)

\* prepare_change_call up to the patcher: each artifact and claim the request
\* names must be stored with a certificate, fresh in the working tree as it is
\* now and of this repository, or the call is refused.
CheckContext(s) ==
  /\ At(s, "idle") /\ calls < MaxCalls /\ change = None
  /\ EndCall(s, None) \/ session' = [session EXCEPT ![s] = [NoCall EXCEPT !.pc = "context"]]
  /\ calls' = calls + 1
  /\ UNCHANGED <<change, patches, verifs, applies, lc, tree, base, examined, unrecorded>>

\* prepare: the checkout and the request row; the change identity is fresh.  The
\* tree may be another one than that of the context by now.
Prepare(s) ==
  /\ At(s, "context")
  /\ RecordChangeRequest
  /\ base' = tree
  /\ session' = [session EXCEPT ![s] =
       [NoCall EXCEPT !.pc = "patching", !.checkout = tree]]
  /\ UNCHANGED <<tree, calls, examined, unrecorded>>

Revision(s) == IF session[s].round = 1 THEN 1 ELSE 2

\* prepare_in_sandbox up to the observed patch.  The turn may fail, be
\* cancelled or time out, and its files may be refused.
PatchTurn(s) ==
  /\ At(s, "patching")
  /\ \/ Go(s, "failing")
     \/ \E p \in PatchIds :
          session' = [session EXCEPT ![s].pc = "storing", ![s].patch = p]
  /\ UNCHANGED <<change, patches, verifs, applies, lc, tree, base, calls, examined, unrecorded>>

\* record_prepared_change compares the snapshot of the checkout with the base.
StoresPatch(s) ==
  session[s].checkout = base /\ RecordPreparedChange(session[s].patch, Revision(s))

\* Attempt accounting or cleanup may still fail after the patch is stored.
StorePatch(s) ==
  /\ At(s, "storing")
  /\ \/ /\ StoresPatch(s)
        /\ \/ Go(s, "failing")
           \/ IF session[s].round = 1
              THEN EndCall(s, None)
              ELSE session' = [session EXCEPT ![s].pc = "reading", ![s].performed = TRUE]
     \/ /\ Go(s, "failing")
        /\ UNCHANGED <<change, patches, verifs, applies, lc>>
  /\ UNCHANGED <<tree, base, calls, examined, unrecorded>>

\* Fault: a failed run leaves the change as it is.
ReturnError(s) ==
  /\ At(s, "failing")
  /\ CallFails(s)
  /\ UNCHANGED <<change, patches, verifs, applies, lc, tree, base, calls, examined, unrecorded>>

\* record_failed_patch_run: when the failure cannot be stored either, the error
\* of the call says so and the change stays what it was.
RecordFailedPatchRun(s) ==
  /\ At(s, "failing")
  /\ \/ RecordChangeFailure /\ UNCHANGED unrecorded
     \/ /\ unrecorded' = unrecorded \cup {Revision(s)}
        /\ UNCHANGED <<change, patches, verifs, applies, lc>>
  /\ CallFails(s)
  /\ UNCHANGED <<tree, base, calls, examined>>

-----------------------------------------------------------------------------
(* verify_change *)

StartVerify(s) ==
  /\ At(s, "idle") /\ calls < MaxCalls
  /\ change # None /\ change.revision > 0
  /\ session' = [session EXCEPT ![s] =
       [NoCall EXCEPT !.pc = "reading"]]
  /\ calls' = calls + 1
  /\ UNCHANGED <<change, patches, verifs, applies, lc, tree, base, examined, unrecorded>>

\* prepared_change
ReadPrepared(s) ==
  /\ At(s, "reading")
  /\ IF change.state = "failed"
     THEN CallFails(s)
     ELSE session' = [session EXCEPT ![s].pc = "cached", ![s].patch = LatestPatch,
                                     ![s].state = change.state]
  /\ UNCHANGED <<change, patches, verifs, applies, lc, tree, base, calls, examined, unrecorded>>

\* A verified or rejected verdict on that patch is answered from the store.
Settled(s) ==
  {v \in verifs : /\ IsLatest(v, VerificationsOf(LatestPatch))
                  /\ v.patch = session[s].patch
                  /\ v.verdict \in {"Verified", "Rejected"}}

LookUpVerdict(s) ==
  /\ At(s, "cached")
  /\ \/ \E v \in Settled(s) : EndCall(s, v)
     \/ /\ Settled(s) = {}
        /\ IF session[s].state = "repairing" THEN CallFails(s) ELSE Go(s, "checkout")
  /\ UNCHANGED <<change, patches, verifs, applies, lc, tree, base, calls, examined, unrecorded>>

\* Fault: whatever the working tree holds is verified.
CheckoutAsItIs(s) ==
  /\ At(s, "checkout")
  /\ session' = [session EXCEPT ![s].pc = "verifying", ![s].checkout = tree]
  /\ UNCHANGED <<change, patches, verifs, applies, lc, tree, base, calls, examined, unrecorded>>

\* The checkout must be of the base, and the patch must apply to it.
Checkout(s) ==
  /\ At(s, "checkout")
  /\ IF tree = base
     THEN session' = [session EXCEPT ![s].pc = "verifying", ![s].checkout = tree]
     ELSE CallFails(s)
  /\ UNCHANGED <<change, patches, verifs, applies, lc, tree, base, calls, examined, unrecorded>>

\* The turn ends in some normalised verdict, or cleaning up, capturing again or
\* finding that the verifier changed the checkout fails the call.
VerifierTurn(s) ==
  /\ At(s, "verifying")
  /\ \/ CallFails(s)
     \/ \E verdict \in VerificationVerdicts :
          session' = [session EXCEPT ![s].pc = "recording", ![s].verdict = verdict]
  /\ UNCHANGED <<change, patches, verifs, applies, lc, tree, base, calls, examined, unrecorded>>

Examined(s, v) == <<[id |-> v.id, tree |-> session[s].checkout, patch |-> session[s].patch]>>

\* The artifact's time is taken before the transaction, so that two verdicts
\* may be stored in the other order; one that is stored already is refused.
Artifacts(s) ==
  {v \in VerificationRows : v.patch = session[s].patch /\ v.verdict = session[s].verdict}

RecordVerdict(s) ==
  /\ At(s, "recording")
  /\ \/ \E v \in Artifacts(s) :
          /\ RecordVerificationArtifact(v)
          /\ examined' = examined \o Examined(s, v)
          /\ IF v.verdict = "Repairable" /\ session[s].round = 1
             THEN session' = [session EXCEPT ![s].pc = "repair", ![s].round = 2]
             ELSE EndCall(s, v)
     \/ /\ CallFails(s)
        /\ UNCHANGED <<change, patches, verifs, applies, lc, examined, unrecorded>>
  /\ UNCHANGED <<tree, base, calls, unrecorded>>

\* repair up to the transaction: the row, then the verdict on its patch.
RepairRead(s) ==
  /\ At(s, "repair")
  /\ IF change.revision = 1 /\ change.state = "repairable"
     THEN session' = [session EXCEPT ![s].pc = "findings", ![s].patch = LatestPatch]
     ELSE Go(s, "inconclusive")
  /\ UNCHANGED <<change, patches, verifs, applies, lc, tree, base, calls, examined, unrecorded>>

RepairFindings(s) ==
  /\ At(s, "findings")
  /\ IF (\E v \in VerificationsOf(session[s].patch) :
           v.verdict = "Repairable" /\ IsLatest(v, VerificationsOf(LatestPatch)))
        /\ tree = base
     THEN Go(s, "repairCheckout")
     ELSE Go(s, "inconclusive")
  /\ UNCHANGED <<change, patches, verifs, applies, lc, tree, base, calls, examined, unrecorded>>

\* The checkout is captured again, after the drift check.
RepairCheckout(s) ==
  /\ At(s, "repairCheckout")
  /\ session' = [session EXCEPT ![s].pc = "begin", ![s].checkout = tree]
  /\ UNCHANGED <<change, patches, verifs, applies, lc, tree, base, calls, examined, unrecorded>>

RepairBegin(s) ==
  /\ At(s, "begin")
  /\ \/ BeginChangeRepair /\ Go(s, "patching")
     \/ /\ Go(s, "inconclusive")
        /\ UNCHANGED <<change, patches, verifs, applies, lc>>
  /\ UNCHANGED <<tree, base, calls, examined, unrecorded>>

\* record_inconclusive, for the patch that is the latest by now.
RecordInconclusive(s) ==
  /\ At(s, "inconclusive")
  /\ \/ \E v \in VerificationRows :
          /\ v.verdict = "Inconclusive"
          /\ \A w \in VerificationsOf(LatestPatch) : w.at <= v.at
          /\ RecordVerificationArtifact(v)
          /\ EndCall(s, v)
     \/ /\ EndCall(s, None)
        /\ UNCHANGED <<change, patches, verifs, applies, lc>>
  /\ UNCHANGED <<tree, base, calls, examined, unrecorded>>

-----------------------------------------------------------------------------

\* The process of a session is killed.
Killed(s) ==
  /\ session[s].pc \notin {"idle", "dead"}
  /\ Go(s, "dead")
  /\ UNCHANGED <<change, patches, verifs, applies, lc, tree, base, calls, examined, unrecorded>>

EditTree ==
  /\ tree < MaxEdits
  /\ tree' = tree + 1
  /\ UNCHANGED <<change, patches, verifs, applies, lc, base, session, calls, examined, unrecorded>>

ControlPlane ==
  /\ \/ \E id \in ApplyIds : BeginChangeApply(id, FALSE)
     \/ \E id \in ApplyIds, status \in FinishedApply : FinishChangeApply(id, status)
  /\ UNCHANGED sessionVars

SessionNext ==
  \/ \E s \in Sessions :
       \/ CheckContext(s) \/ Prepare(s) \/ PatchTurn(s) \/ StorePatch(s) \/ RecordFailedPatchRun(s)
       \/ StartVerify(s) \/ ReadPrepared(s) \/ LookUpVerdict(s) \/ Checkout(s)
       \/ VerifierTurn(s) \/ RecordVerdict(s) \/ RepairRead(s) \/ RepairFindings(s)
       \/ RepairCheckout(s) \/ RepairBegin(s) \/ RecordInconclusive(s) \/ Killed(s)
  \/ EditTree
  \/ ControlPlane

SessionSpec == SessionInit /\ [][SessionNext]_allVars

-----------------------------------------------------------------------------
(* Properties *)

\* The change is the work of sessions, not of single transactions.
SessionsMade == calls > 0

\* Whatever else is stored meanwhile, a verdict other than 'inconclusive' is
\* about the very patch it names, examined on the source the change was prepared
\* from, although the working tree is edited between the verifier's reads
\* (verify: materialize, the snapshot comparison and the latest-patch check);
\* and a call that repaired answers with a stored verification of the repaired
\* revision (verify_change_call).
VerdictOfTheBase ==
  /\ \A v \in verifs : SessionsMade /\ v.verdict # "Inconclusive" =>
       \E n \in DOMAIN examined :
         examined[n] = [id |-> v.id, tree |-> base, patch |-> v.patch]
  /\ \A s \in Sessions : session[s].outcome # None =>
       /\ session[s].outcome \in verifs
       /\ session[s].performed => session[s].outcome.patch = patches[2]

\* A change is 'repairing' only while the session that reserved the repair is
\* at it, or was killed at it, or has told its client that the failure of the
\* repair could not be stored: no refusal, failed turn, failed cleanup or lost
\* race leaves it so in silence (record_failed_patch_run, begin_change_repair).
RepairingHasARepairer ==
  SessionsMade /\ change # None /\ change.state = "repairing" =>
    \/ 2 \in unrecorded
    \/ \E s \in Sessions :
         session[s].round = 2 /\ session[s].pc \in {"patching", "storing", "failing", "dead"}

=============================================================================
