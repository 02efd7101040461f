-------------------------- MODULE CommandApprovals --------------------------
(***************************************************************************)
(* Command approvals: App Server sessions that classify the commands their *)
(* model asks for (approval.rs), put every request into the approval inbox *)
(* (the approval tables of store.rs), and answer it automatically or after *)
(* the decision of a web user (app_server.rs, server.rs).                  *)
(*                                                                         *)
(* A command is its effective argv, working directory and permissions; the *)
(* payload digest is the command.  An approval id is made of thread, turn, *)
(* item and payload, so here it is the session and the item.               *)
(***************************************************************************)
EXTENDS Integers, FiniteSets, Sequences

CONSTANTS
    Workers,         \* evidence workers: wait for the web user
    Patchers,        \* patch workers: fail fast, one file change
    Verifiers,       \* verifiers: fail fast, an ordered list of test plans
    Together,        \* the sets of sessions that may run at the same time
    Items,           \* command items
    Asks,            \* the items each session's model asks for
    CommandOf,       \* the command an item asks for
    Plans,           \* the test plans of a verifier; the first is a worker's
    Trusted,         \* settings.trusted_test_execution
    TestBudget,      \* maximum_executions_per_worker of a worker's test policy
    ReadBudget,      \* and of the read-only policy
    ApprovalTimeout, \* APPROVAL_TIMEOUT_SECONDS, in clock ticks
    MaxTime,         \* the clock ticks freely up to here, then only for a waiter
    MayFail,         \* whether sessions, the store and the protocol report errors
    None

Sessions == Workers \cup Patchers \cup Verifiers

\* "network" asks for a refused permission, "read" is a supported inspection
\* command, "elsewhere" a declared test in another directory, "unknown" any
\* other command; the rest are the argvs of declared tests.
Tests == {Plans[p] : p \in DOMAIN Plans}

Commands == {"network", "read", "elsewhere", "unknown"} \cup Tests

ASSUME ApprovalsAssumption ==
    /\ CommandOf \in [Items -> Commands]
    /\ Together \subseteq SUBSET Sessions
    /\ Asks \in [Sessions -> SUBSET Items]
    /\ Plans \in Seq(STRING)
    /\ Tests \cap {"network", "read", "elsewhere", "unknown"} = {}
    /\ TestBudget \in Nat /\ ReadBudget \in Nat
    /\ ApprovalTimeout \in Nat \ {0} /\ MaxTime \in Nat
    /\ MayFail \in BOOLEAN /\ Trusted \in BOOLEAN
    /\ Workers \cap Patchers = {} /\ (Workers \cup Patchers) \cap Verifiers = {}

VARIABLES
    now,        \* the clock all processes read
    inbox,      \* approval_requests: per session and item, a row or None
    decisions,  \* approval_decisions: per session and item, a row or None
    session     \* the state of each App Server session

vars == <<now, inbox, decisions, session>>

Ids == {id \in Sessions \X Items : id[2] \in Asks[id[1]]}

Classes == {"test", "read", "rejected", "pending"}

Decisions == {"accept", "decline", "cancel"}

Sources == {"auto_policy", "web_user", "timeout", "runtime"}

Verdict == [decision : Decisions, source : Sources]

\* None is no item, no class, no decision and no verdict.
ASSUME NoneIsNothing ==
    None \notin Items \cup Classes \cup Decisions \cup Verdict

\* A row: request_json keeps the classification and the verdict.
Row == [status : {"pending", "resolved", "timed_out"},
        class : Classes \cup {"expired"},
        expires : Nat, verdict : Verdict \cup {None}]

ASSUME NoneIsNoApproval == None \notin Row

\* AppServerSession with its ApprovalBroker: tests and reads are the counts in
\* executions, next and flight the verifier's gate, approval and planOf the maps
\* by item, answer what the App Server was told, evidence the captured items.
Session == [pc : {"turn", "enqueue", "decide", "wait", "respond",
                  "failed", "cancelled", "done"},
            item : Items \cup {None}, class : Classes \cup {None},
            expires : Nat, decision : Decisions \cup {None},
            tests : Nat, reads : Nat, next : Nat, flight : Nat,
            approval : [Items -> Classes \cup {None}],
            planOf : [Items -> Nat],
            answer : [Items -> Decisions \cup {None}],
            evidence : SUBSET Items, files : 0..1, mismatch : BOOLEAN]

TypeOK ==
    /\ now \in Nat
    /\ inbox \in [Ids -> Row \cup {None}]
    /\ decisions \in [Ids -> Verdict \cup {None}]
    /\ session \in [Sessions -> Session]

\* A plan is named by its position; 0 stands for no plan.
Init ==
    /\ now = 0
    /\ inbox = [id \in Ids |-> None]
    /\ decisions = [id \in Ids |-> None]
    /\ \E running \in Together : session = [s \in Sessions |->
         [pc |-> IF s \in running THEN "turn" ELSE "done", item |-> None, class |-> None, expires |-> 0,
          decision |-> None, tests |-> 0, reads |-> 0, next |-> 1, flight |-> 0,
          approval |-> [i \in Items |-> None], planOf |-> [i \in Items |-> 0],
          answer |-> [i \in Items |-> None], evidence |-> {},
          files |-> IF s \in Patchers THEN 1 ELSE 0, mismatch |-> FALSE]]

-----------------------------------------------------------------------------
(* The approval broker.                                                    *)

FailFast(s) == s \in Patchers \cup Verifiers

\* The verifier's policy allows one execution per plan.
TestsAllowed(s) == IF s \in Verifiers THEN Len(Plans) ELSE TestBudget

\* Fault: a plan is admitted while another one runs.
VerifierNext(s, c) == session[s].next \in DOMAIN Plans /\ Plans[session[s].next] = c

\* A verifier's plan is admitted in its turn, and not while another one runs.
VerifierMayRun(s, c) ==
    /\ Trusted
    /\ session[s].next \in DOMAIN Plans /\ Plans[session[s].next] = c
    /\ session[s].flight = 0

\* A worker declares one plan, a patcher none.
WorkerPlan(s, c) == s \in Workers /\ Len(Plans) > 0 /\ c = Plans[1]

\* classify_command.
Classify(s, c) ==
    LET ss == session[s]
    IN  CASE c = "network" -> "rejected"
          [] s \in Verifiers /\ c \in Tests \cup {"elsewhere"} ->
               IF VerifierMayRun(s, c) /\ ss.tests < TestsAllowed(s)
                 THEN "test" ELSE "rejected"
          [] WorkerPlan(s, c) ->
               IF Trusted /\ ss.tests < TestsAllowed(s) THEN "test" ELSE "rejected"
          [] c = "read" /\ (s \in Workers => Trusted) ->
               IF ss.reads < ReadBudget THEN "read" ELSE "rejected"
          [] OTHER -> "pending"

\* automatic_decision, and the refusal of a fail-fast session.
Automatic(s) ==
    CASE session[s].class \in {"test", "read"} ->
           [decision |-> "accept", source |-> "auto_policy"]
      [] session[s].class = "rejected" ->
           [decision |-> "decline", source |-> "runtime"]
      [] session[s].class = "pending" /\ FailFast(s) ->
           [decision |-> "decline", source |-> "runtime"]
      [] OTHER -> None

\* test_plan_digest_for_approval: the first plan with this argv that no item of
\* a verifier has been given yet; 0 when there is none.
PlanForApproval(s, i) ==
    LET free == {p \in DOMAIN Plans :
                   /\ Plans[p] = CommandOf[i]
                   /\ IF s \in Verifiers
                        THEN \A j \in Items : session[s].planOf[j] # p
                        ELSE p = 1}
    IN  IF session[s].class # "test" \/ free = {} THEN 0
          ELSE CHOOSE p \in free : \A q \in free : p <= q

-----------------------------------------------------------------------------
(* The inbox.                                                              *)

Pending(id) == inbox[id] # None /\ inbox[id].status = "pending"

\* The clock value decide_approval reads before its transaction begins.
Stamps(id) == (inbox[id].expires - ApprovalTimeout)..now

\* decide_approval of a pending request in time.
Resolve(id, verdict, stamp) ==
    /\ Pending(id)
    /\ stamp < inbox[id].expires
    /\ inbox' = [inbox EXCEPT ![id].status = "resolved", ![id].verdict = verdict]
    /\ decisions' = [decisions EXCEPT ![id] = verdict]

\* decide_approval of a pending request too late: no decision is recorded.
TimeOut(id, stamp) ==
    /\ Pending(id)
    /\ stamp >= inbox[id].expires
    /\ inbox' = [inbox EXCEPT ![id].status = "timed_out"]
    /\ UNCHANGED decisions

\* Fault: rows that were decided meanwhile expire as well.
AnyOverdue(id) == inbox[id] # None /\ inbox[id].expires <= now

\* The rows expire_approvals selects.
Overdue(id) == Pending(id) /\ inbox[id].expires <= now

TimedOutVerdict == [decision |-> "decline", source |-> "timeout"]

\* expire_approvals.
ExpireApprovals ==
    /\ inbox' = [id \in Ids |->
         IF Overdue(id)
           THEN [inbox[id] EXCEPT !.status = "timed_out", !.class = "expired",
                                  !.verdict = TimedOutVerdict]
           ELSE inbox[id]]
    /\ decisions' = [id \in Ids |->
         IF Overdue(id) THEN TimedOutVerdict ELSE decisions[id]]

-----------------------------------------------------------------------------
(* The session.                                                            *)

Fails(s) == session' = [session EXCEPT ![s].pc = "failed"]

\* item/commandExecution/requestApproval: classify_command counts the execution
\* and moves the verifier's gate before anything is stored.
RequestApproval(s, i) ==
    /\ session[s].pc = "turn"
    /\ i \in Asks[s]
    /\ LET class == Classify(s, CommandOf[i])
           gated == class = "test" /\ s \in Verifiers
       IN  session' = [session EXCEPT
             ![s].pc = "enqueue", ![s].item = i, ![s].class = class,
             ![s].expires = now + ApprovalTimeout,
             ![s].tests = IF class = "test" THEN @ + 1 ELSE @,
             ![s].reads = IF class = "read" THEN @ + 1 ELSE @,
             ![s].next = IF gated THEN @ + 1 ELSE @,
             ![s].flight = IF gated THEN session[s].next ELSE @]
    /\ UNCHANGED <<now, inbox, decisions>>

\* enqueue_approval: the id is a primary key.
EnqueueApproval(s) ==
    /\ session[s].pc = "enqueue"
    /\ LET id == <<s, session[s].item>>
       IN  \/ /\ inbox[id] = None
              /\ inbox' = [inbox EXCEPT ![id] =
                    [status |-> "pending", class |-> session[s].class,
                     expires |-> session[s].expires, verdict |-> None]]
              /\ session' = [session EXCEPT ![s].pc =
                               IF Automatic(s) = None THEN "wait" ELSE "decide"]
           \/ /\ inbox[id] # None
              /\ Fails(s)
              /\ UNCHANGED inbox
    /\ UNCHANGED <<now, decisions>>

Answers(s, decision) ==
    session' = [session EXCEPT ![s].pc = "respond", ![s].decision = decision]

\* Fault: the session answers although the request was decided by somebody else.
DecideRegardless(s) ==
    /\ session[s].pc = "decide"
    /\ LET id == <<s, session[s].item>>
       IN  \/ \E stamp \in Stamps(id) : Resolve(id, Automatic(s), stamp)
           \/ ~Pending(id) /\ UNCHANGED <<inbox, decisions>>
    /\ Answers(s, Automatic(s).decision)
    /\ UNCHANGED now

\* The automatic decision; a conflict or an expiry ends the turn.
DecideAutomatically(s) ==
    /\ session[s].pc = "decide"
    /\ LET id == <<s, session[s].item>>
       IN  \E stamp \in Stamps(id) :
             \/ Resolve(id, Automatic(s), stamp) /\ Answers(s, Automatic(s).decision)
             \/ TimeOut(id, stamp) /\ Fails(s)
             \/ ~Pending(id) /\ Fails(s) /\ UNCHANGED <<inbox, decisions>>
    /\ UNCHANGED now

\* wait_for_web_decision, one turn of the loop that finds a decision.
PollDecision(s) ==
    /\ session[s].pc = "wait"
    /\ LET row == inbox[<<s, session[s].item>>]
       IN  row.verdict # None /\ Answers(s, row.verdict.decision)
    /\ UNCHANGED <<now, inbox, decisions>>

\* Fault: the loop relies on the inbox for the timeout too.
WaitForVerdict(s) ==
    /\ session[s].pc = "wait"
    /\ now >= session[s].expires
    /\ inbox[<<s, session[s].item>>].verdict # None
    /\ Answers(s, "decline")
    /\ UNCHANGED <<now, inbox, decisions>>

\* The loop sees the expiry first; what expire_approvals returns is ignored.
WaitExpires(s) ==
    /\ session[s].pc = "wait"
    /\ now >= session[s].expires
    /\ \/ ExpireApprovals
       \/ MayFail /\ UNCHANGED <<inbox, decisions>>
    /\ Answers(s, "decline")
    /\ UNCHANGED now

\* respond_decision and the two maps; a fail-fast session ends its turn on
\* anything but an acceptance.
Respond(s) ==
    /\ session[s].pc = "respond"
    /\ LET i == session[s].item
           plan == PlanForApproval(s, i)
       IN  session' = [session EXCEPT
             ![s].pc = IF FailFast(s) /\ session[s].decision # "accept"
                         THEN "failed" ELSE "turn",
             ![s].answer[i] = session[s].decision,
             ![s].approval[i] = session[s].class,
             ![s].planOf[i] = IF plan = 0 THEN @ ELSE plan]
    /\ UNCHANGED <<now, inbox, decisions>>

\* item/completed of a command: capture_command_evidence, once per item, and
\* complete_verifier_plan.
CompleteItem(s, i) ==
    /\ session[s].pc = "turn"
    /\ session[s].approval[i] # None
    /\ i \notin session[s].evidence
    /\ LET plan == session[s].planOf[i]
           gated == s \in Verifiers /\ plan # 0
           wrong == gated /\ session[s].flight # plan
       IN  session' = [session EXCEPT
             ![s].evidence = @ \cup {i},
             ![s].flight = IF gated /\ ~wrong THEN 0 ELSE @,
             ![s].mismatch = @ \/ wrong,
             ![s].pc = IF wrong THEN "failed" ELSE @]
    /\ UNCHANGED <<now, inbox, decisions>>

\* item/fileChange/requestApproval: one acceptance for a patcher; its second
\* request ends the turn, other sessions decline and go on.
FileChange(s) ==
    /\ session[s].pc = "turn"
    /\ s \in Patchers
    /\ session' = [session EXCEPT
         ![s].files = 0, ![s].pc = IF session[s].files = 0 THEN "failed" ELSE @]
    /\ UNCHANGED <<now, inbox, decisions>>

\* turn/completed of the last turn, or the cancellation the loop checks between
\* two events.  The broker and the maps outlive a turn, so the turns of a session
\* are one here.
EndTurn(s, how) ==
    /\ session[s].pc = "turn"
    /\ session' = [session EXCEPT ![s].pc = how]
    /\ UNCHANGED <<now, inbox, decisions>>

\* A timeout of the turn, an error of the store or of the protocol, or the death
\* of the process: the row stays as it is.
SessionFails(s) ==
    /\ MayFail
    /\ session[s].pc \in {"turn", "enqueue", "decide", "wait", "respond"}
    /\ Fails(s)
    /\ UNCHANGED <<now, inbox, decisions>>

-----------------------------------------------------------------------------
(* The control plane and the clock.                                        *)

\* POST /approvals/{id}/decision; a digest that is not the request's is refused
\* without a trace unless the request has expired.
WebDecides(id, decision) ==
    /\ Pending(id)
    /\ \E stamp \in Stamps(id) :
         \/ Resolve(id, [decision |-> decision, source |-> "web_user"], stamp)
         \/ TimeOut(id, stamp)
    /\ UNCHANGED <<now, session>>

\* pending_approvals and approval_events expire before they list.
ListApprovals ==
    /\ \E id \in Ids : Overdue(id)
    /\ ExpireApprovals
    /\ UNCHANGED <<now, session>>

ClockRuns ==
    \/ now < MaxTime
    \/ \E s \in Sessions : session[s].pc = "wait" /\ now < session[s].expires

Tick ==
    /\ ClockRuns
    /\ now' = now + 1
    /\ UNCHANGED <<inbox, decisions, session>>

Advance(s) ==
    \/ EnqueueApproval(s) \/ DecideAutomatically(s) \/ PollDecision(s)
    \/ WaitExpires(s) \/ Respond(s)

AppServerEvent(s) ==
    \/ \E i \in Items : RequestApproval(s, i) \/ CompleteItem(s, i)
    \/ FileChange(s)
    \/ \E how \in {"done", "cancelled"} : EndTurn(s, how)

Next ==
    \/ \E s \in Sessions : Advance(s) \/ AppServerEvent(s) \/ SessionFails(s)
    \/ \E id \in Ids, decision \in Decisions : WebDecides(id, decision)
    \/ ListApprovals
    \/ Tick

Spec == Init /\ [][Next]_vars

\* The thread of a session goes on and the clock advances.
FairSpec == Spec /\ WF_vars(Tick) /\ \A s \in Sessions : WF_vars(Advance(s))

-----------------------------------------------------------------------------
(* Properties.                                                             *)

\* handle_command_approval and wait_for_web_decision: the App Server is told to
\* run a command only if the inbox holds an acceptance of exactly this request:
\* one of the web user for a request the broker left to him, one of the policy
\* for an admitted command, never for a rejected one, although every request is
\* pending in the inbox for a moment and the web user may decide it there.
\* Conversely the web user's decision is the answer, unless the request has
\* expired: then it is a decline, whatever came in at the last moment.
AcceptedByTheRightOne ==
    /\ \A s \in Sessions, i \in Items :
        session[s].answer[i] = "accept" =>
            /\ inbox[<<s, i>>].status = "resolved"
            /\ inbox[<<s, i>>].verdict = decisions[<<s, i>>]
            /\ decisions[<<s, i>>] =
                 [decision |-> "accept",
                  source |-> IF session[s].approval[i] = "pending"
                               THEN "web_user" ELSE "auto_policy"]
            /\ session[s].approval[i] # "rejected"
    /\ \A s \in Workers, i \in Items :
        session[s].approval[i] = "pending" =>
            \/ /\ decisions[<<s, i>>] # None
               /\ session[s].answer[i] = decisions[<<s, i>>].decision
            \/ /\ session[s].answer[i] = "decline"
               /\ now >= inbox[<<s, i>>].expires

\* decide_approval and expire_approvals: a request that was decided or timed out
\* is never decided again, by whatever mixture of automatic decisions, web users
\* and expiries.
DecidedOnce ==
    [][\A id \in Ids : (inbox[id] # None /\ inbox[id].status # "pending") =>
            inbox'[id] = inbox[id] /\ decisions'[id] = decisions[id]]_vars

\* classify_command, complete_verifier_plan and capture_command_evidence: a
\* verifier runs its plans in order and one at a time: when a plan is admitted,
\* the evidence of every earlier one has been captured; and the plan that
\* test_plan_digest_for_approval gives an item is the one in flight, also when
\* plans share their argv ("did not match the in-flight plan" never happens).
PlansRunInOrder ==
    /\ \A s \in Verifiers, i, j \in Items :
        ( /\ session[s].answer[i] = "accept" /\ session[s].planOf[i] # 0
          /\ session[s].answer[j] = "accept" /\ session[s].planOf[j] # 0
          /\ session[s].planOf[i] < session[s].planOf[j] )
            => i \in session[s].evidence
    /\ \A s \in Sessions : ~session[s].mismatch

\* wait_for_web_decision: a session does not wait for ever, whether or not
\* anybody decides, lists or expires its request.
EveryWaitEnds ==
    \A s \in Sessions : (session[s].pc = "wait") ~> (session[s].pc # "wait")

=============================================================================
