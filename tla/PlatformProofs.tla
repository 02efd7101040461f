--------------------------- MODULE PlatformProofs ---------------------------
(***************************************************************************)
(* Theorems about what Needle does on the agent's platform: the approvals  *)
(* of commands (CommandApprovals), for any number of sessions, items and   *)
(* plans and without a bound on the clock, the hooks (HookSession), for    *)
(* any number of hook processes, sessions and turns, and the supervised    *)
(* main session (MainSession), for any needs of the agent, any limits and  *)
(* any number of turns, messages and queued needs.                         *)
(***************************************************************************)
EXTENDS CommandApprovals, HookSession, MainSession, FiniteSetTheorems, TLAPS

-----------------------------------------------------------------------------
(* Approvals: the inductive invariant *)

\* A row and the decisions table agree, and only a timeout decides without
\* resolving.
RowsTrue ==
    \A id \in Ids :
        /\ inbox[id] = None => decisions[id] = None
        /\ inbox[id] # None =>
             /\ inbox[id].verdict = decisions[id]
             /\ inbox[id].status = "pending" => decisions[id] = None
             /\ inbox[id].status = "timed_out" => decisions[id] \in {None, TimedOutVerdict}

\* What a row and its decision say of an answer to a request of this class:
\* the two halves of AcceptedByTheRightOne.
RightAnswer(s, row, verdict, time, class, decision) ==
    /\ decision = "accept" =>
         /\ row.status = "resolved" /\ row.verdict = verdict
         /\ verdict = [decision |-> "accept",
                       source |-> IF class = "pending" THEN "web_user" ELSE "auto_policy"]
         /\ class # "rejected"
    /\ (s \in Workers /\ class = "pending") =>
         \/ verdict # None /\ decision = verdict.decision
         \/ decision = "decline" /\ time >= row.expires

\* The item has left no trace in its session yet.
Fresh(c, i) ==
    /\ c.approval[i] = None /\ c.answer[i] = None /\ c.planOf[i] = 0
    /\ i \notin c.evidence

\* An item that is no longer fresh was asked for, is in the inbox and was
\* answered rightly.
ItemHolds(s, c, i, row, verdict, time) ==
    /\ Fresh(c, i) \/ (i \in Asks[s] /\ row # None)
    /\ RightAnswer(s, row, verdict, time, c.approval[i], c.answer[i])

MidCall == {"enqueue", "decide", "wait", "respond"}

\* What a session may rely on between two of its steps.
CallHolds(s) ==
    LET c == session[s]
        id == <<s, c.item>>
    IN  /\ \A i \in Items : ItemHolds(s, c, i, inbox[<<s, i>>], decisions[<<s, i>>], now)
        /\ c.pc \in MidCall => c.item \in Asks[s] /\ c.class \in Classes
        /\ c.pc \in {"decide", "wait", "respond"} =>
             /\ inbox[id] # None /\ inbox[id].expires = c.expires
             /\ Fresh(c, c.item)
        /\ c.pc = "decide" => Automatic(s) # None
        /\ c.pc = "wait" =>
             /\ s \in Workers /\ c.class = "pending"
             /\ decisions[id] # None =>
                  decisions[id] = TimedOutVerdict \/ decisions[id].source = "web_user"
        /\ c.pc = "respond" =>
             /\ c.decision \in Decisions
             /\ RightAnswer(s, inbox[id], decisions[id], now, c.class, c.decision)

\* The gate of a verifier: plans are given to items in order and once, and a
\* plan whose evidence is missing is the one in flight.  While the request of
\* an admitted plan is being answered that plan has no item yet.
Given(c, p) == \E i \in Items : c.planOf[i] = p
Admitting(c) == c.pc \in {"enqueue", "decide", "respond"} /\ c.class = "test"

GateHolds(c) ==
    /\ c.next >= 1
    /\ c.flight = 0 \/ c.flight = c.next - 1
    /\ \A i \in Items : c.planOf[i] < c.next
    /\ \A i, j \in Items : c.planOf[i] = c.planOf[j] /\ c.planOf[i] # 0 => i = j
    /\ \A i \in Items : c.planOf[i] # 0 /\ i \notin c.evidence => c.planOf[i] = c.flight
    /\ c.pc \in MidCall \cup {"turn"} =>
         IF Admitting(c)
           THEN /\ c.next >= 2 /\ c.flight = c.next - 1
                /\ c.flight \in DOMAIN Plans /\ Plans[c.flight] = CommandOf[c.item]
                /\ ~Given(c, c.flight)
                /\ \A p \in 1..(c.next - 2) : Given(c, p)
           ELSE \A p \in 1..(c.next - 1) : Given(c, p)

ApprovalInv ==
    /\ TypeOK
    /\ RowsTrue
    /\ \A s \in Sessions : CallHolds(s)
    /\ \A s \in Verifiers : GateHolds(session[s])
    /\ \A s \in Sessions : session[s].mismatch = FALSE

-----------------------------------------------------------------------------
(* What a step does to a row *)

Keeps(id) == inbox'[id] = inbox[id] /\ decisions'[id] = decisions[id]

Settles(id, sources) ==
    /\ Pending(id)
    /\ inbox'[id] \in Row /\ decisions'[id] \in Verdict \cup {None}
    /\ inbox'[id].expires = inbox[id].expires
    /\ inbox'[id].verdict = decisions'[id]
    /\ \/ /\ inbox'[id].status = "resolved"
          /\ decisions'[id] \in Verdict /\ decisions'[id].source \in sources
       \/ /\ inbox'[id].status = "timed_out"
          /\ decisions'[id] \in {None, TimedOutVerdict}

Opens(id) ==
    /\ inbox[id] = None /\ inbox'[id] \in Row
    /\ inbox'[id].status = "pending" /\ inbox'[id].verdict = None
    /\ decisions'[id] = decisions[id]

\* What anybody but the session of the request may do to it.
Passive(id) == Keeps(id) \/ Settles(id, {"web_user"})

RowMoves(id) == Keeps(id) \/ Settles(id, Sources) \/ Opens(id)

Tables ==
    /\ inbox' = [id \in Ids |-> inbox'[id]]
    /\ decisions' = [id \in Ids |-> decisions'[id]]

\* The ids of a session's requests.
LEMMA IdFacts ==
    /\ \A s \in Sessions : \A i \in Asks[s] : i \in Items /\ <<s, i>> \in Ids
    /\ \A id \in Ids : id[1] \in Sessions /\ id[2] \in Asks[id[1]] /\ id = <<id[1], id[2]>>
  BY ApprovalsAssumption DEF Ids

\* The tables keep their types and agree after every such step.
LEMMA RowsStep ==
    ASSUME TypeOK, RowsTrue, Tables, \A id \in Ids : RowMoves(id)
    PROVE  /\ inbox' \in [Ids -> Row \cup {None}]
           /\ decisions' \in [Ids -> Verdict \cup {None}]
           /\ RowsTrue'
<1>1. \A id \in Ids : /\ inbox'[id] \in Row \cup {None}
                      /\ decisions'[id] \in Verdict \cup {None}
  BY DEF TypeOK, RowMoves, Keeps, Settles, Opens
<1>2. inbox' \in [Ids -> Row \cup {None}] /\ decisions' \in [Ids -> Verdict \cup {None}]
  BY <1>1 DEF Tables
<1>3. ASSUME NEW id \in Ids
      PROVE  /\ inbox'[id] = None => decisions'[id] = None
             /\ inbox'[id] # None =>
                  /\ inbox'[id].verdict = decisions'[id]
                  /\ inbox'[id].status = "pending" => decisions'[id] = None
                  /\ inbox'[id].status = "timed_out" =>
                       decisions'[id] \in {None, TimedOutVerdict}
  <2>1. RowMoves(id)
    OBVIOUS
  <2>2. CASE Keeps(id)
    BY <2>2 DEF Keeps, RowsTrue
  <2>3. CASE Settles(id, Sources)
    BY <2>3, NoneIsNoApproval DEF Settles
  <2>4. CASE Opens(id)
    BY <2>4, NoneIsNoApproval DEF Opens, RowsTrue
  <2> QED BY <2>1, <2>2, <2>3, <2>4 DEF RowMoves
<1> QED BY <1>2, <1>3 DEF RowsTrue, TimedOutVerdict

\* A decision in time.
LEMMA ResolveRow ==
    ASSUME TypeOK, NEW id \in Ids, NEW v \in Verdict, NEW stamp, Resolve(id, v, stamp)
    PROVE  /\ Tables /\ Settles(id, {v.source}) /\ decisions'[id] = v
           /\ inbox'[id].status = "resolved"
           /\ \A other \in Ids \ {id} : Keeps(other)
<1>1. inbox[id] \in Row /\ Pending(id)
  BY DEF TypeOK, Resolve, Pending
<1> DEFINE new == [inbox[id] EXCEPT !.status = "resolved", !.verdict = v]
<1>2. inbox' = [inbox EXCEPT ![id] = new] /\ decisions' = [decisions EXCEPT ![id] = v]
  BY <1>1 DEF Resolve, TypeOK
<1>3. /\ new \in Row /\ new.expires = inbox[id].expires /\ new.verdict = v
      /\ new.status = "resolved"
  BY <1>1 DEF Row
<1> HIDE DEF new
<1>4. inbox'[id] = new /\ decisions'[id] = v
  BY <1>2 DEF TypeOK
<1>5. Tables /\ \A other \in Ids \ {id} : Keeps(other)
  BY <1>2 DEF Tables, Keeps, TypeOK
<1>6. Settles(id, {v.source})
  BY <1>1, <1>3, <1>4 DEF Settles
<1> QED BY <1>3, <1>4, <1>5, <1>6

\* A decision too late.
LEMMA TimeOutRow ==
    ASSUME TypeOK, RowsTrue, NEW id \in Ids, NEW stamp, TimeOut(id, stamp)
    PROVE  Tables /\ Passive(id) /\ \A other \in Ids \ {id} : Keeps(other)
<1>1. inbox[id] \in Row /\ Pending(id) /\ decisions[id] = None /\ inbox[id].verdict = None
  BY DEF TypeOK, TimeOut, Pending, RowsTrue
<1> DEFINE new == [inbox[id] EXCEPT !.status = "timed_out"]
<1>2. inbox' = [inbox EXCEPT ![id] = new] /\ decisions' = decisions
  BY <1>1 DEF TimeOut, TypeOK
<1>3. /\ new \in Row /\ new.expires = inbox[id].expires /\ new.verdict = None
      /\ new.status = "timed_out"
  BY <1>1 DEF Row
<1> HIDE DEF new
<1>4. inbox'[id] = new /\ decisions'[id] = None
  BY <1>1, <1>2 DEF TypeOK
<1>5. Tables /\ \A other \in Ids \ {id} : Keeps(other)
  BY <1>2 DEF Tables, Keeps, TypeOK
<1>6. Settles(id, {"web_user"})
  BY <1>1, <1>3, <1>4 DEF Settles
<1> QED BY <1>5, <1>6 DEF Passive

\* expire_approvals.
LEMMA ExpireRows ==
    ASSUME TypeOK, ExpireApprovals
    PROVE  Tables /\ \A id \in Ids : Passive(id)
<1>1. Tables
  BY DEF ExpireApprovals, Tables
<1>2. ASSUME NEW id \in Ids PROVE Passive(id)
  <2>1. CASE Overdue(id)
    <3>1. inbox[id] \in Row /\ Pending(id)
      BY <2>1 DEF Overdue, Pending, TypeOK
    <3> DEFINE new == [inbox[id] EXCEPT !.status = "timed_out", !.class = "expired",
                                        !.verdict = TimedOutVerdict]
    <3>2. inbox'[id] = new /\ decisions'[id] = TimedOutVerdict
      BY <2>1 DEF ExpireApprovals
    <3>3. TimedOutVerdict \in Verdict
      BY DEF TimedOutVerdict, Verdict, Decisions, Sources
    <3>4. /\ new \in Row /\ new.expires = inbox[id].expires
          /\ new.verdict = TimedOutVerdict /\ new.status = "timed_out"
      BY <3>1, <3>3 DEF Row
    <3> HIDE DEF new
    <3> QED BY <3>1, <3>2, <3>3, <3>4 DEF Passive, Settles
  <2>2. CASE ~Overdue(id)
    BY <2>2 DEF ExpireApprovals, Passive, Keeps
  <2> QED BY <2>1, <2>2
<1> QED BY <1>1, <1>2

-----------------------------------------------------------------------------
(* What a step of others leaves to a session *)

\* Nobody takes an answer's licence back.
LEMMA RightAnswerStays ==
    ASSUME TypeOK, RowsTrue, NEW s \in Sessions, NEW i \in Asks[s],
           inbox[<<s, i>>] # None, Passive(<<s, i>>),
           now' \in Nat, now' >= now, NEW class, NEW decision,
           RightAnswer(s, inbox[<<s, i>>], decisions[<<s, i>>], now, class, decision)
    PROVE  RightAnswer(s, inbox'[<<s, i>>], decisions'[<<s, i>>], now', class, decision)
<1> DEFINE id == <<s, i>>
<1>1. id \in Ids /\ inbox[id] \in Row
  BY IdFacts DEF TypeOK
<1> HIDE DEF id
<1>2. CASE Keeps(id)
  <2>1. inbox[id].expires \in Nat
    BY <1>1 DEF Row
  <2> QED BY <1>2, <2>1 DEF Keeps, RightAnswer, TypeOK, id
<1>3. CASE Settles(id, {"web_user"})
  <2>1. decisions[id] = None /\ inbox[id].status = "pending"
    BY <1>1, <1>3 DEF Settles, Pending, RowsTrue
  <2>2. inbox[id].expires \in Nat /\ inbox'[id].expires = inbox[id].expires
    BY <1>1, <1>3 DEF Row, Settles
  <2> QED BY <2>1, <2>2 DEF RightAnswer, TypeOK, id
<1> QED BY <1>2, <1>3 DEF Passive, id

\* So an item stays answered rightly.
LEMMA ItemStays ==
    ASSUME TypeOK, RowsTrue, NEW s \in Sessions, NEW i \in Items, NEW c,
           ItemHolds(s, c, i, inbox[<<s, i>>], decisions[<<s, i>>], now),
           Fresh(c, i) \/ Passive(<<s, i>>), now' \in Nat, now' >= now
    PROVE  ItemHolds(s, c, i, inbox'[<<s, i>>], decisions'[<<s, i>>], now')
<1>1. CASE Fresh(c, i)
  BY <1>1, NoneIsNothing DEF ItemHolds, Fresh, RightAnswer, Classes, Decisions
<1>2. CASE ~Fresh(c, i)
  <2>1. /\ i \in Asks[s] /\ inbox[<<s, i>>] # None /\ Passive(<<s, i>>)
        /\ RightAnswer(s, inbox[<<s, i>>], decisions[<<s, i>>], now,
                       c.approval[i], c.answer[i])
    BY <1>2 DEF ItemHolds
  <2>2. inbox'[<<s, i>>] # None
    BY <2>1, NoneIsNoApproval DEF Passive, Keeps, Settles
  <2>3. RightAnswer(s, inbox'[<<s, i>>], decisions'[<<s, i>>], now',
                    c.approval[i], c.answer[i])
    BY <2>1, RightAnswerStays
  <2> QED BY <2>1, <2>2, <2>3 DEF ItemHolds
<1> QED BY <1>1, <1>2

\* A session that does not move can rely on what it relied on.
LEMMA OtherCall ==
    ASSUME ApprovalInv, NEW s \in Sessions, session'[s] = session[s],
           now' \in Nat, now' >= now, \A i \in Asks[s] : Passive(<<s, i>>)
    PROVE  CallHolds(s)'
<1> DEFINE c == session[s]
<1>1. /\ TypeOK /\ RowsTrue /\ CallHolds(s) /\ c \in Session
  BY DEF ApprovalInv, TypeOK
<1>2. ASSUME NEW i \in Asks[s], inbox[<<s, i>>] # None
      PROVE  /\ inbox'[<<s, i>>] # None
             /\ inbox'[<<s, i>>].expires = inbox[<<s, i>>].expires
  <2>1. <<s, i>> \in Ids
    BY IdFacts
  <2> QED BY <1>2, <2>1, NoneIsNoApproval DEF Passive, Keeps, Settles
<1>3. ASSUME NEW i \in Items
      PROVE  ItemHolds(s, c, i, inbox'[<<s, i>>], decisions'[<<s, i>>], now')
  <2>1. ItemHolds(s, c, i, inbox[<<s, i>>], decisions[<<s, i>>], now)
    BY <1>1 DEF CallHolds
  <2>2. Fresh(c, i) \/ Passive(<<s, i>>)
    BY <2>1 DEF ItemHolds
  <2> QED BY <1>1, <2>1, <2>2, ItemStays
<1>4. ASSUME c.pc \in {"decide", "wait", "respond"}
      PROVE  /\ inbox'[<<s, c.item>>] # None /\ inbox'[<<s, c.item>>].expires = c.expires
             /\ Fresh(c, c.item)
  BY <1>1, <1>2, <1>4 DEF CallHolds, MidCall
<1>5. ASSUME c.pc = "wait"
      PROVE  /\ s \in Workers /\ c.class = "pending"
             /\ decisions'[<<s, c.item>>] # None =>
                  \/ decisions'[<<s, c.item>>] = TimedOutVerdict
                  \/ decisions'[<<s, c.item>>].source = "web_user"
  <2>1. c.item \in Asks[s] /\ s \in Workers /\ c.class = "pending"
    BY <1>1, <1>5 DEF CallHolds, MidCall
  <2>2. CASE Keeps(<<s, c.item>>)
    BY <1>1, <1>5, <2>1, <2>2 DEF CallHolds, Keeps
  <2>3. CASE Settles(<<s, c.item>>, {"web_user"})
    BY <2>1, <2>3 DEF Settles, TimedOutVerdict
  <2> QED BY <2>1, <2>2, <2>3 DEF Passive
<1>6. ASSUME c.pc = "respond"
      PROVE  /\ c.decision \in Decisions
             /\ RightAnswer(s, inbox'[<<s, c.item>>], decisions'[<<s, c.item>>], now',
                            c.class, c.decision)
  <2>1. /\ c.item \in Asks[s] /\ inbox[<<s, c.item>>] # None /\ c.decision \in Decisions
        /\ RightAnswer(s, inbox[<<s, c.item>>], decisions[<<s, c.item>>], now,
                       c.class, c.decision)
    BY <1>1, <1>6 DEF CallHolds, MidCall
  <2> QED BY <1>1, <2>1, RightAnswerStays
<1>7. c.pc \in MidCall => c.item \in Asks[s] /\ c.class \in Classes
  BY <1>1 DEF CallHolds
<1>8. c.pc = "decide" => Automatic(s)' # None
  BY <1>1 DEF CallHolds, Automatic
<1> QED BY <1>3, <1>4, <1>5, <1>6, <1>7, <1>8 DEF CallHolds

\* Only session s moves.
Moves(s, new) == session' = [session EXCEPT ![s] = new]

\* The parts of the invariant that a step of one session has to show.
LEMMA MoveStep ==
    ASSUME ApprovalInv, NEW s \in Sessions, NEW new \in Session, Moves(s, new),
           CallHolds(s)', s \in Verifiers => GateHolds(new), new.mismatch = FALSE,
           now' \in Nat, now' >= now,
           Tables, \A id \in Ids : RowMoves(id),
           \A id \in Ids : id[1] # s => Passive(id)
    PROVE  ApprovalInv'
<1>1. TypeOK /\ RowsTrue
  BY DEF ApprovalInv
<1>2. /\ session' \in [Sessions -> Session] /\ session'[s] = new
      /\ \A t \in Sessions \ {s} : session'[t] = session[t]
  BY <1>1 DEF Moves, TypeOK
<1>3. TypeOK' /\ RowsTrue'
  BY <1>1, <1>2, RowsStep DEF TypeOK
<1>4. \A t \in Sessions : CallHolds(t)'
  <2> SUFFICES ASSUME NEW t \in Sessions \ {s} PROVE CallHolds(t)'
    OBVIOUS
  <2>1. \A i \in Asks[t] : Passive(<<t, i>>)
    BY IdFacts
  <2> QED BY <1>2, <2>1, OtherCall
<1>5. /\ \A t \in Verifiers : GateHolds(session'[t])
      /\ \A t \in Sessions : session'[t].mismatch = FALSE
  BY <1>2 DEF ApprovalInv, Sessions
<1> QED BY <1>3, <1>4, <1>5 DEF ApprovalInv

\* The same for a step that leaves the inbox alone.
LEMMA QuietStep ==
    ASSUME ApprovalInv, NEW s \in Sessions, NEW new \in Session, Moves(s, new),
           CallHolds(s)', s \in Verifiers => GateHolds(new), new.mismatch = FALSE,
           UNCHANGED <<now, inbox, decisions>>
    PROVE  ApprovalInv'
<1>1. now' \in Nat /\ now' >= now
  BY DEF ApprovalInv, TypeOK
<1>2. Tables /\ \A id \in Ids : RowMoves(id) /\ Passive(id)
  BY DEF ApprovalInv, TypeOK, Tables, RowMoves, Passive, Keeps
<1> QED BY <1>1, <1>2, MoveStep

\* The steps of the control plane and of the clock.
LEMMA PassiveStep ==
    ASSUME ApprovalInv, UNCHANGED session, now' \in Nat, now' >= now,
           Tables, \A id \in Ids : Passive(id)
    PROVE  ApprovalInv'
<1>1. TypeOK /\ RowsTrue
  BY DEF ApprovalInv
<1>2. \A id \in Ids : RowMoves(id)
  BY DEF Passive, RowMoves, Settles, Sources
<1>3. TypeOK' /\ RowsTrue'
  BY <1>1, <1>2, RowsStep DEF TypeOK
<1>4. \A t \in Sessions : CallHolds(t)'
  <2> SUFFICES ASSUME NEW t \in Sessions PROVE CallHolds(t)'
    OBVIOUS
  <2>1. \A i \in Asks[t] : Passive(<<t, i>>)
    BY IdFacts
  <2> QED BY <2>1, OtherCall
<1> QED BY <1>3, <1>4 DEF ApprovalInv

\* WebDecides, ListApprovals and Tick.
LEMMA ControlPlaneStep ==
    ASSUME ApprovalInv,
           \/ \E id \in Ids, decision \in Decisions : WebDecides(id, decision)
           \/ ListApprovals
           \/ Tick
    PROVE  /\ ApprovalInv' /\ Tables /\ \A id \in Ids : Passive(id)
<1>1. TypeOK /\ RowsTrue /\ now \in Nat
  BY DEF ApprovalInv, TypeOK
<1>2. CASE \E id \in Ids, decision \in Decisions : WebDecides(id, decision)
  <2>1. PICK id \in Ids, decision \in Decisions : WebDecides(id, decision)
    BY <1>2
  <2> DEFINE v == [decision |-> decision, source |-> "web_user"]
  <2>2. v \in Verdict /\ v.source = "web_user"
    BY DEF Verdict, Sources
  <2>3. UNCHANGED <<now, session>> /\ \E stamp : Resolve(id, v, stamp) \/ TimeOut(id, stamp)
    BY <2>1 DEF WebDecides
  <2> HIDE DEF v
  <2>4. CASE \E stamp : Resolve(id, v, stamp)
    <3>1. Tables /\ Settles(id, {"web_user"}) /\ \A other \in Ids \ {id} : Keeps(other)
      BY <1>1, <2>2, <2>4, ResolveRow
    <3>2. \A other \in Ids : Passive(other)
      BY <3>1 DEF Passive
    <3> QED BY <1>1, <2>3, <3>1, <3>2, PassiveStep
  <2>5. CASE \E stamp : TimeOut(id, stamp)
    <3>1. Tables /\ \A other \in Ids : Passive(other)
      BY <1>1, <2>5, TimeOutRow DEF Passive
    <3> QED BY <1>1, <2>3, <3>1, PassiveStep
  <2> QED BY <2>3, <2>4, <2>5
<1>3. CASE ListApprovals
  <2>1. Tables /\ \A id \in Ids : Passive(id)
    BY <1>1, <1>3, ExpireRows DEF ListApprovals
  <2> QED BY <1>1, <1>3, <2>1, PassiveStep DEF ListApprovals
<1>4. CASE Tick
  <2>1. Tables /\ \A id \in Ids : Passive(id)
    BY <1>1, <1>4 DEF Tick, Tables, Passive, Keeps, TypeOK
  <2> QED BY <1>1, <1>4, <2>1, PassiveStep DEF Tick
<1> QED BY <1>2, <1>3, <1>4

-----------------------------------------------------------------------------
(* The broker *)

\* classify_command gives a class; a test of a verifier is the plan whose turn
\* it is, and none is in flight.
LEMMA ClassifyFacts ==
    ASSUME NEW s \in Sessions, NEW c
    PROVE  /\ Classify(s, c) \in Classes
           /\ Classify(s, c) = "test" /\ s \in Verifiers => VerifierMayRun(s, c)
<1>1. s \in Verifiers => ~WorkerPlan(s, c)
  BY ApprovalsAssumption DEF WorkerPlan
<1>2. WorkerPlan(s, c) => c \in Tests
  BY ApprovalsAssumption DEF WorkerPlan, Tests
<1>3. {"network", "read"} \cap (Tests \cup {"elsewhere"}) = {}
  BY ApprovalsAssumption
<1>4. CASE c = "network"
  <2>1. c \notin Tests \cup {"elsewhere"} /\ ~WorkerPlan(s, c) /\ c # "read"
    BY <1>2, <1>3, <1>4
  <2>2. Classify(s, c) = "rejected"
    BY <1>4, <2>1 DEF Classify
  <2> QED BY <2>2 DEF Classes
<1>5. CASE s \in Verifiers /\ c \in Tests \cup {"elsewhere"}
  <2>1. c # "network" /\ c # "read" /\ ~WorkerPlan(s, c)
    BY <1>1, <1>3, <1>5
  <2>2. Classify(s, c) = IF VerifierMayRun(s, c) /\ session[s].tests < TestsAllowed(s)
                           THEN "test" ELSE "rejected"
    BY <1>5, <2>1 DEF Classify
  <2> QED BY <2>2 DEF Classes
<1>6. CASE WorkerPlan(s, c)
  <2>1. c # "network" /\ c # "read" /\ s \notin Verifiers
    BY <1>1, <1>2, <1>3, <1>6
  <2>2. Classify(s, c) = IF Trusted /\ session[s].tests < TestsAllowed(s)
                           THEN "test" ELSE "rejected"
    BY <1>6, <2>1 DEF Classify
  <2> QED BY <2>1, <2>2 DEF Classes
<1>7. CASE /\ c # "network" /\ ~WorkerPlan(s, c)
           /\ ~(s \in Verifiers /\ c \in Tests \cup {"elsewhere"})
  BY <1>7 DEF Classify, Classes
<1> QED BY <1>4, <1>5, <1>6, <1>7

\* The automatic decision: an acceptance of the policy is of an admitted
\* command, and only a worker's pending request has none.
LEMMA AutomaticFacts ==
    ASSUME NEW s \in Sessions, session[s].class \in Classes
    PROVE  \/ /\ Automatic(s) = None /\ s \in Workers /\ s \notin Verifiers
              /\ session[s].class = "pending"
           \/ /\ Automatic(s) # None /\ Automatic(s) \in Verdict
              /\ Automatic(s).source \in Sources
              /\ s \in Workers => session[s].class # "pending"
              /\ Automatic(s).decision = "accept" =>
                   /\ session[s].class \in {"test", "read"}
                   /\ Automatic(s) = [decision |-> "accept", source |-> "auto_policy"]
<1>1. CASE session[s].class \in {"test", "read"}
  <2>1. Automatic(s) = [decision |-> "accept", source |-> "auto_policy"]
    BY <1>1 DEF Automatic
  <2>2. Automatic(s) \in Verdict
    BY <2>1 DEF Verdict, Decisions, Sources
  <2> QED BY <1>1, <2>1, <2>2, NoneIsNothing DEF Sources
<1>2. CASE session[s].class = "rejected" \/ (session[s].class = "pending" /\ FailFast(s))
  <2>1. Automatic(s) = [decision |-> "decline", source |-> "runtime"]
    BY <1>2 DEF Automatic
  <2>2. Automatic(s) \in Verdict
    BY <2>1 DEF Verdict, Decisions, Sources
  <2>3. session[s].class = "pending" => s \notin Workers
    BY <1>2, ApprovalsAssumption DEF FailFast
  <2> QED BY <2>1, <2>2, <2>3, NoneIsNothing DEF Sources
<1>3. CASE session[s].class = "pending" /\ ~FailFast(s)
  <2>1. Automatic(s) = None
    BY <1>3 DEF Automatic
  <2> QED BY <1>3, <2>1 DEF FailFast, Sessions
<1> QED BY <1>1, <1>2, <1>3 DEF Classes

-----------------------------------------------------------------------------
(* The steps of a session *)

\* Two records of a call that differ in none of the maps by item.
SameItems(c, d) ==
    /\ c.approval = d.approval /\ c.answer = d.answer
    /\ c.planOf = d.planOf /\ c.evidence = d.evidence

\* A turn that ends: nothing is relied on but the answers given.
LEMMA RunStops ==
    ASSUME ApprovalInv, NEW s \in Sessions, NEW how \in {"failed", "cancelled", "done"},
           session' = [session EXCEPT ![s].pc = how], UNCHANGED now,
           Tables, \A id \in Ids : Passive(id)
    PROVE  ApprovalInv'
<1> DEFINE c == session[s]
           new == [session[s] EXCEPT !.pc = how]
<1>1. TypeOK /\ RowsTrue /\ CallHolds(s) /\ c \in Session /\ now \in Nat
  BY DEF ApprovalInv, TypeOK
<1>2. Moves(s, new)
  BY <1>1 DEF Moves, TypeOK
<1>3. /\ new \in Session /\ new.pc = how /\ SameItems(new, c)
      /\ new.mismatch = c.mismatch /\ new.next = c.next /\ new.flight = c.flight
  BY <1>1 DEF Session, SameItems
<1> HIDE DEF new
<1>4. session'[s] = new
  BY <1>1, <1>2 DEF Moves, TypeOK
<1>5. ASSUME NEW i \in Items
      PROVE  ItemHolds(s, new, i, inbox'[<<s, i>>], decisions'[<<s, i>>], now')
  <2>1. ItemHolds(s, new, i, inbox[<<s, i>>], decisions[<<s, i>>], now)
    BY <1>1, <1>3 DEF CallHolds, ItemHolds, SameItems, Fresh
  <2>2. Fresh(new, i) \/ Passive(<<s, i>>)
    BY <2>1, IdFacts DEF ItemHolds
  <2> QED BY <1>1, <2>1, <2>2, ItemStays
<1>6. CallHolds(s)'
  BY <1>3, <1>4, <1>5 DEF CallHolds, MidCall
<1>7. s \in Verifiers => GateHolds(new)
  BY <1>3 DEF ApprovalInv, GateHolds, SameItems, MidCall
<1>8. new.mismatch = FALSE
  BY <1>3 DEF ApprovalInv
<1>9. \A id \in Ids : RowMoves(id)
  BY DEF Passive, RowMoves, Settles, Sources
<1>10. now' \in Nat /\ now' >= now
  BY <1>1
<1> QED BY <1>2, <1>3, <1>6, <1>7, <1>8, <1>9, <1>10, MoveStep

\* EndTurn and SessionFails.
LEMMA StoppedStep ==
    ASSUME ApprovalInv, NEW s \in Sessions,
           SessionFails(s) \/ \E how \in {"done", "cancelled"} : EndTurn(s, how)
    PROVE  ApprovalInv' /\ \A id \in Ids : RowMoves(id)
<1>1. PICK how \in {"failed", "cancelled", "done"} :
        session' = [session EXCEPT ![s].pc = how]
  BY DEF SessionFails, EndTurn, Fails
<1>2. UNCHANGED <<now, inbox, decisions>>
  BY DEF SessionFails, EndTurn
<1>3. Tables /\ \A id \in Ids : Passive(id) /\ RowMoves(id)
  BY <1>2 DEF ApprovalInv, TypeOK, Tables, Passive, RowMoves, Keeps
<1> QED BY <1>1, <1>2, <1>3, RunStops

\* A file change of a patcher.
LEMMA FileChangeStep ==
    ASSUME ApprovalInv, NEW s \in Sessions, FileChange(s)
    PROVE  ApprovalInv' /\ \A id \in Ids : RowMoves(id)
<1> DEFINE c == session[s]
           pc == IF c.files = 0 THEN "failed" ELSE c.pc
           new == [session[s] EXCEPT !.files = 0, !.pc = pc]
<1>1. TypeOK /\ CallHolds(s) /\ c \in Session /\ c.pc = "turn" /\ s \notin Verifiers
  BY ApprovalsAssumption DEF ApprovalInv, TypeOK, FileChange
<1>2. Moves(s, new)
  BY <1>1 DEF Moves, TypeOK, FileChange
<1>3. pc \in {"failed", "turn"}
  BY <1>1
<1> HIDE DEF pc
<1>4. /\ new \in Session /\ new.pc = pc /\ SameItems(new, c) /\ new.mismatch = c.mismatch
  <2>1. 0 \in 0..1
    OBVIOUS
  <2>2. pc \in {"turn", "enqueue", "decide", "wait", "respond",
                "failed", "cancelled", "done"}
    BY <1>3
  <2> QED BY <1>1, <2>1, <2>2 DEF Session, SameItems
<1> HIDE DEF new
<1>5. session'[s] = new /\ UNCHANGED <<now, inbox, decisions>>
  BY <1>1, <1>2 DEF Moves, TypeOK, FileChange
<1>6. CallHolds(s)'
  BY <1>1, <1>3, <1>4, <1>5 DEF CallHolds, MidCall, ItemHolds, SameItems, Fresh
<1>7. new.mismatch = FALSE
  BY <1>4 DEF ApprovalInv
<1>8. \A id \in Ids : RowMoves(id)
  BY <1>5 DEF RowMoves, Keeps
<1> QED BY <1>1, <1>2, <1>4, <1>5, <1>6, <1>7, <1>8, QuietStep

\* A request: the gate of a verifier moves only to the plan whose turn it is.
LEMMA RequestStep ==
    ASSUME ApprovalInv, NEW s \in Sessions, NEW i \in Items, RequestApproval(s, i)
    PROVE  ApprovalInv' /\ \A id \in Ids : RowMoves(id)
<1> DEFINE c == session[s]
           class == Classify(s, CommandOf[i])
           gated == class = "test" /\ s \in Verifiers
           tests == IF class = "test" THEN c.tests + 1 ELSE c.tests
           reads == IF class = "read" THEN c.reads + 1 ELSE c.reads
           next == IF gated THEN c.next + 1 ELSE c.next
           flight == IF gated THEN c.next ELSE c.flight
           new == [session[s] EXCEPT
                     !.pc = "enqueue", !.item = i, !.class = class,
                     !.expires = now + ApprovalTimeout, !.tests = tests,
                     !.reads = reads, !.next = next, !.flight = flight]
<1>1. TypeOK /\ CallHolds(s) /\ c \in Session /\ c.pc = "turn" /\ i \in Asks[s]
  BY DEF ApprovalInv, TypeOK, RequestApproval
<1>2. Moves(s, new)
  BY <1>1 DEF Moves, TypeOK, RequestApproval
<1>3. class \in Classes
  BY ClassifyFacts
<1>4. c.tests \in Nat /\ c.reads \in Nat /\ c.next \in Nat /\ c.flight \in Nat
  BY <1>1 DEF Session
<1>5. tests \in Nat /\ reads \in Nat /\ next \in Nat /\ flight \in Nat
  BY <1>4
<1>6. now + ApprovalTimeout \in Nat
  BY <1>1, ApprovalsAssumption DEF TypeOK
<1>7. gated => /\ c.next \in DOMAIN Plans /\ Plans[c.next] = CommandOf[i]
               /\ c.flight = 0 /\ flight = c.next /\ next = c.next + 1
  BY ClassifyFacts DEF VerifierMayRun
<1>8. ~gated => flight = c.flight /\ next = c.next
  OBVIOUS
<1> HIDE DEF class, tests, reads, next, flight
<1>9. /\ new \in Session /\ new.pc = "enqueue" /\ new.item = i /\ new.class = class
      /\ new.next = next /\ new.flight = flight
      /\ SameItems(new, c) /\ new.mismatch = c.mismatch
  BY <1>1, <1>3, <1>5, <1>6 DEF Session, SameItems
<1> HIDE DEF new
<1>10. session'[s] = new /\ UNCHANGED <<now, inbox, decisions>>
  BY <1>1, <1>2 DEF Moves, TypeOK, RequestApproval
<1>11. CallHolds(s)'
  <2>1. \A j \in Items :
          ItemHolds(s, new, j, inbox'[<<s, j>>], decisions'[<<s, j>>], now')
    BY <1>1, <1>9, <1>10 DEF CallHolds, ItemHolds, SameItems, Fresh
  <2> QED BY <1>1, <1>3, <1>9, <1>10, <2>1 DEF CallHolds, MidCall
<1>12. new.mismatch = FALSE
  BY <1>9 DEF ApprovalInv
<1>13. ASSUME s \in Verifiers PROVE GateHolds(new)
  <2>1. GateHolds(c) /\ ~Admitting(c)
    BY <1>1, <1>13 DEF ApprovalInv, Admitting
  <2>2. \A p \in 1..(c.next - 1) : Given(c, p)
    BY <1>1, <2>1 DEF GateHolds
  <2>3. \A p : Given(new, p) <=> Given(c, p)
    BY <1>9 DEF Given, SameItems
  <2>4. \A j \in Items : c.planOf[j] \in Nat
    BY <1>1 DEF Session
  <2>5. CASE gated
    <3>1. /\ new.next = c.next + 1 /\ new.flight = c.next /\ c.flight = 0 /\ c.next >= 1
          /\ new.flight = new.next - 1 /\ new.next >= 2
      BY <1>4, <1>7, <1>9, <2>1, <2>5 DEF GateHolds
    <3>2. \A j \in Items : c.planOf[j] < c.next /\ new.planOf[j] = c.planOf[j]
      BY <1>9, <2>1 DEF GateHolds, SameItems
    <3>3. \A j \in Items : new.planOf[j] # 0 => j \in new.evidence
      BY <1>9, <2>1, <3>1 DEF GateHolds, SameItems
    <3>4. \A j \in Items : new.planOf[j] < new.next
      BY <1>4, <2>4, <3>1, <3>2
    <3>5. \A j, k \in Items :
            new.planOf[j] = new.planOf[k] /\ new.planOf[j] # 0 => j = k
      BY <2>1, <3>2 DEF GateHolds
    <3>6. ~Given(new, new.flight)
      BY <1>4, <2>4, <3>1, <3>2 DEF Given
    <3>7. \A p \in 1..(new.next - 2) : Given(new, p)
      BY <1>4, <2>2, <2>3, <3>1
    <3>8. new.flight \in DOMAIN Plans /\ Plans[new.flight] = CommandOf[new.item]
      BY <1>7, <1>9, <2>5, <3>1
    <3>9. Admitting(new)
      BY <1>9, <2>5 DEF Admitting
    <3> QED BY <1>4, <3>1, <3>3, <3>4, <3>5, <3>6, <3>7, <3>8, <3>9 DEF GateHolds
  <2>6. CASE ~gated
    <3>1. ~Admitting(new)
      BY <1>9, <1>13, <2>6 DEF Admitting
    <3>2. new.next = c.next /\ new.flight = c.flight
      BY <1>8, <1>9, <2>6
    <3> QED BY <1>9, <2>1, <2>2, <2>3, <3>1, <3>2 DEF GateHolds, SameItems
  <2> QED BY <2>5, <2>6
<1>14. \A id \in Ids : RowMoves(id)
  BY <1>10 DEF RowMoves, Keeps
<1> QED BY <1>2, <1>9, <1>10, <1>11, <1>12, <1>13, <1>14, QuietStep

\* The gate does not move while a request is on its way.
LEMMA GateStays ==
    ASSUME NEW c, NEW new, GateHolds(c), SameItems(new, c),
           new.next = c.next, new.flight = c.flight,
           new.class = c.class, new.item = c.item,
           c.pc \in {"enqueue", "decide", "respond"},
           new.pc \in {"enqueue", "decide", "respond"}
    PROVE  GateHolds(new)
<1>1. Admitting(new) <=> Admitting(c)
  BY DEF Admitting
<1>2. \A p : Given(new, p) <=> Given(c, p)
  BY DEF Given, SameItems
<1>3. c.pc \in MidCall \cup {"turn"} /\ new.pc \in MidCall \cup {"turn"}
  BY DEF MidCall
<1> QED BY <1>1, <1>2, <1>3 DEF GateHolds, SameItems

\* The request enters the inbox.
LEMMA EnqueueStep ==
    ASSUME ApprovalInv, NEW s \in Sessions, EnqueueApproval(s)
    PROVE  ApprovalInv' /\ \A id \in Ids : RowMoves(id)
<1> DEFINE c == session[s]
           id == <<s, c.item>>
<1>1. /\ TypeOK /\ RowsTrue /\ CallHolds(s) /\ c \in Session /\ c.pc = "enqueue"
      /\ now \in Nat /\ UNCHANGED <<now, decisions>>
  BY DEF ApprovalInv, TypeOK, EnqueueApproval
<1>2. c.item \in Asks[s] /\ c.class \in Classes
  BY <1>1 DEF CallHolds, MidCall
<1>3. id \in Ids /\ c.item \in Items
  BY <1>2, IdFacts
<1>4. CASE inbox[id] # None
  <2>1. session' = [session EXCEPT ![s].pc = "failed"] /\ UNCHANGED inbox
    BY <1>4 DEF EnqueueApproval, Fails
  <2>2. Tables /\ \A other \in Ids : Passive(other) /\ RowMoves(other)
    BY <1>1, <2>1 DEF TypeOK, Tables, Passive, RowMoves, Keeps
  <2> QED BY <1>1, <2>1, <2>2, RunStops
<1>5. CASE inbox[id] = None
  <2> DEFINE row == [status |-> "pending", class |-> c.class,
                     expires |-> c.expires, verdict |-> None]
             pc == IF Automatic(s) = None THEN "wait" ELSE "decide"
             new == [session[s] EXCEPT !.pc = pc]
  <2>1. inbox' = [inbox EXCEPT ![id] = row] /\ session' = [session EXCEPT ![s].pc = pc]
    BY <1>5 DEF EnqueueApproval
  <2>2. Moves(s, new)
    BY <1>1, <2>1 DEF Moves, TypeOK
  <2>3. /\ row \in Row /\ row.status = "pending" /\ row.verdict = None
        /\ row.expires = c.expires
    BY <1>1, <1>2 DEF Row, Session
  <2>4. /\ pc = "wait" => /\ s \in Workers /\ s \notin Verifiers
                          /\ c.class = "pending"
        /\ pc = "decide" => Automatic(s) # None
        /\ pc \in {"wait", "decide"}
    BY <1>2, AutomaticFacts
  <2> HIDE DEF row, pc
  <2>5. /\ new \in Session /\ new.pc = pc /\ SameItems(new, c)
        /\ new.mismatch = c.mismatch /\ new.next = c.next /\ new.flight = c.flight
        /\ new.class = c.class /\ new.item = c.item /\ new.expires = c.expires
    BY <1>1, <2>4 DEF Session, SameItems
  <2> HIDE DEF new
  <2>6. session'[s] = new
    BY <1>1, <2>2 DEF Moves, TypeOK
  <2>7. /\ inbox'[id] = row /\ decisions'[id] = None /\ Tables
        /\ \A other \in Ids \ {id} : Keeps(other)
    BY <1>1, <1>3, <1>5, <2>1 DEF TypeOK, Tables, Keeps, RowsTrue
  <2>8. \A other \in Ids : RowMoves(other)
    BY <1>1, <1>5, <2>3, <2>7 DEF RowMoves, Opens
  <2>9. \A other \in Ids : other[1] # s => Passive(other)
    BY <2>7 DEF Passive
  <2>10. Fresh(c, c.item)
    BY <1>1, <1>3, <1>5 DEF CallHolds, ItemHolds
  <2>11. ASSUME NEW i \in Items
         PROVE  ItemHolds(s, new, i, inbox'[<<s, i>>], decisions'[<<s, i>>], now')
    <3>1. ItemHolds(s, new, i, inbox[<<s, i>>], decisions[<<s, i>>], now)
      BY <1>1, <2>5 DEF CallHolds, ItemHolds, SameItems, Fresh
    <3>2. i = c.item => Fresh(new, i)
      BY <2>5, <2>10 DEF Fresh, SameItems
    <3>3. i # c.item => <<s, i>> # id
      OBVIOUS
    <3>4. Fresh(new, i) \/ Passive(<<s, i>>)
      BY <2>7, <3>1, <3>2, <3>3, IdFacts DEF ItemHolds, Passive
    <3>5. now' \in Nat /\ now' >= now
      BY <1>1
    <3> QED BY <1>1, <3>1, <3>4, <3>5, ItemStays
  <2>12. CallHolds(s)'
    <3>1. Fresh(new, new.item)
      BY <2>5, <2>10 DEF Fresh, SameItems
    <3>2. inbox'[<<s, new.item>>] = row /\ decisions'[<<s, new.item>>] = None
      BY <2>5, <2>7
    <3>3. pc = "decide" => Automatic(s)' # None
      BY <2>4, <2>5, <2>6 DEF Automatic
    <3>4. row # None
      BY <2>3, NoneIsNoApproval
    <3> QED
      BY <1>2, <2>3, <2>4, <2>5, <2>6, <2>11, <3>1, <3>2, <3>3, <3>4
         DEF CallHolds, MidCall
  <2>13. s \in Verifiers => GateHolds(new)
    BY <1>1, <2>4, <2>5, GateStays DEF ApprovalInv
  <2>14. new.mismatch = FALSE /\ now' \in Nat /\ now' >= now
    BY <1>1, <2>5 DEF ApprovalInv
  <2> QED BY <2>2, <2>5, <2>7, <2>8, <2>9, <2>12, <2>13, <2>14, MoveStep
<1> QED BY <1>4, <1>5

\* A session that knows its answer: it has to be the right one.
LEMMA AnswerStep ==
    ASSUME ApprovalInv, NEW s \in Sessions, NEW decision \in Decisions,
           Answers(s, decision), session[s].pc \in {"decide", "wait"}, UNCHANGED now,
           Tables, \A id \in Ids : RowMoves(id),
           \A id \in Ids \ {<<s, session[s].item>>} : Passive(id),
           RightAnswer(s, inbox'[<<s, session[s].item>>], decisions'[<<s, session[s].item>>],
                       now, session[s].class, decision)
    PROVE  ApprovalInv'
<1> DEFINE c == session[s]
           id == <<s, c.item>>
           new == [session[s] EXCEPT !.pc = "respond", !.decision = decision]
<1>1. TypeOK /\ RowsTrue /\ CallHolds(s) /\ c \in Session /\ now \in Nat
  BY DEF ApprovalInv, TypeOK
<1>2. /\ c.item \in Asks[s] /\ c.class \in Classes /\ Fresh(c, c.item)
      /\ inbox[id] # None /\ inbox[id].expires = c.expires
      /\ c.pc = "wait" => s \in Workers
  BY <1>1 DEF CallHolds, MidCall
<1>3. id \in Ids /\ c.item \in Items
  BY <1>2, IdFacts
<1>4. inbox'[id] # None /\ inbox'[id].expires = c.expires
  BY <1>2, <1>3, NoneIsNoApproval DEF RowMoves, Keeps, Settles, Opens
<1>5. Moves(s, new)
  BY <1>1 DEF Moves, TypeOK, Answers
<1>6. /\ new \in Session /\ new.pc = "respond" /\ new.decision = decision
      /\ SameItems(new, c) /\ new.mismatch = c.mismatch
      /\ new.next = c.next /\ new.flight = c.flight
      /\ new.class = c.class /\ new.item = c.item /\ new.expires = c.expires
  BY <1>1 DEF Session, SameItems
<1> HIDE DEF new
<1>7. session'[s] = new
  BY <1>1, <1>5 DEF Moves, TypeOK
<1>8. now' \in Nat /\ now' >= now
  BY <1>1
<1>9. ASSUME NEW i \in Items
      PROVE  ItemHolds(s, new, i, inbox'[<<s, i>>], decisions'[<<s, i>>], now')
  <2>1. ItemHolds(s, new, i, inbox[<<s, i>>], decisions[<<s, i>>], now)
    BY <1>1, <1>6 DEF CallHolds, ItemHolds, SameItems, Fresh
  <2>2. i = c.item => Fresh(new, i)
    BY <1>2, <1>6 DEF Fresh, SameItems
  <2>3. i # c.item => <<s, i>> # id
    OBVIOUS
  <2>4. Fresh(new, i) \/ Passive(<<s, i>>)
    BY <2>1, <2>2, <2>3, IdFacts DEF ItemHolds
  <2> QED BY <1>1, <1>8, <2>1, <2>4, ItemStays
<1>10. CallHolds(s)'
  <2>1. Fresh(new, new.item)
    BY <1>2, <1>6 DEF Fresh, SameItems
  <2>2. RightAnswer(s, inbox'[<<s, new.item>>], decisions'[<<s, new.item>>], now',
                    new.class, new.decision)
    BY <1>6
  <2> QED BY <1>2, <1>4, <1>6, <1>7, <1>9, <2>1, <2>2 DEF CallHolds, MidCall
<1>11. s \in Verifiers => c.pc = "decide"
  BY <1>2, ApprovalsAssumption
<1>12. s \in Verifiers => GateHolds(new)
  BY <1>6, <1>11, GateStays DEF ApprovalInv
<1>13. new.mismatch = FALSE
  BY <1>6 DEF ApprovalInv
<1>14. \A other \in Ids : other[1] # s => Passive(other)
  OBVIOUS
<1> QED BY <1>5, <1>6, <1>8, <1>10, <1>12, <1>13, <1>14, MoveStep

\* The automatic decision.
LEMMA DecideStep ==
    ASSUME ApprovalInv, NEW s \in Sessions, DecideAutomatically(s)
    PROVE  ApprovalInv' /\ \A id \in Ids : RowMoves(id)
<1> DEFINE c == session[s]
           id == <<s, c.item>>
           v == Automatic(s)
<1>1. /\ TypeOK /\ RowsTrue /\ CallHolds(s) /\ c \in Session /\ c.pc = "decide"
      /\ UNCHANGED now
  BY DEF ApprovalInv, TypeOK, DecideAutomatically
<1>2. c.item \in Asks[s] /\ c.class \in Classes /\ v # None
  BY <1>1 DEF CallHolds, MidCall
<1>3. id \in Ids /\ c.item \in Items
  BY <1>2, IdFacts
<1>4. /\ v \in Verdict /\ v.source \in Sources
      /\ s \in Workers => c.class # "pending"
      /\ v.decision = "accept" =>
           /\ c.class \in {"test", "read"}
           /\ v = [decision |-> "accept", source |-> "auto_policy"]
  BY <1>2, AutomaticFacts
<1>5. \E stamp : \/ Resolve(id, v, stamp) /\ Answers(s, v.decision)
                 \/ TimeOut(id, stamp) /\ Fails(s)
                 \/ Fails(s) /\ UNCHANGED <<inbox, decisions>>
  BY DEF DecideAutomatically
<1> HIDE DEF v
<1>6. CASE \E stamp : Resolve(id, v, stamp) /\ Answers(s, v.decision)
  <2>1. /\ Tables /\ Settles(id, {v.source}) /\ decisions'[id] = v
        /\ inbox'[id].status = "resolved"
        /\ \A other \in Ids \ {id} : Keeps(other)
    BY <1>1, <1>3, <1>4, <1>6, ResolveRow
  <2>2. \A other \in Ids : RowMoves(other)
    BY <1>4, <2>1 DEF RowMoves, Settles
  <2>3. \A other \in Ids \ {id} : Passive(other)
    BY <2>1 DEF Passive
  <2>4. RightAnswer(s, inbox'[id], decisions'[id], now, c.class, v.decision)
    BY <1>4, <2>1 DEF RightAnswer, Settles
  <2>5. v.decision \in Decisions
    BY <1>4 DEF Verdict
  <2> QED BY <1>1, <1>6, <2>1, <2>2, <2>3, <2>4, <2>5, AnswerStep
<1>7. CASE \E stamp : TimeOut(id, stamp) /\ Fails(s)
  <2>1. Tables /\ \A other \in Ids : Passive(other)
    BY <1>1, <1>3, <1>7, TimeOutRow DEF Passive
  <2>2. \A other \in Ids : RowMoves(other)
    BY <2>1 DEF Passive, RowMoves, Settles, Sources
  <2> QED BY <1>1, <1>7, <2>1, <2>2, RunStops DEF Fails
<1>8. CASE Fails(s) /\ UNCHANGED <<inbox, decisions>>
  <2>1. Tables /\ \A other \in Ids : Passive(other) /\ RowMoves(other)
    BY <1>1, <1>8 DEF TypeOK, Tables, Passive, RowMoves, Keeps
  <2> QED BY <1>1, <1>8, <2>1, RunStops DEF Fails
<1> QED BY <1>5, <1>6, <1>7, <1>8

\* The web user's decision is found.
LEMMA PollStep ==
    ASSUME ApprovalInv, NEW s \in Sessions, PollDecision(s)
    PROVE  ApprovalInv' /\ \A id \in Ids : RowMoves(id)
<1> DEFINE c == session[s]
           id == <<s, c.item>>
           v == inbox[id].verdict
<1>1. /\ TypeOK /\ RowsTrue /\ CallHolds(s) /\ c \in Session /\ c.pc = "wait"
      /\ UNCHANGED <<now, inbox, decisions>> /\ v # None /\ Answers(s, v.decision)
  BY DEF ApprovalInv, TypeOK, PollDecision
<1>2. /\ c.item \in Asks[s] /\ c.class = "pending" /\ inbox[id] # None
      /\ decisions[id] # None =>
           decisions[id] = TimedOutVerdict \/ decisions[id].source = "web_user"
  BY <1>1 DEF CallHolds, MidCall
<1>3. id \in Ids /\ inbox[id] \in Row
  BY <1>1, <1>2, IdFacts DEF TypeOK
<1>4. v = decisions[id] /\ v \in Verdict
  BY <1>1, <1>2, <1>3 DEF RowsTrue, Row
<1> HIDE DEF v
<1>5. v.decision \in Decisions
  BY <1>4 DEF Verdict
<1>6. ASSUME v.decision = "accept"
      PROVE  /\ inbox[id].status = "resolved"
             /\ v = [decision |-> "accept", source |-> "web_user"]
  <2>1. v # TimedOutVerdict
    BY <1>6 DEF TimedOutVerdict
  <2>2. v.source = "web_user"
    BY <1>1, <1>2, <1>4, <2>1
  <2>3. inbox[id].status \in {"pending", "resolved", "timed_out"}
    BY <1>3 DEF Row
  <2>4. inbox[id].status = "resolved"
    BY <1>1, <1>2, <1>3, <1>4, <2>1, <2>3 DEF RowsTrue
  <2> QED BY <1>4, <1>6, <2>2, <2>4 DEF Verdict
<1>7. RightAnswer(s, inbox'[id], decisions'[id], now, c.class, v.decision)
  BY <1>1, <1>2, <1>4, <1>6 DEF RightAnswer, v
<1>8. Tables /\ \A other \in Ids : Passive(other) /\ RowMoves(other)
  BY <1>1 DEF TypeOK, Tables, Passive, RowMoves, Keeps
<1> QED BY <1>1, <1>5, <1>7, <1>8, AnswerStep

\* The waiter sees the expiry.
LEMMA WaitExpiresStep ==
    ASSUME ApprovalInv, NEW s \in Sessions, WaitExpires(s)
    PROVE  ApprovalInv' /\ \A id \in Ids : RowMoves(id)
<1> DEFINE c == session[s]
           id == <<s, c.item>>
<1>1. /\ TypeOK /\ RowsTrue /\ CallHolds(s) /\ c \in Session /\ c.pc = "wait"
      /\ UNCHANGED now /\ now >= c.expires /\ Answers(s, "decline")
      /\ ExpireApprovals \/ UNCHANGED <<inbox, decisions>>
  BY DEF ApprovalInv, TypeOK, WaitExpires
<1>2. /\ c.item \in Asks[s] /\ inbox[id] # None /\ inbox[id].expires = c.expires
  BY <1>1 DEF CallHolds, MidCall
<1>3. Tables /\ \A other \in Ids : Passive(other)
  <2>1. CASE ExpireApprovals
    BY <1>1, <2>1, ExpireRows
  <2>2. CASE UNCHANGED <<inbox, decisions>>
    BY <1>1, <2>2 DEF TypeOK, Tables, Passive, Keeps
  <2> QED BY <1>1, <2>1, <2>2
<1>4. \A other \in Ids : RowMoves(other)
  BY <1>3 DEF Passive, RowMoves, Settles, Sources
<1>5. inbox'[id].expires = c.expires
  BY <1>2, <1>3, IdFacts DEF Passive, Keeps, Settles
<1>6. RightAnswer(s, inbox'[id], decisions'[id], now, c.class, "decline")
  BY <1>1, <1>5 DEF RightAnswer
<1>7. "decline" \in Decisions
  BY DEF Decisions
<1> QED BY <1>1, <1>3, <1>4, <1>6, <1>7, AnswerStep

\* test_plan_digest_for_approval gives an admitted item of a verifier the plan
\* in flight, also when plans share their argv: the earlier ones are taken.
LEMMA PlanFacts ==
    ASSUME NEW s \in Sessions, session[s] \in Session, session[s].pc = "respond",
           session[s].item \in Items, s \in Verifiers => GateHolds(session[s])
    PROVE  /\ PlanForApproval(s, session[s].item) \in Nat
           /\ s \in Verifiers =>
                PlanForApproval(s, session[s].item) =
                  IF session[s].class = "test" THEN session[s].flight ELSE 0
<1> DEFINE c == session[s]
           free == {p \in DOMAIN Plans :
                      /\ Plans[p] = CommandOf[c.item]
                      /\ IF s \in Verifiers
                           THEN \A j \in Items : c.planOf[j] # p
                           ELSE p = 1}
<1>1. PlanForApproval(s, c.item) =
        IF c.class # "test" \/ free = {} THEN 0
          ELSE CHOOSE p \in free : \A q \in free : p <= q
  BY DEF PlanForApproval
<1>2. DOMAIN Plans = 1..Len(Plans) /\ Len(Plans) \in Nat
  BY ApprovalsAssumption
<1>3. \A p \in free : p \in Nat /\ p >= 1
  BY <1>2
<1>4. CASE c.class # "test"
  BY <1>1, <1>4
<1>5. CASE c.class = "test" /\ s \in Verifiers
  <2>1. Admitting(c) /\ c.pc \in MidCall
    BY <1>5 DEF Admitting, MidCall
  <2>2. /\ c.flight \in DOMAIN Plans /\ Plans[c.flight] = CommandOf[c.item]
        /\ ~Given(c, c.flight) /\ c.flight = c.next - 1
        /\ \A p \in 1..(c.next - 2) : Given(c, p)
    BY <1>5, <2>1 DEF GateHolds
  <2>3. c.next \in Nat /\ c.flight \in Nat
    BY DEF Session
  <2>4. c.flight \in free
    BY <1>5, <2>2 DEF Given
  <2>5. \A q \in free : c.flight <= q
    <3> SUFFICES ASSUME NEW q \in free, q < c.flight PROVE FALSE
      BY <1>3, <2>3
    <3>1. q \in 1..(c.next - 2)
      BY <1>3, <2>2, <2>3
    <3>2. Given(c, q)
      BY <2>2, <3>1
    <3> QED BY <1>5, <3>2 DEF Given
  <2> DEFINE least == CHOOSE p \in free : \A q \in free : p <= q
  <2>6. least \in free /\ \A q \in free : least <= q
    BY <2>4, <2>5
  <2>7. least = c.flight
    BY <1>3, <2>3, <2>4, <2>5, <2>6
  <2> QED BY <1>1, <1>5, <2>3, <2>4, <2>7
<1>6. CASE c.class = "test" /\ s \notin Verifiers
  <2>1. CASE free = {}
    BY <1>1, <1>6, <2>1
  <2>2. CASE free # {}
    <3>1. free = {1}
      BY <1>6, <2>2
    <3>2. (CHOOSE p \in free : \A q \in free : p <= q) \in free
      BY <3>1
    <3> QED BY <1>1, <1>3, <1>6, <2>2, <3>2
  <2> QED BY <2>1, <2>2
<1> QED BY <1>4, <1>5, <1>6

\* The answer goes out, and the item gets its plan.
LEMMA RespondStep ==
    ASSUME ApprovalInv, NEW s \in Sessions, Respond(s)
    PROVE  ApprovalInv' /\ \A id \in Ids : RowMoves(id)
<1> DEFINE c == session[s]
           i == c.item
           plan == PlanForApproval(s, i)
           pc == IF FailFast(s) /\ c.decision # "accept" THEN "failed" ELSE "turn"
           given == IF plan = 0 THEN c.planOf[i] ELSE plan
           new == [session[s] EXCEPT
                     !.pc = pc,
                     !.answer = [c.answer EXCEPT ![i] = c.decision],
                     !.approval = [c.approval EXCEPT ![i] = c.class],
                     !.planOf = [c.planOf EXCEPT ![i] = given]]
<1>1. /\ TypeOK /\ CallHolds(s) /\ c \in Session /\ c.pc = "respond"
      /\ UNCHANGED <<now, inbox, decisions>>
  BY DEF ApprovalInv, TypeOK, Respond
<1>2. /\ i \in Asks[s] /\ c.class \in Classes /\ Fresh(c, i) /\ inbox[<<s, i>>] # None
      /\ c.decision \in Decisions
      /\ RightAnswer(s, inbox[<<s, i>>], decisions[<<s, i>>], now, c.class, c.decision)
  BY <1>1 DEF CallHolds, MidCall
<1>3. i \in Items
  BY <1>2, IdFacts
<1>4. Moves(s, new)
  BY <1>1, <1>3 DEF Moves, TypeOK, Respond, Session
<1>5. /\ plan \in Nat
      /\ s \in Verifiers => plan = IF c.class = "test" THEN c.flight ELSE 0
  BY <1>1, <1>3, PlanFacts DEF ApprovalInv
<1>6. given = plan
  BY <1>2 DEF Fresh
<1>7. pc \in {"failed", "turn"}
  OBVIOUS
<1> HIDE DEF plan, pc, given
<1>8. /\ c.answer \in [Items -> Decisions \cup {None}]
      /\ c.approval \in [Items -> Classes \cup {None}] /\ c.planOf \in [Items -> Nat]
  BY <1>1 DEF Session
<1>9. /\ [c.answer EXCEPT ![i] = c.decision] \in [Items -> Decisions \cup {None}]
      /\ [c.approval EXCEPT ![i] = c.class] \in [Items -> Classes \cup {None}]
      /\ [c.planOf EXCEPT ![i] = given] \in [Items -> Nat]
  BY <1>2, <1>5, <1>6, <1>8
<1>10. /\ new \in Session /\ new.pc = pc /\ new.mismatch = c.mismatch
       /\ new.next = c.next /\ new.flight = c.flight /\ new.evidence = c.evidence
       /\ new.answer = [c.answer EXCEPT ![i] = c.decision]
       /\ new.approval = [c.approval EXCEPT ![i] = c.class]
       /\ new.planOf = [c.planOf EXCEPT ![i] = given]
  BY <1>1, <1>7, <1>9 DEF Session
<1> HIDE DEF new
<1>11. session'[s] = new
  BY <1>1, <1>4 DEF Moves, TypeOK
<1>12. /\ new.answer[i] = c.decision /\ new.approval[i] = c.class /\ new.planOf[i] = plan
       /\ \A j \in Items \ {i} : /\ new.answer[j] = c.answer[j]
                                /\ new.approval[j] = c.approval[j]
                                /\ new.planOf[j] = c.planOf[j]
  BY <1>3, <1>6, <1>8, <1>10
<1>13. ASSUME NEW j \in Items
       PROVE  ItemHolds(s, new, j, inbox[<<s, j>>], decisions[<<s, j>>], now)
  <2>1. CASE j = i
    BY <1>2, <1>12, <2>1 DEF ItemHolds
  <2>2. CASE j # i
    BY <1>1, <1>10, <1>12, <2>2 DEF CallHolds, ItemHolds, Fresh
  <2> QED BY <2>1, <2>2
<1>14. CallHolds(s)'
  BY <1>1, <1>7, <1>10, <1>11, <1>13 DEF CallHolds, MidCall
<1>15. ASSUME s \in Verifiers PROVE GateHolds(new)
  <2>1. GateHolds(c) /\ c.pc \in MidCall
    BY <1>1, <1>15 DEF ApprovalInv, MidCall
  <2>2. ~Admitting(new) /\ c.next \in Nat /\ c.flight \in Nat
    BY <1>1, <1>7, <1>10 DEF Admitting, Session
  <2>3. i \notin c.evidence /\ c.planOf[i] = 0
    BY <1>2 DEF Fresh
  <2>4. CASE c.class = "test"
    <3>1. Admitting(c) /\ plan = c.flight
      BY <1>1, <1>5, <1>15, <2>4 DEF Admitting
    <3>2. /\ c.next >= 2 /\ c.flight = c.next - 1 /\ ~Given(c, c.flight)
          /\ \A p \in 1..(c.next - 2) : Given(c, p)
      BY <2>1, <3>1 DEF GateHolds
    <3>3. \A j \in Items : new.planOf[j] < c.next
      BY <1>12, <2>1, <2>2, <3>1, <3>2 DEF GateHolds
    <3>4. \A j, k \in Items :
            new.planOf[j] = new.planOf[k] /\ new.planOf[j] # 0 => j = k
      BY <1>12, <2>1, <3>1, <3>2 DEF GateHolds, Given
    <3>5. \A j \in Items :
            new.planOf[j] # 0 /\ j \notin new.evidence => new.planOf[j] = c.flight
      BY <1>10, <1>12, <2>1, <3>1 DEF GateHolds
    <3>6. ASSUME NEW p \in 1..(c.next - 1) PROVE Given(new, p)
      <4>1. CASE p = c.next - 1
        BY <1>3, <1>12, <3>1, <3>2, <4>1 DEF Given
      <4>2. CASE p # c.next - 1
        <5>1. Given(c, p) /\ p # 0
          BY <2>2, <3>2, <4>2
        <5> QED BY <1>12, <2>3, <5>1 DEF Given
      <4> QED BY <4>1, <4>2
    <3> QED BY <1>10, <2>1, <2>2, <3>3, <3>4, <3>5, <3>6 DEF GateHolds
  <2>5. CASE c.class # "test"
    <3>1. plan = 0 /\ ~Admitting(c)
      BY <1>5, <1>15, <2>5 DEF Admitting
    <3>2. \A j \in Items : new.planOf[j] = c.planOf[j]
      BY <1>12, <2>3, <3>1
    <3>3. \A p : Given(new, p) <=> Given(c, p)
      BY <3>2 DEF Given
    <3> QED BY <1>10, <2>1, <2>2, <3>1, <3>2, <3>3 DEF GateHolds
  <2> QED BY <2>4, <2>5
<1>16. new.mismatch = FALSE
  BY <1>10 DEF ApprovalInv
<1>17. \A id \in Ids : RowMoves(id)
  BY <1>1 DEF RowMoves, Keeps
<1> QED BY <1>1, <1>4, <1>10, <1>14, <1>15, <1>16, <1>17, QuietStep

\* A command has run: the item of a plan is the one in flight.
LEMMA CompleteStep ==
    ASSUME ApprovalInv, NEW s \in Sessions, NEW i \in Items, CompleteItem(s, i)
    PROVE  ApprovalInv' /\ \A id \in Ids : RowMoves(id)
<1> DEFINE c == session[s]
           gated == s \in Verifiers /\ c.planOf[i] # 0
           flight == IF gated THEN 0 ELSE c.flight
           new == [session[s] EXCEPT !.evidence = c.evidence \cup {i}, !.flight = flight]
<1>1. /\ TypeOK /\ CallHolds(s) /\ c \in Session /\ c.pc = "turn"
      /\ c.approval[i] # None /\ i \notin c.evidence
      /\ UNCHANGED <<now, inbox, decisions>> /\ c.mismatch = FALSE
      /\ s \in Verifiers => GateHolds(c)
  BY DEF ApprovalInv, TypeOK, CompleteItem
<1>2. gated => c.flight = c.planOf[i]
  BY <1>1 DEF GateHolds
<1>3. Moves(s, new)
  <2>1. ~(gated /\ c.flight # c.planOf[i])
    BY <1>2
  <2>2. session' = [session EXCEPT
          ![s].evidence = c.evidence \cup {i}, ![s].flight = flight,
          ![s].mismatch = FALSE, ![s].pc = "turn"]
    BY <1>1, <2>1 DEF CompleteItem
  <2>3. [session[s] EXCEPT !.evidence = c.evidence \cup {i}, !.flight = flight,
          !.mismatch = FALSE, !.pc = "turn"] = new
    BY <1>1 DEF Session
  <2>4. session' = [session EXCEPT ![s] =
          [session[s] EXCEPT !.evidence = c.evidence \cup {i}, !.flight = flight,
             !.mismatch = FALSE, !.pc = "turn"]]
    BY <1>1, <2>2 DEF TypeOK
  <2> QED BY <2>3, <2>4 DEF Moves
<1>4. flight \in Nat /\ c.evidence \cup {i} \in SUBSET Items
  BY <1>1 DEF Session
<1>5. /\ gated => flight = 0
      /\ ~gated => flight = c.flight
  OBVIOUS
<1> HIDE DEF flight
<1>6. /\ new \in Session /\ new.pc = "turn" /\ new.mismatch = c.mismatch
      /\ new.next = c.next /\ new.flight = flight /\ new.evidence = c.evidence \cup {i}
      /\ new.answer = c.answer /\ new.approval = c.approval /\ new.planOf = c.planOf
  BY <1>1, <1>4 DEF Session
<1> HIDE DEF new
<1>7. session'[s] = new
  BY <1>1, <1>3 DEF Moves, TypeOK
<1>8. CallHolds(s)'
  <2>1. i \in Asks[s] /\ inbox[<<s, i>>] # None
    BY <1>1 DEF CallHolds, ItemHolds, Fresh
  <2>2. \A j \in Items :
          ItemHolds(s, new, j, inbox[<<s, j>>], decisions[<<s, j>>], now)
    BY <1>1, <1>6, <2>1 DEF CallHolds, ItemHolds, Fresh
  <2> QED BY <1>1, <1>6, <1>7, <2>2 DEF CallHolds, MidCall
<1>9. ASSUME s \in Verifiers PROVE GateHolds(new)
  <2>1. GateHolds(c) /\ ~Admitting(c) /\ ~Admitting(new)
    BY <1>1, <1>6, <1>9 DEF Admitting
  <2>2. \A p : Given(new, p) <=> Given(c, p)
    BY <1>6 DEF Given
  <2>3. \A j \in Items :
          c.planOf[j] # 0 /\ j \notin new.evidence => c.planOf[j] = flight
    BY <1>2, <1>5, <1>6, <1>9, <2>1 DEF GateHolds
  <2>4. flight = 0 \/ flight = c.next - 1
    BY <1>5, <2>1 DEF GateHolds
  <2> QED BY <1>1, <1>6, <2>1, <2>2, <2>3, <2>4 DEF GateHolds
<1>10. new.mismatch = FALSE
  BY <1>1, <1>6
<1>11. \A id \in Ids : RowMoves(id)
  BY <1>1 DEF RowMoves, Keeps
<1> QED BY <1>1, <1>3, <1>6, <1>8, <1>9, <1>10, <1>11, QuietStep

-----------------------------------------------------------------------------
(* The theorems *)

\* An empty inbox, and sessions that have not asked for anything.
LEMMA ApprovalInvInit == Init => ApprovalInv
<1> SUFFICES ASSUME Init PROVE ApprovalInv
  OBVIOUS
<1>1. PICK running \in Together : session = [s \in Sessions |->
         [pc |-> IF s \in running THEN "turn" ELSE "done", item |-> None, class |-> None,
          expires |-> 0, decision |-> None, tests |-> 0, reads |-> 0, next |-> 1,
          flight |-> 0, approval |-> [i \in Items |-> None],
          planOf |-> [i \in Items |-> 0], answer |-> [i \in Items |-> None],
          evidence |-> {}, files |-> IF s \in Patchers THEN 1 ELSE 0, mismatch |-> FALSE]]
  BY DEF Init
<1>2. /\ now = 0 /\ inbox = [id \in Ids |-> None] /\ decisions = [id \in Ids |-> None]
  BY DEF Init
<1>3. ASSUME NEW s \in Sessions
      PROVE  /\ session[s].pc \in {"turn", "done"} /\ session[s].next = 1
             /\ session[s].flight = 0 /\ session[s].mismatch = FALSE
             /\ session[s] \in Session
             /\ \A i \in Items : Fresh(session[s], i)
  <2>1. (IF s \in Patchers THEN 1 ELSE 0) \in 0..1
    OBVIOUS
  <2>2. /\ [i \in Items |-> None] \in [Items -> Classes \cup {None}]
        /\ [i \in Items |-> None] \in [Items -> Decisions \cup {None}]
        /\ [i \in Items |-> 0] \in [Items -> Nat] /\ {} \in SUBSET Items
        /\ 0 \in Nat /\ 1 \in Nat
    OBVIOUS
  <2> DEFINE c == session[s]
  <2>3. /\ c.pc \in {"turn", "done"} /\ c.next = 1 /\ c.flight = 0 /\ c.mismatch = FALSE
        /\ c.approval = [i \in Items |-> None] /\ c.answer = [i \in Items |-> None]
        /\ c.planOf = [i \in Items |-> 0] /\ c.evidence = {}
    BY <1>1
  <2>4. c \in Session
    BY <1>1, <2>1, <2>2 DEF Session
  <2> QED BY <2>3, <2>4 DEF Fresh
<1>4. TypeOK /\ RowsTrue
  BY <1>1, <1>2, <1>3 DEF TypeOK, RowsTrue
<1>5. ASSUME NEW s \in Sessions PROVE CallHolds(s)
  BY <1>3, NoneIsNothing
     DEF CallHolds, MidCall, ItemHolds, RightAnswer, Fresh, Classes, Decisions
<1>6. ASSUME NEW s \in Verifiers PROVE GateHolds(session[s])
  <2>1. s \in Sessions
    BY DEF Sessions
  <2> DEFINE c == session[s]
  <2>2. /\ c.pc \in {"turn", "done"} /\ c.next = 1 /\ c.flight = 0
        /\ \A i \in Items : c.planOf[i] = 0
    BY <1>3, <2>1 DEF Fresh
  <2> HIDE DEF c
  <2>3. ~Admitting(c) /\ \A p \in 1..(c.next - 1) : Given(c, p)
    BY <2>2 DEF Admitting
  <2> QED BY <2>2, <2>3 DEF GateHolds, c
<1> QED BY <1>3, <1>4, <1>5, <1>6 DEF ApprovalInv

\* Every step keeps the invariant, and moves a row only forward.
LEMMA ApprovalStep ==
    ASSUME ApprovalInv, [Next]_vars
    PROVE  ApprovalInv' /\ \A id \in Ids : RowMoves(id)
<1>1. CASE \E s \in Sessions : Advance(s) \/ AppServerEvent(s) \/ SessionFails(s)
  <2>1. PICK s \in Sessions : Advance(s) \/ AppServerEvent(s) \/ SessionFails(s)
    BY <1>1
  <2>2. CASE Advance(s)
    BY <2>2, EnqueueStep, DecideStep, PollStep, WaitExpiresStep, RespondStep DEF Advance
  <2>3. CASE AppServerEvent(s)
    BY <2>3, RequestStep, CompleteStep, FileChangeStep, StoppedStep DEF AppServerEvent
  <2>4. CASE SessionFails(s)
    BY <2>4, StoppedStep
  <2> QED BY <2>1, <2>2, <2>3, <2>4
<1>2. CASE \/ \E id \in Ids, decision \in Decisions : WebDecides(id, decision)
           \/ ListApprovals
           \/ Tick
  <2>1. ApprovalInv' /\ \A id \in Ids : Passive(id)
    BY <1>2, ControlPlaneStep
  <2> QED BY <2>1 DEF Passive, RowMoves, Settles, Sources
<1>3. CASE UNCHANGED vars
  <2>1. UNCHANGED session /\ now' \in Nat /\ now' >= now
    BY <1>3 DEF vars, ApprovalInv, TypeOK
  <2>2. Tables /\ \A id \in Ids : Passive(id) /\ RowMoves(id)
    BY <1>3 DEF vars, ApprovalInv, TypeOK, Tables, Passive, RowMoves, Keeps
  <2> QED BY <2>1, <2>2, PassiveStep
<1> QED BY <1>1, <1>2, <1>3 DEF Next

\* Every reachable state satisfies the inductive invariant.
THEOREM ApprovalInvariant == Spec => []ApprovalInv
<1>1. ApprovalInv /\ [Next]_vars => ApprovalInv'
  BY ApprovalStep
<1> QED BY <1>1, ApprovalInvInit, PTL DEF Spec

\* The inbox, the decisions and the sessions always have their types.
THEOREM ApprovalTypes == Spec => []TypeOK
<1>1. ApprovalInv => TypeOK
  BY DEF ApprovalInv
<1> QED BY <1>1, ApprovalInvariant, PTL

\* A command runs only on an acceptance of exactly this request by the policy
\* or by the web user, whoever of them was entitled to it, and the web user's
\* decision is the answer unless the request expired (handle_command_approval,
\* wait_for_web_decision).
THEOREM RightOnesAccept == Spec => []AcceptedByTheRightOne
<1>1. ApprovalInv => AcceptedByTheRightOne
  <2> SUFFICES ASSUME ApprovalInv PROVE AcceptedByTheRightOne
    OBVIOUS
  <2>1. \A s \in Sessions, i \in Items :
          RightAnswer(s, inbox[<<s, i>>], decisions[<<s, i>>], now,
                      session[s].approval[i], session[s].answer[i])
    BY DEF ApprovalInv, CallHolds, ItemHolds
  <2>2. \A s \in Workers : s \in Sessions
    BY DEF Sessions
  <2> QED BY <2>1, <2>2 DEF AcceptedByTheRightOne, RightAnswer
<1> QED BY <1>1, ApprovalInvariant, PTL

\* A verifier runs its plans in order and one at a time, and an item's plan is
\* the one in flight, for every list of plans, repeated ones included
\* (classify_command, test_plan_digest_for_approval, complete_verifier_plan).
THEOREM PlansInOrder == Spec => []PlansRunInOrder
<1>1. ApprovalInv => PlansRunInOrder
  <2> SUFFICES ASSUME ApprovalInv PROVE PlansRunInOrder
    OBVIOUS
  <2>1. ASSUME NEW s \in Verifiers, NEW i \in Items, NEW j \in Items,
               session[s].planOf[i] # 0, session[s].planOf[i] < session[s].planOf[j],
               i \notin session[s].evidence
        PROVE  FALSE
    <3>1. s \in Sessions
      BY DEF Sessions
    <3>2. /\ session[s].next \in Nat /\ session[s].planOf[i] \in Nat
          /\ session[s].planOf[j] \in Nat
      BY <3>1 DEF ApprovalInv, TypeOK, Session
    <3>3. /\ session[s].planOf[i] = session[s].flight
          /\ session[s].flight = session[s].next - 1
          /\ session[s].planOf[j] < session[s].next
      BY <2>1 DEF ApprovalInv, GateHolds
    <3> QED BY <2>1, <3>2, <3>3
  <2>2. \A s \in Sessions : ~session[s].mismatch
    BY DEF ApprovalInv
  <2> QED BY <2>1, <2>2 DEF PlansRunInOrder
<1> QED BY <1>1, ApprovalInvariant, PTL

\* A request that was decided or timed out is never decided again
\* (decide_approval, expire_approvals).
THEOREM NeverDecidedAgain == Spec => DecidedOnce
<1>1. ApprovalInv /\ [Next]_vars =>
        [\A id \in Ids : (inbox[id] # None /\ inbox[id].status # "pending") =>
            inbox'[id] = inbox[id] /\ decisions'[id] = decisions[id]]_vars
  <2> SUFFICES ASSUME ApprovalInv, [Next]_vars, NEW id \in Ids,
                      inbox[id] # None, inbox[id].status # "pending"
               PROVE  inbox'[id] = inbox[id] /\ decisions'[id] = decisions[id]
    OBVIOUS
  <2>1. RowMoves(id)
    BY ApprovalStep
  <2> QED BY <2>1 DEF RowMoves, Keeps, Settles, Opens, Pending
<1> QED BY <1>1, ApprovalInvariant, PTL DEF Spec, DecidedOnce

-----------------------------------------------------------------------------
(* The hooks *)

Holding == {"read", "aside", "install", "tidy"}
StopPhases == Holding \cup {"claim", "resolve"}
HookPhases == StopPhases \cup {"idle", "log", "print", "start"}
StopFields == {"at", "session", "turn", "need", "next", "pruned"}

Payload == [revision : Nat, routes : Nat]
Continuation ==
  [at : {"log", "print"}, answer : {"block"}, session : HookSessions, turn : Turns,
   claimed : BOOLEAN, with : Payload]

RowFields == {"revision", "routes", "root", "turn"}

\* A recorded session has a revision, and keeps it.
SessionRow(r) ==
  /\ RowFields \subseteq DOMAIN r /\ r.revision \in Nat /\ r.routes \in Nat
  /\ r = NoRow \/ r.revision # 0

\* What a payload was resolved with is what the row of its session says.
Frozen(x, sessions) ==
  x.with # Fallback =>
    sessions[x.session].revision # 0 /\ x.with = ResolvedWith(sessions[x.session])

\* The turns that a state file claims, as far as there is one.
BlockedIn(F) == UNION {s.blocked : s \in F}

\* Pruning what is claimed changes nothing.
Pruned(S) == IsFiniteSet(S) /\ Largest(S) = S

OneFile(F) == F = NoFile \/ (\E s : F = {s} /\ Pruned(s.blocked))

\* What a hook is about to install keeps the claims of the file and adds its own,
\* or forgets some.
Ready(x, F) ==
  /\ Pruned(x.next.blocked)
  /\ BlockedIn(F) \cup {turn_key(x)} \subseteq x.next.blocked \cup x.pruned
  /\ turn_key(x) \notin BlockedIn(F)

\* A hook by itself, with the files and the session rows it works on.
HookHolds(h, x, f, sessions) ==
  /\ x.at \in HookPhases /\ "at" \in DOMAIN x
  /\ x.at \in StopPhases =>
       StopFields \subseteq DOMAIN x /\ x.session \in HookSessions /\ x.turn \in Turns
  /\ x.at \in Holding => f.lock = h
  /\ x.at = "aside" => Ready(x, f.state)
  /\ x.at = "install" => f.state = NoFile /\ Ready(x, f.backup)
  /\ x.at \in {"log", "print"} =>
       /\ "answer" \in DOMAIN x
       /\ x.answer = "block" => x \in Continuation /\ Frozen(x, sessions)
  /\ x.at = "start" => x.session \in HookSessions /\ x.routes \in Nat

\* A hook that has claimed the turn it carries.
HasClaim(x) ==
  \/ x.at \in {"tidy", "resolve"}
  \/ x.at \in {"log", "print"} /\ x.answer = "block" /\ x.claimed = TRUE

\* The lock file was left behind: there will be no further claims.
LockedForGood(f, hooks) == f.lock # Free /\ \A g \in Hooks : hooks[g].at \notin Holding

\* A claim that a later Stop hook will find.
ClaimKept(f, hooks, k) ==
  \/ LockedForGood(f, hooks)
  \/ k \in BlockedIn(f.state)
  \/ \E g \in Hooks : hooks[g].at = "install" /\ k \in BlockedIn(f.backup)

\* Every claim is kept or forgotten, and only a forgotten one is claimed twice.
ClaimsHold ==
  /\ \A h \in Hooks : HasClaim(hook[h]) =>
       turn_key(hook[h]) \in forgotten \/ ClaimKept(files, hook, turn_key(hook[h]))
  /\ \A i \in DOMAIN continued : continued[i].claimed = TRUE =>
       turn_key(continued[i]) \in forgotten \/ ClaimKept(files, hook, turn_key(continued[i]))
  /\ \A g, h \in Hooks : g # h /\ HasClaim(hook[g]) /\ HasClaim(hook[h])
       /\ turn_key(hook[g]) = turn_key(hook[h]) => turn_key(hook[g]) \in forgotten
  /\ \A h \in Hooks, i \in DOMAIN continued : HasClaim(hook[h]) /\ continued[i].claimed = TRUE
       /\ turn_key(hook[h]) = turn_key(continued[i]) => turn_key(hook[h]) \in forgotten
  /\ \A i, j \in DOMAIN continued :
       i # j /\ continued[i].claimed = TRUE /\ continued[j].claimed = TRUE
       /\ turn_key(continued[i]) = turn_key(continued[j]) => turn_key(continued[i]) \in forgotten

WorldHolds(w) ==
  /\ {"active", "routes", "stops", "starts", "experiment"} \subseteq DOMAIN w
  /\ w.active \in Nat /\ w.routes \in Nat

FileFields == {"state", "backup", "lock"}

HookInv ==
  /\ DOMAIN hook = Hooks /\ \A h \in Hooks : HookHolds(h, hook[h], files, rows)
  /\ FileFields \subseteq DOMAIN files /\ OneFile(files.state) /\ OneFile(files.backup)
  /\ DOMAIN rows = HookSessions /\ \A s \in HookSessions : SessionRow(rows[s])
  /\ WorldHolds(world)
  /\ continued \in Seq(Continuation)
  /\ \A i \in DOMAIN continued : Frozen(continued[i], rows)
  /\ ClaimsHold

\* Pruning twice is pruning once.
LEMMA PrunedTwice ==
  ASSUME NEW S, IsFiniteSet(S)
  PROVE  Pruned(Largest(S)) /\ Largest(S) \subseteq S
<1> DEFINE T == Largest(S)
           Above(U, k) == {j \in U : DigestRank(j) > DigestRank(k)}
<1>1. T \subseteq S /\ IsFiniteSet(T)
  BY FS_Subset DEF Largest
<1>2. ASSUME NEW k \in T PROVE k \in Largest(T)
  <2>1. Cardinality(Above(S, k)) < MaxStateEntries
    BY <1>2 DEF Largest
  <2>2. Above(T, k) \subseteq Above(S, k) /\ IsFiniteSet(Above(S, k))
    BY <1>1, FS_Subset
  <2>3. /\ Cardinality(Above(T, k)) <= Cardinality(Above(S, k))
        /\ IsFiniteSet(Above(T, k))
    BY <2>2, FS_Subset
  <2>4. Cardinality(Above(T, k)) \in Nat /\ Cardinality(Above(S, k)) \in Nat
    BY <2>2, <2>3, FS_CardinalityType
  <2>5. Cardinality(Above(T, k)) < MaxStateEntries
    BY <2>1, <2>3, <2>4, HookConstants
  <2> HIDE DEF T
  <2> QED BY <1>2, <2>5 DEF Largest
<1>3. Largest(T) \subseteq T
  BY DEF Largest
<1> QED BY <1>1, <1>2, <1>3 DEF Pruned

\* Only one hook is at work on the files.
LEMMA OneHolder ==
  ASSUME HookInv, NEW g \in Hooks, NEW h \in Hooks, hook[g].at \in Holding, hook[h].at \in Holding
  PROVE  g = h
BY DEF HookInv, HookHolds

\* What the other hooks hold, when the files are theirs or not touched.
LEMMA OtherHooks ==
  ASSUME HookInv, NEW g \in Hooks, NEW h \in Hooks, g # h,
         files' = files \/ files.lock \in {Free, h}
  PROVE  HookHolds(g, hook[g], files', rows)
<1>1. HookHolds(g, hook[g], files, rows)
  BY DEF HookInv
<1>2. CASE files' = files
  BY <1>1, <1>2
<1>3. CASE files.lock \in {Free, h}
  <2>1. hook[g].at \notin Holding
    BY <1>1, <1>3, FreeIsNoHook DEF HookHolds
  <2> QED BY <1>1, <2>1 DEF HookHolds, Holding
<1> QED BY <1>2, <1>3

\* A hook moves on without a new claim.
LEMMA HookMoves ==
  ASSUME HookInv, NEW h \in Hooks, NEW x, hook' = [hook EXCEPT ![h] = x],
         HookHolds(h, x, files', rows), rows' = rows, continued' = continued,
         FileFields \subseteq DOMAIN files', OneFile(files'.state), OneFile(files'.backup),
         WorldHolds(world'), forgotten \subseteq forgotten',
         files' = files \/ files.lock \in {Free, h},
         HasClaim(x) => HasClaim(hook[h]) /\ turn_key(x) = turn_key(hook[h]),
         \A k : ClaimKept(files, hook, k) => ClaimKept(files', hook', k) \/ k \in forgotten'
  PROVE  HookInv'
<1>1. /\ DOMAIN hook' = Hooks /\ hook'[h] = x
      /\ \A g \in Hooks : g # h => hook'[g] = hook[g]
  BY DEF HookInv
<1>2. \A g \in Hooks : HookHolds(g, hook'[g], files', rows')
  BY <1>1, OtherHooks
<1>3. \A g \in Hooks : HasClaim(hook'[g]) =>
        HasClaim(hook[g]) /\ turn_key(hook'[g]) = turn_key(hook[g])
  BY <1>1
<1>4. ClaimsHold'
  <2>1. ClaimsHold
    BY DEF HookInv
  <2> DEFINE Safe(k) == k \in forgotten \/ ClaimKept(files, hook, k)
             SafeNext(k) == k \in forgotten' \/ ClaimKept(files', hook', k)
  <2>2. \A k : Safe(k) => SafeNext(k)
    OBVIOUS
  <2>3. /\ \A g \in Hooks : HasClaim(hook[g]) => Safe(turn_key(hook[g]))
        /\ \A i \in DOMAIN continued : continued[i].claimed = TRUE => Safe(turn_key(continued[i]))
    BY <2>1 DEF ClaimsHold
  <2> HIDE DEF Safe, SafeNext
  <2>4. /\ \A g \in Hooks : HasClaim(hook'[g]) => SafeNext(turn_key(hook'[g]))
        /\ \A i \in DOMAIN continued' : continued'[i].claimed = TRUE => SafeNext(turn_key(continued'[i]))
    BY <1>3, <2>2, <2>3
  <2>5. \A f, g \in Hooks : f # g /\ HasClaim(hook'[f]) /\ HasClaim(hook'[g])
          /\ turn_key(hook'[f]) = turn_key(hook'[g]) => turn_key(hook'[f]) \in forgotten'
    BY <1>3, <2>1 DEF ClaimsHold
  <2>6. \A g \in Hooks, i \in DOMAIN continued' : HasClaim(hook'[g]) /\ continued'[i].claimed = TRUE
          /\ turn_key(hook'[g]) = turn_key(continued'[i]) => turn_key(hook'[g]) \in forgotten'
    BY <1>3, <2>1 DEF ClaimsHold
  <2>7. \A i, j \in DOMAIN continued' :
          i # j /\ continued'[i].claimed = TRUE /\ continued'[j].claimed = TRUE
          /\ turn_key(continued'[i]) = turn_key(continued'[j]) => turn_key(continued'[i]) \in forgotten'
    BY <2>1 DEF ClaimsHold
  <2> QED BY <2>4, <2>5, <2>6, <2>7 DEF ClaimsHold, SafeNext
<1> QED BY <1>1, <1>2, <1>4 DEF HookInv

\* The claims are kept when the files are not touched and the hook holds no lock.
LEMMA KeptOutside ==
  ASSUME HookInv, NEW h \in Hooks, NEW x, hook' = [hook EXCEPT ![h] = x], files' = files,
         hook[h].at \notin Holding, x.at \notin Holding, NEW k, ClaimKept(files, hook, k)
  PROVE  ClaimKept(files', hook', k)
<1>1. /\ hook'[h] = x /\ \A g \in Hooks : g # h => hook'[g] = hook[g]
  BY DEF HookInv
<1>2. \A g \in Hooks : hook[g].at = "install" => hook'[g].at = "install"
  BY <1>1 DEF Holding
<1>3. LockedForGood(files, hook) => LockedForGood(files', hook')
  BY <1>1 DEF LockedForGood
<1> QED BY <1>2, <1>3 DEF ClaimKept

\* A step of a hook outside the lock.
LEMMA HookMovesOutside ==
  ASSUME HookInv, NEW h \in Hooks, NEW x, hook' = [hook EXCEPT ![h] = x],
         HookHolds(h, x, files, rows), UNCHANGED <<files, rows, continued, forgotten>>,
         WorldHolds(world'), hook[h].at \notin Holding, x.at \notin Holding,
         HasClaim(x) => HasClaim(hook[h]) /\ turn_key(x) = turn_key(hook[h])
  PROVE  HookInv'
<1>1. \A k : ClaimKept(files, hook, k) => ClaimKept(files', hook', k)
  BY KeptOutside
<1>2. FileFields \subseteq DOMAIN files' /\ OneFile(files'.state) /\ OneFile(files'.backup)
  BY DEF HookInv
<1> QED BY <1>1, <1>2, HookMoves

\* A hook that has nothing to say.
LEMMA QuietHolds ==
  ASSUME NEW h, NEW a \in {"noop", "context"}, NEW f, NEW sessions
  PROVE  LET x == [at |-> "log", answer |-> a] IN
         /\ HookHolds(h, x, f, sessions) /\ ~HasClaim(x) /\ x.at \notin Holding
<1> DEFINE x == [at |-> "log", answer |-> a]
<1>1. x.at = "log" /\ x.answer = a /\ a # "block" /\ DOMAIN x = {"at", "answer"}
  OBVIOUS
<1> HIDE DEF x
<1>2. HookHolds(h, x, f, sessions) /\ ~HasClaim(x) /\ x.at \notin Holding
  BY <1>1 DEF HookHolds, HasClaim, HookPhases, StopPhases, Holding
<1> QED BY <1>2 DEF x

\* A hook that continues the turn.
LEMMA BlockHolds ==
  ASSUME NEW h, NEW s \in HookSessions, NEW t \in Turns, NEW c \in BOOLEAN, NEW w \in Payload,
         NEW f, NEW sessions,
         w # Fallback => sessions[s].revision # 0 /\ w = ResolvedWith(sessions[s])
  PROVE  LET x == [at |-> "log", answer |-> "block", session |-> s, turn |-> t,
                   claimed |-> c, with |-> w] IN
         /\ HookHolds(h, x, f, sessions) /\ x.at \notin Holding
         /\ HasClaim(x) => c = TRUE
         /\ turn_key(x) = <<s, t>>
<1> DEFINE x == [at |-> "log", answer |-> "block", session |-> s, turn |-> t,
                 claimed |-> c, with |-> w]
<1>1. /\ x.at = "log" /\ x.answer = "block" /\ x.session = s /\ x.turn = t /\ x.with = w
      /\ x \in Continuation /\ "at" \in DOMAIN x /\ "answer" \in DOMAIN x
  BY DEF Continuation
<1>2. x.claimed = c
  OBVIOUS
<1> HIDE DEF x
<1>3. HookHolds(h, x, f, sessions)
  BY <1>1 DEF HookHolds, HookPhases, StopPhases, Holding, Frozen
<1>4. HasClaim(x) => c = TRUE
  BY <1>1, <1>2 DEF HasClaim
<1>5. x.at \notin Holding /\ turn_key(x) = <<s, t>>
  BY <1>1 DEF Holding, turn_key
<1> QED BY <1>3, <1>4, <1>5 DEF x

\* A claim that fails ends in a noop, or in the fallback of an experiment.
LEMMA FailedClaim ==
  ASSUME HookInv, NEW h \in Hooks, hook[h].at \in StopPhases, ClaimFailed(h), NEW f
  PROVE  \E x : /\ hook' = [hook EXCEPT ![h] = x] /\ HookHolds(h, x, f, rows)
                /\ x.at \notin Holding /\ ~HasClaim(x)
<1>1. hook[h].session \in HookSessions /\ hook[h].turn \in Turns
  BY DEF HookInv, HookHolds
<1>2. CASE world.experiment
  <2> DEFINE x == [at |-> "log", answer |-> "block", session |-> hook[h].session,
                   turn |-> hook[h].turn, claimed |-> FALSE, with |-> Fallback]
  <2>1. hook' = [hook EXCEPT ![h] = x]
    BY <1>2 DEF ClaimFailed
  <2>2. Fallback \in Payload /\ FALSE \in BOOLEAN
    BY DEF Fallback, Payload
  <2>3. HookHolds(h, x, f, rows) /\ x.at \notin Holding /\ (HasClaim(x) => FALSE = TRUE)
    BY <1>1, <2>2, BlockHolds
  <2> HIDE DEF x
  <2> QED BY <2>1, <2>3
<1>3. CASE ~world.experiment
  <2> DEFINE x == [at |-> "log", answer |-> "noop"]
  <2>1. hook' = [hook EXCEPT ![h] = x]
    BY <1>3 DEF ClaimFailed
  <2>2. HookHolds(h, x, f, rows) /\ x.at \notin Holding /\ ~HasClaim(x)
    BY QuietHolds
  <2> HIDE DEF x
  <2> QED BY <2>1, <2>2
<1> QED BY <1>2, <1>3

\* A hook without the lock gives up or has nothing to do.
LEMMA HookQuiet ==
  ASSUME HookInv, NEW h \in Hooks, StopWithoutNeed(h) \/ LockTimeout(h)
  PROVE  HookInv'
<1>1. /\ UNCHANGED <<files, rows, continued, forgotten>> /\ hook[h].at \notin Holding
  BY DEF StopWithoutNeed, LockTimeout, Holding
<1>2. WorldHolds(world')
  <2>1. WorldHolds(world)
    BY DEF HookInv
  <2> QED BY <2>1 DEF WorldHolds, StopWithoutNeed, LockTimeout
<1>3. \E x : /\ hook' = [hook EXCEPT ![h] = x] /\ HookHolds(h, x, files, rows)
             /\ x.at \notin Holding /\ ~HasClaim(x)
  <2>1. CASE StopWithoutNeed(h)
    <3> DEFINE x == [at |-> "log", answer |-> "noop"]
    <3>1. hook' = [hook EXCEPT ![h] = x]
      BY <2>1 DEF StopWithoutNeed
    <3>2. HookHolds(h, x, files, rows) /\ x.at \notin Holding /\ ~HasClaim(x)
      BY QuietHolds
    <3> HIDE DEF x
    <3> QED BY <3>1, <3>2
  <2>2. CASE LockTimeout(h)
    <3>1. hook[h].at \in StopPhases /\ ClaimFailed(h)
      BY <2>2 DEF LockTimeout, StopPhases
    <3> QED BY <3>1, FailedClaim
  <2> QED BY <2>1, <2>2
<1> QED BY <1>1, <1>2, <1>3, HookMovesOutside

\* An event begins.
LEMMA HookBegins ==
  ASSUME HookInv, NEW h \in Hooks, NEW s \in HookSessions,
         SessionStart(h, s) \/ \E t \in Turns, n \in HookNeeds : StopWithNeed(h, s, t, n)
  PROVE  HookInv'
<1>1. UNCHANGED <<files, rows, continued, forgotten>> /\ hook[h].at \notin Holding
  BY DEF SessionStart, StopWithNeed, Holding
<1>2. WorldHolds(world) /\ WorldHolds(world')
  <2>1. WorldHolds(world)
    BY DEF HookInv
  <2> QED BY <2>1 DEF WorldHolds, SessionStart, StopWithNeed
<1>3. \E x : /\ hook' = [hook EXCEPT ![h] = x] /\ HookHolds(h, x, files, rows)
             /\ x.at \notin Holding /\ ~HasClaim(x)
  <2>1. CASE SessionStart(h, s)
    <3> DEFINE x == [at |-> "start", session |-> s, routes |-> world.routes]
    <3>1. hook' = [hook EXCEPT ![h] = x]
      BY <2>1 DEF SessionStart
    <3>2. x.at = "start" /\ x.session = s /\ x.routes = world.routes /\ "at" \in DOMAIN x
      OBVIOUS
    <3>3. world.routes \in Nat
      BY <1>2 DEF WorldHolds
    <3> HIDE DEF x
    <3> QED BY <3>1, <3>2, <3>3 DEF HookHolds, HasClaim, HookPhases, StopPhases, Holding
  <2>2. CASE \E t \in Turns, n \in HookNeeds : StopWithNeed(h, s, t, n)
    <3>1. PICK t \in Turns, n \in HookNeeds : StopWithNeed(h, s, t, n)
      BY <2>2
    <3> DEFINE x == [at |-> "claim", session |-> s, turn |-> t, need |-> n,
                     next |-> NoClaims, pruned |-> {}]
    <3>2. hook' = [hook EXCEPT ![h] = x]
      BY <3>1 DEF StopWithNeed
    <3>3. x.at = "claim" /\ x.session = s /\ x.turn = t /\ StopFields = DOMAIN x
      BY DEF StopFields
    <3> HIDE DEF x
    <3> QED BY <3>2, <3>3 DEF HookHolds, HasClaim, HookPhases, StopPhases, Holding, StopFields
  <2> QED BY <2>1, <2>2
<1> QED BY <1>1, <1>2, <1>3, HookMovesOutside

\* The resolver, under what the session froze.
LEMMA HookResolves ==
  ASSUME HookInv, NEW h \in Hooks, ResolveNeed(h)
  PROVE  HookInv'
<1>1. /\ UNCHANGED <<files, rows, continued, forgotten, world>> /\ hook[h].at = "resolve"
      /\ hook[h].session \in HookSessions /\ hook[h].turn \in Turns
  BY DEF ResolveNeed, HookInv, HookHolds, StopPhases
<1>2. hook[h].at \notin Holding /\ HasClaim(hook[h]) /\ WorldHolds(world')
  BY <1>1 DEF Holding, HasClaim, HookInv
<1>3. \E w \in Payload :
        /\ Blocks(h, w)
        /\ w # Fallback => /\ rows[hook[h].session].revision # 0
                           /\ w = ResolvedWith(rows[hook[h].session])
  <2>1. Fallback \in Payload
    BY DEF Fallback, Payload
  <2>2. SessionRow(rows[hook[h].session])
    BY <1>1 DEF HookInv
  <2>3. CASE Blocks(h, Fallback)
    BY <2>1, <2>3
  <2>4. CASE Resolvable(rows[hook[h].session], hook[h].turn)
             /\ Blocks(h, ResolvedWith(rows[hook[h].session]))
    <3>1. ResolvedWith(rows[hook[h].session]) \in Payload
      BY <2>2 DEF SessionRow, ResolvedWith, Payload
    <3>2. rows[hook[h].session].revision # 0
      BY <2>2, <2>4 DEF SessionRow, Resolvable
    <3> QED BY <2>4, <3>1, <3>2
  <2> QED BY <2>3, <2>4 DEF ResolveNeed, SessionOf
<1>4. PICK w \in Payload :
        /\ Blocks(h, w)
        /\ w # Fallback => /\ rows[hook[h].session].revision # 0
                           /\ w = ResolvedWith(rows[hook[h].session])
  BY <1>3
<1> DEFINE x == [at |-> "log", answer |-> "block", session |-> hook[h].session,
                 turn |-> hook[h].turn, claimed |-> TRUE, with |-> w]
<1>5. hook' = [hook EXCEPT ![h] = x]
  BY <1>4 DEF Blocks
<1>6. /\ HookHolds(h, x, files, rows) /\ x.at \notin Holding
      /\ turn_key(x) = <<hook[h].session, hook[h].turn>>
  <2>1. TRUE \in BOOLEAN
    OBVIOUS
  <2> QED BY <1>1, <1>4, <2>1, BlockHolds
<1>7. turn_key(x) = turn_key(hook[h])
  BY <1>6 DEF turn_key
<1> HIDE DEF x
<1> QED BY <1>1, <1>2, <1>5, <1>6, <1>7, HookMovesOutside

\* The event is logged.
LEMMA HookLogs ==
  ASSUME HookInv, NEW h \in Hooks, LogEvent(h)
  PROVE  HookInv'
<1> DEFINE x == [hook[h] EXCEPT !.at = "print"]
<1>1. /\ UNCHANGED <<files, rows, continued, forgotten, world>> /\ hook[h].at = "log"
      /\ hook' = [hook EXCEPT ![h] = x] /\ HookHolds(h, hook[h], files, rows)
  BY DEF LogEvent, HookInv
<1>2. hook[h].at \notin Holding /\ WorldHolds(world')
  BY <1>1 DEF Holding, HookInv
<1>3. "at" \in DOMAIN hook[h] /\ "answer" \in DOMAIN hook[h]
  BY <1>1 DEF HookHolds
<1>4. x.at = "print" /\ x.answer = hook[h].answer /\ DOMAIN x = DOMAIN hook[h]
  BY <1>3
<1>5. /\ HookHolds(h, x, files, rows)
      /\ HasClaim(x) => HasClaim(hook[h]) /\ turn_key(x) = turn_key(hook[h])
  <2>1. CASE hook[h].answer = "block"
    <3>1. hook[h] \in Continuation /\ Frozen(hook[h], rows)
      BY <1>1, <2>1 DEF HookHolds
    <3>2. /\ x \in Continuation /\ x.session = hook[h].session /\ x.turn = hook[h].turn
          /\ x.with = hook[h].with
      BY <3>1 DEF Continuation
    <3>3. x.claimed = hook[h].claimed
      BY <3>1 DEF Continuation
    <3>4. Frozen(x, rows)
      BY <3>1, <3>2 DEF Frozen
    <3> HIDE DEF x
    <3>5. HookHolds(h, x, files, rows)
      BY <1>3, <1>4, <3>2, <3>4 DEF HookHolds, HookPhases, StopPhases, Holding
    <3>6. HasClaim(x) => HasClaim(hook[h])
      BY <1>1, <1>4, <3>3 DEF HasClaim
    <3>7. turn_key(x) = turn_key(hook[h])
      BY <3>2 DEF turn_key
    <3> QED BY <3>5, <3>6, <3>7
  <2>2. CASE hook[h].answer # "block"
    <3> HIDE DEF x
    <3>1. HookHolds(h, x, files, rows)
      BY <1>3, <1>4, <2>2 DEF HookHolds, HookPhases, StopPhases, Holding
    <3>2. ~HasClaim(x)
      BY <1>4, <2>2 DEF HasClaim
    <3> QED BY <3>1, <3>2
  <2> QED BY <2>1, <2>2
<1>6. x.at \notin Holding
  BY <1>4 DEF Holding
<1> HIDE DEF x
<1> QED BY <1>1, <1>2, <1>5, <1>6, HookMovesOutside

\* A hook at work on the files, by itself.
LEMMA AtWork ==
  ASSUME HookInv, NEW h \in Hooks, hook[h].at \in StopPhases, NEW p,
         NEW x, x = [hook[h] EXCEPT !.at = p]
  PROVE  /\ x.at = p /\ DOMAIN x = DOMAIN hook[h] /\ StopFields \subseteq DOMAIN x
         /\ x.session = hook[h].session /\ x.turn = hook[h].turn /\ x.next = hook[h].next
         /\ x.pruned = hook[h].pruned /\ turn_key(x) = turn_key(hook[h])
         /\ x.session \in HookSessions /\ x.turn \in Turns
<1>1. /\ StopFields \subseteq DOMAIN hook[h] /\ hook[h].session \in HookSessions
      /\ hook[h].turn \in Turns
  BY DEF HookInv, HookHolds
<1>2. /\ x.at = p /\ DOMAIN x = DOMAIN hook[h]
      /\ x.session = hook[h].session /\ x.turn = hook[h].turn /\ x.next = hook[h].next
      /\ x.pruned = hook[h].pruned
  BY <1>1 DEF StopFields
<1> QED BY <1>1, <1>2 DEF turn_key

\* The files of the invariant.
LEMMA HookFiles ==
  ASSUME HookInv
  PROVE  /\ FileFields \subseteq DOMAIN files /\ OneFile(files.state) /\ OneFile(files.backup)
         /\ WorldHolds(world)
BY DEF HookInv

\* with_plugin_data_lock.
LEMMA HookTakesLock ==
  ASSUME HookInv, NEW h \in Hooks, TakeLock(h)
  PROVE  HookInv'
<1> DEFINE x == [hook[h] EXCEPT !.at = "read"]
<1>1. /\ hook[h].at = "claim" /\ files.lock = Free /\ files' = [files EXCEPT !.lock = h]
      /\ hook' = [hook EXCEPT ![h] = x] /\ UNCHANGED <<rows, world, continued, forgotten>>
  BY DEF TakeLock
<1>2. /\ FileFields \subseteq DOMAIN files' /\ files'.lock = h /\ files'.state = files.state
      /\ files'.backup = files.backup
  BY <1>1, HookFiles DEF FileFields
<1>3. /\ x.at = "read" /\ StopFields \subseteq DOMAIN x
      /\ x.session \in HookSessions /\ x.turn \in Turns
  <2>1. hook[h].at \in StopPhases
    BY <1>1 DEF StopPhases
  <2>2. x = [hook[h] EXCEPT !.at = "read"]
    OBVIOUS
  <2> HIDE DEF x
  <2> QED BY <2>1, <2>2, AtWork
<1> HIDE DEF x
<1>4. HookHolds(h, x, files', rows) /\ ~HasClaim(x)
  BY <1>2, <1>3 DEF HookHolds, HasClaim, HookPhases, StopPhases, Holding, StopFields
<1>5. \A g \in Hooks : hook[g].at # "install"
  BY <1>1, FreeIsNoHook DEF HookInv, HookHolds, Holding
<1>6. \A k : ClaimKept(files, hook, k) => ClaimKept(files', hook', k)
  BY <1>1, <1>2, <1>5 DEF ClaimKept, LockedForGood
<1> QED BY <1>1, <1>2, <1>4, <1>6, HookFiles, HookMoves

\* While a hook is at work, a claim is in the state file or in its backup.
LEMMA KeptByFiles ==
  ASSUME HookInv, NEW h \in Hooks, hook[h].at \in Holding, NEW k, ClaimKept(files, hook, k)
  PROVE  \/ k \in BlockedIn(files.state)
         \/ hook[h].at = "install" /\ k \in BlockedIn(files.backup)
<1>1. \A g \in Hooks : hook[g].at = "install" => g = h
  BY OneHolder DEF Holding
<1> QED BY <1>1 DEF ClaimKept, LockedForGood

\* A hook that gives the lock back.
LEMMA HookReleases ==
  ASSUME HookInv, NEW h \in Hooks, hook[h].at \in Holding, NEW x, hook' = [hook EXCEPT ![h] = x],
         HookHolds(h, x, files', rows), x.at \notin Holding,
         HasClaim(x) => HasClaim(hook[h]) /\ turn_key(x) = turn_key(hook[h]),
         FileFields \subseteq DOMAIN files', OneFile(files'.state), OneFile(files'.backup),
         forgotten \subseteq forgotten', UNCHANGED <<rows, world, continued>>,
         \A k \in BlockedIn(files.state) : k \in BlockedIn(files'.state) \/ k \in forgotten',
         hook[h].at = "install" => \A k \in BlockedIn(files.backup) :
                                     k \in BlockedIn(files'.state) \/ k \in forgotten'
  PROVE  HookInv'
<1>1. files.lock = h
  BY DEF HookInv, HookHolds
<1>2. \A k : ClaimKept(files, hook, k) => ClaimKept(files', hook', k) \/ k \in forgotten'
  <2> SUFFICES ASSUME NEW k, ClaimKept(files, hook, k)
               PROVE  ClaimKept(files', hook', k) \/ k \in forgotten'
    OBVIOUS
  <2>1. k \in BlockedIn(files'.state) \/ k \in forgotten'
    BY KeptByFiles
  <2> QED BY <2>1 DEF ClaimKept
<1>3. WorldHolds(world')
  BY HookFiles
<1> QED BY <1>1, <1>2, <1>3, HookMoves

\* The state that is read is the one of the file, which is pruned.
LEMMA ReadIsPruned ==
  ASSUME HookInv
  PROVE  /\ read_state.blocked = BlockedIn(files.state) /\ Pruned(BlockedIn(files.state))
         /\ prune_state(read_state).blocked = BlockedIn(files.state)
<1>1. /\ read_state.blocked = BlockedIn(files.state) /\ Pruned(BlockedIn(files.state))
  <2>1. CASE files.state = NoFile
    <3>1. BlockedIn(files.state) = {}
      BY <2>1 DEF BlockedIn, NoFile
    <3>2. read_state.blocked = {}
      BY <2>1 DEF read_state, NoClaims, LoopStateOf
    <3>3. Pruned({})
      BY FS_EmptySet DEF Pruned, Largest
    <3> QED BY <3>1, <3>2, <3>3
  <2>2. CASE files.state # NoFile
    <3>1. PICK s : files.state = {s} /\ Pruned(s.blocked)
      BY <2>2, HookFiles DEF OneFile
    <3>2. (CHOOSE t \in files.state : TRUE) = s
      BY <3>1
    <3>3. read_state = s
      BY <2>2, <3>2 DEF read_state
    <3>4. BlockedIn(files.state) = s.blocked
      BY <3>1 DEF BlockedIn
    <3> QED BY <3>1, <3>3, <3>4
  <2> QED BY <2>1, <2>2
<1>2. prune_state(read_state).blocked = Largest(read_state.blocked)
  BY DEF prune_state, LoopStateOf
<1> QED BY <1>1, <1>2 DEF Pruned

\* claim_stop up to write_state.
LEMMA HookReads ==
  ASSUME HookInv, NEW h \in Hooks, ReadClaims(h)
  PROVE  HookInv'
<1> DEFINE read == prune_state(read_state)
           key == turn_key(hook[h])
           full == LoopStateOf(read.handled \cup {state_key(hook[h])}, read.blocked \cup {key})
           next == prune_state(full)
           claims == BlockedIn(files.state)
<1>1. /\ hook[h].at = "read" /\ hook[h].at \in Holding /\ UNCHANGED <<rows, world, continued>>
  BY DEF ReadClaims, Holding
<1>2. read.blocked = claims /\ Pruned(claims)
  BY ReadIsPruned
<1>3. CASE /\ files' = Unlocked /\ UNCHANGED forgotten
           /\ hook' = [hook EXCEPT ![h] = [at |-> "log", answer |-> "noop"]]
  <2> DEFINE x == [at |-> "log", answer |-> "noop"]
  <2>1. HookHolds(h, x, files', rows) /\ ~HasClaim(x) /\ x.at \notin Holding
    BY QuietHolds
  <2>2. /\ FileFields \subseteq DOMAIN files' /\ files'.state = files.state
        /\ files'.backup = files.backup
    BY <1>3, HookFiles DEF Unlocked, FileFields
  <2> HIDE DEF x
  <2>3. hook' = [hook EXCEPT ![h] = x]
    BY <1>3 DEF x
  <2> QED BY <1>1, <1>3, <2>1, <2>2, <2>3, HookFiles, HookReleases
<1>4. CASE /\ key \notin read.blocked /\ UNCHANGED <<files, forgotten>>
           /\ hook' = [hook EXCEPT ![h] = [@ EXCEPT !.at = "aside", !.next = next,
                                                    !.pruned = full.blocked \ next.blocked]]
  <2> DEFINE x == [hook[h] EXCEPT !.at = "aside", !.next = next,
                                  !.pruned = full.blocked \ next.blocked]
  <2>1. full.blocked = claims \cup {key} /\ next.blocked = Largest(full.blocked)
    BY <1>2 DEF LoopStateOf, prune_state
  <2>2. IsFiniteSet(claims \cup {key})
    BY <1>2, FS_AddElement DEF Pruned
  <2>3. Pruned(next.blocked) /\ next.blocked \subseteq full.blocked
    BY <2>1, <2>2, PrunedTwice
  <2>4. hook' = [hook EXCEPT ![h] = x]
    BY <1>4
  <2>5. /\ StopFields \subseteq DOMAIN hook[h] /\ hook[h].session \in HookSessions
        /\ hook[h].turn \in Turns /\ files.lock = h
    BY <1>1 DEF HookInv, HookHolds, StopPhases, Holding
  <2> HIDE DEF next, full, claims, read
  <2>6. /\ x.at = "aside" /\ StopFields \subseteq DOMAIN x /\ x.session = hook[h].session
        /\ x.turn = hook[h].turn /\ x.next = next /\ x.pruned = full.blocked \ next.blocked
    BY <2>5 DEF StopFields
  <2> HIDE DEF x, key
  <2>7. turn_key(x) = key
    BY <2>6 DEF turn_key, key
  <2>8. Ready(x, files.state)
    <3>1. claims \cup {key} \subseteq x.next.blocked \cup x.pruned
      BY <2>1, <2>6
    <3>2. key \notin claims
      BY <1>2, <1>4
    <3> QED BY <2>3, <2>6, <2>7, <3>1, <3>2 DEF Ready, claims
  <2>9. HookHolds(h, x, files', rows)
    BY <1>4, <2>5, <2>6, <2>8 DEF HookHolds, HookPhases, StopPhases, Holding, StopFields
  <2>10. ~HasClaim(x)
    BY <2>6 DEF HasClaim
  <2>11. \A k : ClaimKept(files, hook, k) => ClaimKept(files', hook', k)
    BY <1>1, <1>4, KeptByFiles DEF ClaimKept
  <2> QED BY <1>1, <1>4, <2>4, <2>9, <2>10, <2>11, HookFiles, HookMoves
<1> QED BY <1>3, <1>4 DEF ReadClaims

\* write_state moves the old file aside ...
LEMMA HookMovesAside ==
  ASSUME HookInv, NEW h \in Hooks, MoveAside(h)
  PROVE  HookInv'
<1> DEFINE x == [hook[h] EXCEPT !.at = "install"]
<1>1. /\ hook[h].at = "aside" /\ UNCHANGED <<rows, world, continued, forgotten>>
      /\ files' = [files EXCEPT !.state = NoFile, !.backup = files.state]
      /\ hook' = [hook EXCEPT ![h] = x]
  BY DEF MoveAside
<1>2. hook[h].at \in Holding /\ hook[h].at \in StopPhases
  BY <1>1 DEF Holding, StopPhases
<1>3. files.lock = h /\ Ready(hook[h], files.state)
  BY <1>1, <1>2 DEF HookInv, HookHolds
<1>4. /\ FileFields \subseteq DOMAIN files' /\ files'.state = NoFile /\ files'.backup = files.state
      /\ files'.lock = h
  BY <1>1, <1>3, HookFiles DEF FileFields
<1>5. /\ x.at = "install" /\ StopFields \subseteq DOMAIN x /\ x.next = hook[h].next
      /\ x.pruned = hook[h].pruned /\ turn_key(x) = turn_key(hook[h])
      /\ x.session \in HookSessions /\ x.turn \in Turns
  <2>1. x = [hook[h] EXCEPT !.at = "install"]
    OBVIOUS
  <2> HIDE DEF x
  <2> QED BY <1>2, <2>1, AtWork
<1> HIDE DEF x
<1>6. Ready(x, files'.backup)
  BY <1>3, <1>4, <1>5 DEF Ready
<1>7. HookHolds(h, x, files', rows) /\ ~HasClaim(x)
  BY <1>4, <1>5, <1>6 DEF HookHolds, HasClaim, HookPhases, StopPhases, Holding, StopFields
<1>8. ASSUME NEW k, ClaimKept(files, hook, k) PROVE ClaimKept(files', hook', k)
  <2>1. k \in BlockedIn(files'.backup)
    BY <1>1, <1>2, <1>4, <1>8, KeptByFiles
  <2>2. hook'[h].at = "install"
    BY <1>1, <1>5 DEF HookInv
  <2> QED BY <2>1, <2>2 DEF ClaimKept
<1>9. OneFile(files'.state) /\ OneFile(files'.backup)
  BY <1>4, HookFiles DEF OneFile
<1> QED BY <1>1, <1>3, <1>4, <1>7, <1>8, <1>9, HookFiles, HookMoves

\* ... and renames the new one into its place: the turn is claimed.
LEMMA HookInstalls ==
  ASSUME HookInv, NEW h \in Hooks, Install(h)
  PROVE  HookInv'
<1> DEFINE x == [hook[h] EXCEPT !.at = "tidy"]
           key == turn_key(hook[h])
<1>1. /\ hook[h].at = "install" /\ UNCHANGED <<rows, world, continued>>
      /\ files' = [files EXCEPT !.state = {hook[h].next}]
      /\ forgotten' = forgotten \cup hook[h].pruned
      /\ hook' = [hook EXCEPT ![h] = x]
  BY DEF Install
<1>2. hook[h].at \in Holding /\ hook[h].at \in StopPhases
  BY <1>1 DEF Holding, StopPhases
<1>3. files.lock = h /\ files.state = NoFile /\ Ready(hook[h], files.backup)
  BY <1>1, <1>2 DEF HookInv, HookHolds
<1>4. /\ FileFields \subseteq DOMAIN files' /\ files'.state = {hook[h].next}
      /\ files'.backup = files.backup /\ files'.lock = h
  BY <1>1, <1>3, HookFiles DEF FileFields
<1>5. /\ x.at = "tidy" /\ StopFields \subseteq DOMAIN x /\ turn_key(x) = key
      /\ x.session \in HookSessions /\ x.turn \in Turns
  <2>1. x = [hook[h] EXCEPT !.at = "tidy"]
    OBVIOUS
  <2> HIDE DEF x
  <2> QED BY <1>2, <2>1, AtWork
<1> HIDE DEF x
<1>6. /\ DOMAIN hook' = Hooks /\ hook'[h] = x /\ \A g \in Hooks : g # h => hook'[g] = hook[g]
  BY <1>1 DEF HookInv
<1>7. HookHolds(h, x, files', rows)
  BY <1>4, <1>5 DEF HookHolds, HookPhases, StopPhases, Holding, StopFields
<1>8. \A g \in Hooks : HookHolds(g, hook'[g], files', rows')
  BY <1>1, <1>3, <1>6, <1>7, OtherHooks
<1>9. /\ BlockedIn(files'.state) = hook[h].next.blocked /\ OneFile(files'.state)
      /\ BlockedIn(files.state) = {}
  BY <1>3, <1>4 DEF BlockedIn, OneFile, Ready, NoFile
<1> DEFINE Safe(k) == k \in forgotten \/ ClaimKept(files, hook, k)
           SafeNext(k) == k \in forgotten' \/ ClaimKept(files', hook', k)
<1>10. ASSUME NEW k, Safe(k) PROVE SafeNext(k) /\ (k = key => k \in forgotten')
  <2>1. CASE k \in forgotten
    BY <1>1, <2>1
  <2>2. CASE ClaimKept(files, hook, k)
    <3>1. k \in BlockedIn(files.backup)
      BY <1>2, <1>9, <2>2, KeptByFiles
    <3>2. k \in hook[h].next.blocked \cup hook[h].pruned /\ k # key
      BY <1>3, <3>1 DEF Ready
    <3> QED BY <1>1, <1>9, <3>2 DEF ClaimKept
  <2> QED BY <1>10, <2>1, <2>2
<1>11. SafeNext(key)
  <2>1. key \in hook[h].next.blocked \cup hook[h].pruned
    BY <1>3 DEF Ready
  <2> QED BY <1>1, <1>9, <2>1 DEF ClaimKept
<1>12. /\ \A g \in Hooks : HasClaim(hook[g]) => Safe(turn_key(hook[g]))
       /\ \A i \in DOMAIN continued : continued[i].claimed = TRUE => Safe(turn_key(continued[i]))
  BY DEF HookInv, ClaimsHold
<1> HIDE DEF Safe, SafeNext, key
<1>13. /\ \A g \in Hooks : HasClaim(hook'[g]) => SafeNext(turn_key(hook'[g]))
       /\ \A i \in DOMAIN continued' : continued'[i].claimed = TRUE => SafeNext(turn_key(continued'[i]))
  BY <1>1, <1>5, <1>6, <1>10, <1>11, <1>12
<1>14. \A f, g \in Hooks : f # g /\ HasClaim(hook'[f]) /\ HasClaim(hook'[g])
         /\ turn_key(hook'[f]) = turn_key(hook'[g]) => turn_key(hook'[f]) \in forgotten'
  <2>1. \A f, g \in Hooks : f # g /\ HasClaim(hook[f]) /\ HasClaim(hook[g])
          /\ turn_key(hook[f]) = turn_key(hook[g]) => turn_key(hook[f]) \in forgotten
    BY DEF HookInv, ClaimsHold
  <2>2. \A g \in Hooks : g # h /\ HasClaim(hook[g]) /\ turn_key(hook[g]) = key => key \in forgotten'
    BY <1>10, <1>12
  <2> QED BY <1>1, <1>5, <1>6, <2>1, <2>2
<1>15. \A g \in Hooks, i \in DOMAIN continued' : HasClaim(hook'[g]) /\ continued'[i].claimed = TRUE
         /\ turn_key(hook'[g]) = turn_key(continued'[i]) => turn_key(hook'[g]) \in forgotten'
  <2>1. \A g \in Hooks, i \in DOMAIN continued : HasClaim(hook[g]) /\ continued[i].claimed = TRUE
          /\ turn_key(hook[g]) = turn_key(continued[i]) => turn_key(hook[g]) \in forgotten
    BY DEF HookInv, ClaimsHold
  <2>2. \A i \in DOMAIN continued : continued[i].claimed = TRUE /\ turn_key(continued[i]) = key
          => key \in forgotten'
    BY <1>10, <1>12
  <2> QED BY <1>1, <1>5, <1>6, <2>1, <2>2
<1>16. \A i, j \in DOMAIN continued' :
         i # j /\ continued'[i].claimed = TRUE /\ continued'[j].claimed = TRUE
         /\ turn_key(continued'[i]) = turn_key(continued'[j]) => turn_key(continued'[i]) \in forgotten'
  BY <1>1 DEF HookInv, ClaimsHold
<1>17. ClaimsHold'
  BY <1>13, <1>14, <1>15, <1>16 DEF ClaimsHold, SafeNext
<1> QED BY <1>1, <1>4, <1>6, <1>8, <1>9, <1>17 DEF HookInv

\* The claim fails with the lock held, before or after the file was replaced.
LEMMA HookClaimFails ==
  ASSUME HookInv, NEW h \in Hooks, InstallFails(h) \/ ClaimIoFails(h)
  PROVE  HookInv'
<1>1. /\ UNCHANGED <<rows, world, continued>> /\ ClaimFailed(h)
      /\ hook[h].at \in Holding /\ hook[h].at \in StopPhases
  BY DEF InstallFails, ClaimIoFails, Holding, StopPhases
<1>2. PICK x : /\ hook' = [hook EXCEPT ![h] = x] /\ HookHolds(h, x, files', rows)
               /\ x.at \notin Holding /\ ~HasClaim(x)
  BY <1>1, FailedClaim
<1>3. CASE ClaimIoFails(h)
  <2>1. files' = Unlocked /\ UNCHANGED forgotten /\ hook[h].at # "install"
    BY <1>3 DEF ClaimIoFails
  <2>2. /\ FileFields \subseteq DOMAIN files' /\ files'.state = files.state
        /\ files'.backup = files.backup
    BY <2>1, HookFiles DEF Unlocked, FileFields
  <2> QED BY <1>1, <1>2, <2>1, <2>2, HookFiles, HookReleases
<1>4. CASE InstallFails(h)
  <2>1. hook[h].at = "install" /\ files.state = NoFile
    BY <1>4 DEF InstallFails, HookInv, HookHolds
  <2>2. BlockedIn(files.state) = {}
    BY <2>1 DEF BlockedIn, NoFile
  <2>3. CASE /\ files' = [Unlocked EXCEPT !.state = files.backup, !.backup = NoFile]
             /\ UNCHANGED forgotten
    <3>1. /\ FileFields \subseteq DOMAIN files' /\ files'.state = files.backup
          /\ files'.backup = NoFile
      BY <2>3, HookFiles DEF Unlocked, FileFields
    <3> QED BY <1>1, <1>2, <2>2, <2>3, <3>1, HookFiles, HookReleases DEF OneFile
  <2>4. CASE /\ files' = Unlocked
             /\ forgotten' = forgotten \cup UNION {b.blocked : b \in files.backup}
    <3>1. /\ FileFields \subseteq DOMAIN files' /\ files'.state = files.state
          /\ files'.backup = files.backup
      BY <2>4, HookFiles DEF Unlocked, FileFields
    <3>2. forgotten' = forgotten \cup BlockedIn(files.backup)
      BY <2>4 DEF BlockedIn
    <3> QED BY <1>1, <1>2, <2>2, <3>1, <3>2, HookFiles, HookReleases
  <2> QED BY <1>4, <2>3, <2>4 DEF InstallFails
<1> QED BY <1>3, <1>4

\* The backup goes, and the lock with it.
LEMMA HookClaims ==
  ASSUME HookInv, NEW h \in Hooks, Claimed(h)
  PROVE  HookInv'
<1> DEFINE x == [hook[h] EXCEPT !.at = "resolve"]
<1>1. /\ hook[h].at = "tidy" /\ UNCHANGED <<rows, world, continued, forgotten>>
      /\ files' = [Unlocked EXCEPT !.backup = NoFile] /\ hook' = [hook EXCEPT ![h] = x]
  BY DEF Claimed
<1>2. hook[h].at \in Holding /\ hook[h].at \in StopPhases /\ HasClaim(hook[h])
  BY <1>1 DEF Holding, StopPhases, HasClaim
<1>3. /\ FileFields \subseteq DOMAIN files' /\ files'.state = files.state /\ files'.backup = NoFile
  BY <1>1, HookFiles DEF Unlocked, FileFields
<1>4. /\ x.at = "resolve" /\ StopFields \subseteq DOMAIN x /\ turn_key(x) = turn_key(hook[h])
      /\ x.session \in HookSessions /\ x.turn \in Turns
  <2>1. x = [hook[h] EXCEPT !.at = "resolve"]
    OBVIOUS
  <2> HIDE DEF x
  <2> QED BY <1>2, <2>1, AtWork
<1> HIDE DEF x
<1>5. HookHolds(h, x, files', rows) /\ x.at \notin Holding
  BY <1>4 DEF HookHolds, HookPhases, StopPhases, Holding, StopFields
<1> QED BY <1>1, <1>2, <1>3, <1>4, <1>5, HookFiles, HookReleases DEF OneFile

\* A hook is killed, with the lock or without it.
LEMMA HookKilled ==
  ASSUME HookInv, NEW h \in Hooks, KillHook(h)
  PROVE  HookInv'
<1>1. /\ UNCHANGED <<rows, continued, forgotten>> /\ hook' = [hook EXCEPT ![h] = IdleHook]
      /\ world' = [world EXCEPT !.stops = @ + 1]
      /\ \/ files' = files
         \/ files.lock = Free /\ files' = [files EXCEPT !.lock = h]
  BY DEF KillHook
<1>2. IdleHook.at = "idle" /\ "at" \in DOMAIN IdleHook
  BY DEF IdleHook
<1>3. HookHolds(h, IdleHook, files', rows) /\ ~HasClaim(IdleHook)
  BY <1>2 DEF HookHolds, HasClaim, HookPhases, StopPhases, Holding
<1>4. WorldHolds(world')
  BY <1>1, HookFiles DEF WorldHolds
<1>5. /\ FileFields \subseteq DOMAIN files' /\ files'.state = files.state
      /\ files'.backup = files.backup
  BY <1>1, HookFiles DEF FileFields
<1>6. /\ hook'[h] = IdleHook /\ \A g \in Hooks : g # h => hook'[g] = hook[g]
  BY <1>1 DEF HookInv
<1>7. ASSUME NEW k, ClaimKept(files, hook, k) PROVE ClaimKept(files', hook', k)
  <2>1. CASE hook[h].at \in Holding
    <3>1. \A g \in Hooks : hook'[g].at \notin Holding
      BY <1>2, <1>6, <2>1, OneHolder DEF Holding
    <3>2. files.lock = h /\ files' = files
      BY <1>1, <2>1, FreeIsNoHook DEF HookInv, HookHolds
    <3> QED BY <3>1, <3>2, FreeIsNoHook DEF ClaimKept, LockedForGood
  <2>2. CASE hook[h].at \notin Holding /\ files' = files
    <3>1. IdleHook.at \notin Holding
      BY <1>2 DEF Holding
    <3> QED BY <1>1, <1>7, <2>2, <3>1, KeptOutside
  <2>3. CASE hook[h].at \notin Holding /\ files.lock = Free /\ files' = [files EXCEPT !.lock = h]
    <3>1. \A g \in Hooks : hook[g].at \notin Holding
      BY <2>3, FreeIsNoHook DEF HookInv, HookHolds
    <3>2. \A g \in Hooks : hook'[g].at \notin Holding
      BY <1>2, <1>6, <3>1 DEF Holding
    <3>3. files'.lock = h
      BY <2>3, HookFiles DEF FileFields
    <3> QED BY <3>2, <3>3, FreeIsNoHook DEF ClaimKept, LockedForGood
  <2> QED BY <1>1, <2>1, <2>2, <2>3
<1> QED BY <1>1, <1>3, <1>4, <1>5, <1>7, HookFiles, HookMoves

\* The answer is printed: the claim of the hook becomes that of a continuation.
LEMMA HookPrints ==
  ASSUME HookInv, NEW h \in Hooks, PrintAnswer(h)
  PROVE  HookInv'
<1>1. /\ hook[h].at = "print" /\ hook' = [hook EXCEPT ![h] = IdleHook]
      /\ UNCHANGED <<files, rows, world, forgotten>>
      /\ continued' = IF hook[h].answer = "block" THEN Append(continued, hook[h]) ELSE continued
  BY DEF PrintAnswer
<1>2. IdleHook.at = "idle" /\ "at" \in DOMAIN IdleHook
  BY DEF IdleHook
<1>3. HookHolds(h, IdleHook, files, rows) /\ ~HasClaim(IdleHook)
  BY <1>2 DEF HookHolds, HasClaim, HookPhases, StopPhases, Holding
<1>4. hook[h].at \notin Holding /\ IdleHook.at \notin Holding
  BY <1>1, <1>2 DEF Holding
<1>5. CASE hook[h].answer # "block"
  BY <1>1, <1>3, <1>4, <1>5, HookFiles, HookMovesOutside
<1>6. CASE hook[h].answer = "block"
  <2> DEFINE y == hook[h]
             n == Len(continued)
  <2>1. y \in Continuation /\ Frozen(y, rows)
    BY <1>1, <1>6 DEF HookInv, HookHolds
  <2>2. continued \in Seq(Continuation) /\ continued' = Append(continued, y)
    BY <1>1, <1>6 DEF HookInv
  <2>3. /\ n \in Nat /\ DOMAIN continued = 1 .. n /\ DOMAIN continued' = 1 .. (n + 1)
        /\ continued' \in Seq(Continuation)
        /\ continued'[n + 1] = y /\ \A i \in 1 .. n : continued'[i] = continued[i]
    BY <2>1, <2>2
  <2>4. /\ DOMAIN hook' = Hooks /\ hook'[h] = IdleHook /\ \A g \in Hooks : g # h => hook'[g] = hook[g]
    BY <1>1 DEF HookInv
  <2>5. \A g \in Hooks : HookHolds(g, hook'[g], files', rows')
    BY <1>1, <1>3, <2>4 DEF HookInv
  <2>6. y.claimed = TRUE => HasClaim(y)
    BY <1>1, <1>6 DEF HasClaim
  <2> HIDE DEF y, n
  <2>7. \A i \in 1 .. (n + 1) : i \in 1 .. n \/ i = n + 1
    BY <2>3
  <2>8. \A i \in DOMAIN continued' : Frozen(continued'[i], rows')
    BY <1>1, <2>1, <2>3, <2>7 DEF HookInv
  <2>9. \A k : ClaimKept(files, hook, k) => ClaimKept(files', hook', k)
    BY <1>1, <1>4, KeptOutside
  <2> DEFINE Safe(k) == k \in forgotten \/ ClaimKept(files, hook, k)
             SafeNext(k) == k \in forgotten' \/ ClaimKept(files', hook', k)
  <2>10. \A k : Safe(k) => SafeNext(k)
    BY <1>1, <2>9
  <2>11. /\ \A g \in Hooks : HasClaim(hook[g]) => Safe(turn_key(hook[g]))
         /\ \A i \in 1 .. n : continued[i].claimed = TRUE => Safe(turn_key(continued[i]))
    BY <2>3 DEF HookInv, ClaimsHold
  <2> HIDE DEF Safe, SafeNext
  <2>12. \A g \in Hooks : HasClaim(hook'[g]) => g # h /\ hook'[g] = hook[g]
    BY <1>3, <2>4
  <2>13. y.claimed = TRUE => HasClaim(hook[h]) /\ Safe(turn_key(y))
    BY <2>6, <2>11 DEF y
  <2>14. /\ \A g \in Hooks : HasClaim(hook'[g]) => SafeNext(turn_key(hook'[g]))
         /\ \A i \in DOMAIN continued' : continued'[i].claimed = TRUE => SafeNext(turn_key(continued'[i]))
    BY <2>3, <2>7, <2>10, <2>11, <2>12, <2>13
  <2>15. \A f, g \in Hooks : f # g /\ HasClaim(hook'[f]) /\ HasClaim(hook'[g])
           /\ turn_key(hook'[f]) = turn_key(hook'[g]) => turn_key(hook'[f]) \in forgotten'
    BY <1>1, <2>12 DEF HookInv, ClaimsHold
  <2>16. \A g \in Hooks, i \in DOMAIN continued' : HasClaim(hook'[g]) /\ continued'[i].claimed = TRUE
           /\ turn_key(hook'[g]) = turn_key(continued'[i]) => turn_key(hook'[g]) \in forgotten'
    <3>1. \A g \in Hooks, i \in 1 .. n : HasClaim(hook[g]) /\ continued[i].claimed = TRUE
            /\ turn_key(hook[g]) = turn_key(continued[i]) => turn_key(hook[g]) \in forgotten
      BY <2>3 DEF HookInv, ClaimsHold
    <3>2. \A g \in Hooks : g # h /\ HasClaim(hook[g]) /\ y.claimed = TRUE
            /\ turn_key(hook[g]) = turn_key(y) => turn_key(hook[g]) \in forgotten
      BY <2>13 DEF HookInv, ClaimsHold, y
    <3> QED BY <1>1, <2>3, <2>7, <2>12, <3>1, <3>2
  <2>17. \A i, j \in DOMAIN continued' :
           i # j /\ continued'[i].claimed = TRUE /\ continued'[j].claimed = TRUE
           /\ turn_key(continued'[i]) = turn_key(continued'[j]) => turn_key(continued'[i]) \in forgotten'
    <3>1. \A i, j \in 1 .. n :
            i # j /\ continued[i].claimed = TRUE /\ continued[j].claimed = TRUE
            /\ turn_key(continued[i]) = turn_key(continued[j]) => turn_key(continued[i]) \in forgotten
      BY <2>3 DEF HookInv, ClaimsHold
    <3>2. \A i \in 1 .. n : continued[i].claimed = TRUE /\ y.claimed = TRUE
            /\ turn_key(y) = turn_key(continued[i]) => turn_key(y) \in forgotten
      BY <2>3, <2>13 DEF HookInv, ClaimsHold, y
    <3> QED BY <1>1, <2>3, <2>7, <3>1, <3>2
  <2>18. ClaimsHold'
    BY <2>14, <2>15, <2>16, <2>17 DEF ClaimsHold, SafeNext
  <2> QED BY <1>1, <2>3, <2>4, <2>5, <2>8, <2>18, HookFiles DEF HookInv
<1> QED BY <1>5, <1>6

\* Session rows are written and keep what they froze.
LEMMA RowsLater ==
  ASSUME HookInv, DOMAIN rows' = HookSessions, \A s \in HookSessions : SessionRow(rows'[s]),
         \A s \in HookSessions : rows[s].revision # 0 =>
           rows'[s].revision = rows[s].revision /\ rows'[s].routes = rows[s].routes
  PROVE  /\ \A x \in Continuation : Frozen(x, rows) => Frozen(x, rows')
         /\ \A h \in Hooks : HookHolds(h, hook[h], files, rows')
<1>1. \A x \in Continuation : Frozen(x, rows) => Frozen(x, rows')
  <2> SUFFICES ASSUME NEW x \in Continuation, Frozen(x, rows) PROVE Frozen(x, rows')
    OBVIOUS
  <2>1. x.session \in HookSessions
    BY DEF Continuation
  <2> QED BY <2>1 DEF Frozen, ResolvedWith
<1>2. \A h \in Hooks : HookHolds(h, hook[h], files, rows')
  <2> SUFFICES ASSUME NEW h \in Hooks PROVE HookHolds(h, hook[h], files, rows')
    OBVIOUS
  <2>1. HookHolds(h, hook[h], files, rows)
    BY DEF HookInv
  <2> QED BY <1>1, <2>1 DEF HookHolds
<1> QED BY <1>1, <1>2

LEMMA SessionsChange ==
  ASSUME HookInv, DOMAIN rows' = HookSessions, \A s \in HookSessions : SessionRow(rows'[s]),
         \A s \in HookSessions : rows[s].revision # 0 =>
           rows'[s].revision = rows[s].revision /\ rows'[s].routes = rows[s].routes,
         UNCHANGED <<files, hook, world, continued, forgotten>>
  PROVE  HookInv'
<1>1. \A i \in DOMAIN continued' : Frozen(continued'[i], rows')
  <2>1. \A i \in DOMAIN continued : continued[i] \in Continuation /\ Frozen(continued[i], rows)
    BY DEF HookInv
  <2> QED BY <2>1, RowsLater
<1>2. \A h \in Hooks : HookHolds(h, hook'[h], files', rows')
  BY RowsLater
<1>3. ClaimsHold'
  BY DEF HookInv, ClaimsHold
<1> QED BY <1>1, <1>2, <1>3 DEF HookInv

LEMMA HookPrompts ==
  ASSUME HookInv, NEW s \in HookSessions,
         EndSession(s) \/ \E t \in Turns \cup {NoTurn} : RecordUserPrompt(s, t)
  PROVE  HookInv'
<1>1. /\ UNCHANGED <<files, hook, world, continued, forgotten>> /\ rows[s] # NoRow
      /\ SessionRow(rows[s]) /\ DOMAIN rows = HookSessions
  BY DEF EndSession, RecordUserPrompt, HookInv
<1>2. RowFields \subseteq DOMAIN rows[s] /\ rows[s].revision # 0
  BY <1>1 DEF SessionRow
<1>3. /\ DOMAIN rows' = HookSessions /\ \A o \in HookSessions : o # s => rows'[o] = rows[o]
      /\ RowFields \subseteq DOMAIN rows'[s]
      /\ rows'[s].revision = rows[s].revision /\ rows'[s].routes = rows[s].routes
  BY <1>1, <1>2 DEF EndSession, RecordUserPrompt, RowFields
<1>4. \A o \in HookSessions : SessionRow(rows'[o])
  BY <1>1, <1>2, <1>3 DEF SessionRow, HookInv
<1> QED BY <1>1, <1>3, <1>4, SessionsChange

\* ON CONFLICT DO NOTHING.
LEMMA HookRecordsStart ==
  ASSUME HookInv, NEW h \in Hooks, RecordSessionStart(h)
  PROVE  HookInv'
<1> DEFINE s == hook[h].session
           x == [at |-> "log", answer |-> "context"]
           r == [revision |-> world.active, routes |-> hook[h].routes,
                 root |-> NoTurn, turn |-> NoTurn]
<1>1. /\ UNCHANGED <<files, world, continued, forgotten>> /\ hook[h].at = "start"
      /\ hook' = [hook EXCEPT ![h] = x]
      /\ rows' = IF rows[s] = NoRow /\ world.active # 0 THEN [rows EXCEPT ![s] = r] ELSE rows
      /\ s \in HookSessions /\ hook[h].routes \in Nat /\ world.active \in Nat
  BY DEF RecordSessionStart, HookInv, HookHolds, WorldHolds
<1>2. /\ RowFields = DOMAIN r /\ r.revision = world.active /\ r.routes = hook[h].routes
  BY DEF RowFields
<1>3. /\ DOMAIN rows' = HookSessions /\ \A o \in HookSessions : SessionRow(rows'[o])
      /\ \A o \in HookSessions : rows[o].revision # 0 =>
           rows'[o].revision = rows[o].revision /\ rows'[o].routes = rows[o].routes
  <2> HIDE DEF r, s
  <2>1. DOMAIN rows = HookSessions /\ \A o \in HookSessions : SessionRow(rows[o])
    BY DEF HookInv
  <2>2. CASE rows[s] = NoRow /\ world.active # 0
    <3>1. SessionRow(r)
      BY <1>1, <1>2, <2>2 DEF SessionRow
    <3>2. rows[s].revision = 0
      BY <2>2 DEF NoRow
    <3> QED BY <1>1, <2>1, <2>2, <3>1, <3>2
  <2>3. CASE ~(rows[s] = NoRow /\ world.active # 0)
    BY <1>1, <2>1, <2>3
  <2> QED BY <2>2, <2>3
<1>4. HookHolds(h, x, files, rows') /\ ~HasClaim(x) /\ x.at \notin Holding
  BY QuietHolds
<1>5. hook[h].at \notin Holding
  BY <1>1 DEF Holding
<1> HIDE DEF x, r, s
<1>6. /\ DOMAIN hook' = Hooks /\ hook'[h] = x /\ \A g \in Hooks : g # h => hook'[g] = hook[g]
  BY <1>1 DEF HookInv
<1>7. \A g \in Hooks : HookHolds(g, hook'[g], files', rows')
  BY <1>1, <1>3, <1>4, <1>6, RowsLater
<1>8. \A i \in DOMAIN continued' : Frozen(continued'[i], rows')
  <2>1. \A i \in DOMAIN continued : continued[i] \in Continuation /\ Frozen(continued[i], rows)
    BY DEF HookInv
  <2> QED BY <1>1, <1>3, <2>1, RowsLater
<1>9. \A k : ClaimKept(files, hook, k) => ClaimKept(files', hook', k)
  BY <1>1, <1>4, <1>5, KeptOutside
<1>10. \A g \in Hooks : HasClaim(hook'[g]) => g # h /\ hook'[g] = hook[g]
  BY <1>4, <1>6
<1>11. ClaimsHold'
  <2>1. ClaimsHold
    BY DEF HookInv
  <2> DEFINE Safe(k) == k \in forgotten \/ ClaimKept(files, hook, k)
             SafeNext(k) == k \in forgotten' \/ ClaimKept(files', hook', k)
  <2>2. \A k : Safe(k) => SafeNext(k)
    BY <1>1, <1>9
  <2>3. /\ \A g \in Hooks : HasClaim(hook[g]) => Safe(turn_key(hook[g]))
        /\ \A i \in DOMAIN continued : continued[i].claimed = TRUE => Safe(turn_key(continued[i]))
    BY <2>1 DEF ClaimsHold
  <2> HIDE DEF Safe, SafeNext
  <2>4. /\ \A g \in Hooks : HasClaim(hook'[g]) => SafeNext(turn_key(hook'[g]))
        /\ \A i \in DOMAIN continued' : continued'[i].claimed = TRUE => SafeNext(turn_key(continued'[i]))
    BY <1>1, <1>10, <2>2, <2>3
  <2>5. \A f, g \in Hooks : f # g /\ HasClaim(hook'[f]) /\ HasClaim(hook'[g])
                             /\ turn_key(hook'[f]) = turn_key(hook'[g])
                            => turn_key(hook'[f]) \in forgotten'
    BY <1>1, <1>10, <2>1 DEF ClaimsHold
  <2>6. \A g \in Hooks, i \in DOMAIN continued' :
          HasClaim(hook'[g]) /\ continued'[i].claimed = TRUE
            /\ turn_key(hook'[g]) = turn_key(continued'[i])
          => turn_key(hook'[g]) \in forgotten'
    BY <1>1, <1>10, <2>1 DEF ClaimsHold
  <2>7. \A i, j \in DOMAIN continued' :
          i # j /\ continued'[i].claimed = TRUE /\ continued'[j].claimed = TRUE
            /\ turn_key(continued'[i]) = turn_key(continued'[j])
          => turn_key(continued'[i]) \in forgotten'
    BY <1>1, <2>1 DEF ClaimsHold
  <2> QED BY <2>4, <2>5, <2>6, <2>7 DEF ClaimsHold, SafeNext
<1> QED BY <1>1, <1>3, <1>6, <1>7, <1>8, <1>11, HookFiles DEF HookInv

LEMMA HookReconfigures ==
  ASSUME HookInv, Reconfigure
  PROVE  HookInv'
<1>1. UNCHANGED <<files, rows, hook, continued, forgotten>> /\ WorldHolds(world')
  BY HookFiles DEF Reconfigure, WorldHolds
<1>2. ClaimsHold'
  BY <1>1 DEF HookInv, ClaimsHold
<1> QED BY <1>1, <1>2 DEF HookInv

\* Every step of the hooks keeps the invariant.
LEMMA HookStep == HookInv /\ [HookNext]_hookVars => HookInv'
<1> SUFFICES ASSUME HookInv, [HookNext]_hookVars PROVE HookInv'
  OBVIOUS
<1>1. CASE UNCHANGED hookVars
  BY <1>1 DEF hookVars, HookInv, ClaimsHold
<1>2. ASSUME NEW h \in Hooks, StopStep(h) PROVE HookInv'
  BY <1>2, HookQuiet, HookBegins, HookTakesLock, HookReads, HookMovesAside, HookInstalls,
     HookClaimFails, HookClaims, HookResolves, HookLogs, HookPrints, HookKilled DEF StopStep
<1> QED BY <1>1, <1>2, HookRecordsStart, HookBegins, HookPrompts, HookReconfigures DEF HookNext

\* Initially nothing was claimed.
LEMMA HookStart == HookInit => HookInv
<1> SUFFICES ASSUME HookInit PROVE HookInv
  OBVIOUS
<1>1. /\ DOMAIN hook = Hooks /\ \A h \in Hooks : hook[h].at = "idle" /\ "at" \in DOMAIN hook[h]
  BY DEF HookInit, IdleHook
<1>2. \A h \in Hooks : HookHolds(h, hook[h], files, rows) /\ ~HasClaim(hook[h])
  BY <1>1 DEF HookHolds, HasClaim, HookPhases, StopPhases, Holding
<1>3. FileFields \subseteq DOMAIN files /\ OneFile(files.state) /\ OneFile(files.backup)
  BY DEF HookInit, FileFields, OneFile
<1>4. DOMAIN rows = HookSessions /\ \A s \in HookSessions : SessionRow(rows[s])
  BY DEF HookInit, SessionRow, NoRow, RowFields
<1>5. WorldHolds(world)
  BY DEF HookInit, WorldHolds
<1>6. continued \in Seq(Continuation) /\ DOMAIN continued = {}
  BY DEF HookInit
<1>7. ClaimsHold
  BY <1>2, <1>6 DEF ClaimsHold
<1> QED BY <1>1, <1>2, <1>3, <1>4, <1>5, <1>6, <1>7 DEF HookInv

\* The invariant says how turns are continued.
LEMMA HookContinues == HookInv => HookContinuations
<1> SUFFICES ASSUME HookInv PROVE HookContinuations
  OBVIOUS
<1>1. \A i \in DOMAIN continued : continued[i] \in Continuation
  BY DEF HookInv
<1>2. \A i \in DOMAIN continued : continued[i].claimed \in BOOLEAN
  <2>1. \A x \in Continuation : x.claimed \in BOOLEAN
    BY DEF Continuation
  <2> QED BY <1>1, <2>1
<1>3. TurnContinuedOnce
  BY <1>2 DEF TurnContinuedOnce, HookInv, ClaimsHold
<1>4. SessionFrozen
  BY DEF SessionFrozen, HookInv, Frozen
<1> QED BY <1>3, <1>4 DEF HookContinuations

\* A turn is continued once unless its claim was pruned or lost, and a session is
\* answered under what it was recorded with (claim_stop, with_plugin_data_lock,
\* resolve_session_worker_config), for any number of hook processes, sessions
\* and turns and whichever of them are killed.
THEOREM TurnsContinuedOnce == HookSpec => []HookContinuations
<1>1. HookInit => HookInv
  BY HookStart
<1>2. HookInv /\ [HookNext]_hookVars => HookInv'
  BY HookStep
<1> QED BY <1>1, <1>2, HookContinues, PTL DEF HookSpec

-----------------------------------------------------------------------------
(* The main session: the inductive invariant *)

Obligations == SUBSET UNION AgentNeeds

TextRecord ==
  [kind : {"none", "prose", "malformed", "need"}, need : Obligations, waits : BOOLEAN,
   number : Nat]

EventKinds == {"delta", "item", "tool", "file", "done", "ack", "refused", "unsteerable"}
Endings == {"none", "completed", "interrupted", "failed", "cancelled"}
EventRecord ==
  [kind : EventKinds, turn : Nat, text : TextRecord, status : Endings, id : Nat]

NeedTurns ==
  [need : Obligations, waits : BOOLEAN, turn : Nat, active : BOOLEAN, tainted : BOOLEAN,
   number : Nat]

StepStates == {"resolving", "native_fallback", "resolved", "delivered", "cancelled"}
StepRecord ==
  [ordinal : Nat, need : Obligations, number : Nat, state : StepStates, tainted : BOOLEAN,
   satisfied : Obligations]

\* A turn that the server has started and that is over.
Over(s, turn) == turn <= s.turn /\ ~(s.running = TRUE /\ s.turn = turn)

\* The number of the newest message.
LastNumber(s) == 2 * s.emitted

ServerFields == {"turn", "running", "stopping", "emitted", "tools", "requests", "nextId"}

\* The requests that wait for an answer have numbers as ids.
RequestsHold(q) ==
  /\ \E S : q \in Seq(S)
  /\ \A i \in DOMAIN q : q[i].id \in Nat

ServerHolds(s) ==
  /\ ServerFields \subseteq DOMAIN s /\ RequestsHold(s.requests)
  /\ s.turn \in Nat /\ s.nextId \in Nat /\ s.running \in BOOLEAN
  /\ s.emitted \in Nat /\ LastNumber(s) \in Nat

\* What is on the wire: messages, numbered in their order, and the end of turns
\* that are over.
IsMessage(e) == e.kind \in {"delta", "item"}

EventHolds(e, s) ==
  /\ e.turn <= s.turn
  /\ IsMessage(e) => e.text.kind # "none" /\ e.text.number <= LastNumber(s)
  /\ e.kind = "done" => e.status # "none" /\ Over(s, e.turn)

WireHolds(w, s) ==
  /\ w \in Seq(EventRecord)
  /\ \A i \in DOMAIN w : EventHolds(w[i], s)
  /\ \A i, j \in DOMAIN w : i < j /\ IsMessage(w[i]) /\ IsMessage(w[j]) =>
       w[i].text.number < w[j].text.number

\* The numbers in a queue of needs go up.
InLine(queue) ==
  \A i, j \in DOMAIN queue : i < j => queue[i].number < queue[j].number

QueueHolds(queue, s) ==
  /\ queue \in Seq(NeedTurns) /\ InLine(queue)
  /\ \A i \in DOMAIN queue : queue[i].turn <= s.turn /\ queue[i].number <= LastNumber(s)

CallFields ==
  {"mode", "turn", "text", "marker", "final", "interrupt", "acked", "terminal", "violation",
   "tools", "queued", "overflow", "steerId", "result"}

\* A result that says its turn is closed.
Closes(r) == r.kind \in {"need", "final"} /\ r.needTurn.active = FALSE

\* A call knows that its turn is over when it says so, and what it holds of the
\* agent's needs is in their order: queued first, then the text being read, then
\* the result.
ReadingHolds(c, s) ==
  /\ CallFields \subseteq DOMAIN c
  /\ c.turn \in Nat /\ c.turn <= s.turn
  /\ c.text \in TextRecord /\ c.text.number <= LastNumber(s)
  /\ c.tools \in BOOLEAN /\ c.marker \in BOOLEAN
  /\ c.marker = TRUE => c.text.kind # "none"
  /\ c.mode \in {"await", "steer"} => c.marker = FALSE /\ c.text.kind = "none"
  /\ c.terminal # "none" => Over(s, c.turn)
  /\ QueueHolds(c.queued, s)
  /\ c.text.kind # "none" =>
       \A i \in DOMAIN c.queued : c.queued[i].number < c.text.number
  /\ "kind" \in DOMAIN c.result /\ c.result.needTurn \in NeedTurns
  /\ c.result.needTurn.turn <= s.turn /\ c.result.needTurn.number <= LastNumber(s)
  /\ c.mode # "returned" => c.result.kind \notin {"need", "final"}
  /\ c.result.kind = "need" =>
       \A i \in DOMAIN c.queued : c.queued[i].number < c.result.needTurn.number
  /\ Closes(c.result) => Over(s, c.turn)

\* The call holds no need earlier than this number.
NotBefore(c, number) ==
  /\ c.text.kind # "none" => number < c.text.number
  /\ \A i \in DOMAIN c.queued : number < c.queued[i].number
  /\ c.result.kind = "need" => number < c.result.needTurn.number

\* The call holds no need later than this number.
NotAfter(c, number) ==
  /\ c.text.kind # "none" => c.text.number < number
  /\ \A i \in DOMAIN c.queued : c.queued[i].number < number
  /\ c.result.kind = "need" => c.result.needTurn.number < number

LoopFields ==
  {"driver", "continues", "pc", "needTurn", "ledger", "pending", "overflow", "workers",
   "repeats", "attempted", "continued", "outcome"}

\* The loop has a need at hand that it has not recorded yet.
Limited(l) == Len(l.ledger) + 1 > MaxNeedsPerTask

Unrecorded(l) == l.pc = "need" \/ (l.pc = "interrupted" /\ Limited(l))

RowsFresh(l, log) ==
  /\ Unrecorded(l) => \A i \in DOMAIN log : log[i].number < l.needTurn.number
  /\ l.pc = "resolve" => ~Limited(l)

\* A turn that was interrupted to resolve its need has that need recorded.
ResolvesNext(l, c) == l.pc = "interrupted" /\ c.result.kind = "resolving" => ~Limited(l)

\* The loop: the recorded steps, the need at hand, the pending ones and the one a
\* steered turn came to are in the order of their numbers.
LoopHolds(l, log, s) ==
  /\ LoopFields \subseteq DOMAIN l
  /\ \E S : l.ledger \in Seq(S)
  /\ log \in Seq(StepRecord) /\ InLine(log)
  /\ \A i \in DOMAIN log : log[i].number <= l.needTurn.number
  /\ l.needTurn \in NeedTurns /\ l.needTurn.turn <= s.turn /\ l.needTurn.number <= LastNumber(s)
  /\ QueueHolds(l.pending, s)
  /\ \A i \in DOMAIN l.pending : l.needTurn.number < l.pending[i].number
  /\ "kind" \in DOMAIN l.continued /\ l.continued.needTurn \in NeedTurns
  /\ l.continued.needTurn.turn <= s.turn /\ l.continued.needTurn.number <= LastNumber(s)
  /\ l.continued.kind = "need" =>
       /\ l.needTurn.number < l.continued.needTurn.number
       /\ \A i \in DOMAIN l.pending : l.pending[i].number < l.continued.needTurn.number
  /\ l.pc \in {"start", "first"} => l.pending = <<>> /\ l.continued.kind # "need"
  /\ RowsFresh(l, log)

\* All the loop holds is earlier than what has this number.
LoopBefore(l, number) ==
  /\ l.needTurn.number < number
  /\ \A i \in DOMAIN l.pending : l.pending[i].number < number
  /\ l.continued.kind = "need" => l.continued.needTurn.number < number

\* The loop's needs come before the call's, and the call's before the unread ones.
InTurn(l, c, w) ==
  /\ NotBefore(c, l.needTurn.number)
  /\ \A i \in DOMAIN l.pending : NotBefore(c, l.pending[i].number)
  /\ l.continued.kind = "need" => NotBefore(c, l.continued.needTurn.number)
  /\ \A k \in DOMAIN w : IsMessage(w[k]) =>
       LoopBefore(l, w[k].text.number) /\ NotAfter(c, w[k].text.number)
  /\ ResolvesNext(l, c)

MainInv ==
  /\ ServerHolds(server)
  /\ WireHolds(wire, server)
  /\ ReadingHolds(call, server)
  /\ LoopHolds(loop, steps, server)
  /\ InTurn(loop, call, wire)

-----------------------------------------------------------------------------
(* The main session: what grows and what stays *)

\* The server goes on: turns that are over stay over.
ServerGoes(s, t) ==
  /\ ServerHolds(t)
  /\ s.turn <= t.turn /\ LastNumber(s) <= LastNumber(t)
  /\ \A u \in Nat : Over(s, u) => Over(t, u)

LEMMA WireLater ==
  ASSUME NEW s, NEW t, NEW w, ServerHolds(s), ServerGoes(s, t), WireHolds(w, s)
  PROVE  WireHolds(w, t)
<1>1. /\ s.turn \in Nat /\ t.turn \in Nat /\ LastNumber(s) \in Nat /\ LastNumber(t) \in Nat
      /\ s.turn <= t.turn /\ LastNumber(s) <= LastNumber(t)
  BY DEF ServerHolds, ServerGoes
<1>2. ASSUME NEW i \in DOMAIN w PROVE EventHolds(w[i], t)
  <2>1. w[i] \in EventRecord /\ EventHolds(w[i], s)
    BY DEF WireHolds
  <2>2. w[i].turn \in Nat /\ w[i].text.number \in Nat
    BY <2>1 DEF EventRecord, TextRecord
  <2> QED BY <1>1, <2>1, <2>2 DEF EventHolds, ServerGoes
<1> QED BY <1>2 DEF WireHolds

LEMMA QueueLater ==
  ASSUME NEW s, NEW t, NEW queue, ServerHolds(s), ServerGoes(s, t), QueueHolds(queue, s)
  PROVE  QueueHolds(queue, t)
<1>1. /\ s.turn \in Nat /\ t.turn \in Nat /\ LastNumber(s) \in Nat /\ LastNumber(t) \in Nat
      /\ s.turn <= t.turn /\ LastNumber(s) <= LastNumber(t)
  BY DEF ServerHolds, ServerGoes
<1>2. ASSUME NEW i \in DOMAIN queue PROVE queue[i].turn <= t.turn /\ queue[i].number <= LastNumber(t)
  <2>1. queue[i] \in NeedTurns /\ queue[i].turn <= s.turn /\ queue[i].number <= LastNumber(s)
    BY DEF QueueHolds
  <2>2. queue[i].turn \in Nat /\ queue[i].number \in Nat
    BY <2>1 DEF NeedTurns
  <2> QED BY <1>1, <2>1, <2>2
<1> QED BY <1>2 DEF QueueHolds

LEMMA CallLater ==
  ASSUME NEW s, NEW t, NEW c, ServerHolds(s), ServerGoes(s, t), ReadingHolds(c, s)
  PROVE  ReadingHolds(c, t)
<1>1. /\ s.turn \in Nat /\ t.turn \in Nat /\ LastNumber(s) \in Nat /\ LastNumber(t) \in Nat
      /\ s.turn <= t.turn /\ LastNumber(s) <= LastNumber(t)
  BY DEF ServerHolds, ServerGoes
<1>2. QueueHolds(c.queued, t)
  BY QueueLater DEF ReadingHolds
<1>3. /\ c.turn \in Nat /\ c.text.number \in Nat
      /\ c.result.needTurn.turn \in Nat /\ c.result.needTurn.number \in Nat
  BY DEF ReadingHolds, TextRecord, NeedTurns
<1>4. c.turn <= t.turn /\ c.text.number <= LastNumber(t)
      /\ c.result.needTurn.turn <= t.turn /\ c.result.needTurn.number <= LastNumber(t)
  BY <1>1, <1>3 DEF ReadingHolds
<1>5. (c.terminal # "none" => Over(t, c.turn)) /\ (Closes(c.result) => Over(t, c.turn))
  BY <1>3 DEF ReadingHolds, ServerGoes
<1> QED BY <1>2, <1>4, <1>5 DEF ReadingHolds

LEMMA LoopLater ==
  ASSUME NEW s, NEW t, NEW l, NEW log, ServerHolds(s), ServerGoes(s, t), LoopHolds(l, log, s)
  PROVE  LoopHolds(l, log, t)
<1>1. /\ s.turn \in Nat /\ t.turn \in Nat /\ LastNumber(s) \in Nat /\ LastNumber(t) \in Nat
      /\ s.turn <= t.turn /\ LastNumber(s) <= LastNumber(t)
  BY DEF ServerHolds, ServerGoes
<1>2. QueueHolds(l.pending, t)
  BY QueueLater DEF LoopHolds
<1>3. /\ l.needTurn.turn \in Nat /\ l.needTurn.number \in Nat
      /\ l.continued.needTurn.turn \in Nat /\ l.continued.needTurn.number \in Nat
  BY DEF LoopHolds, NeedTurns
<1>4. l.needTurn.turn <= t.turn /\ l.needTurn.number <= LastNumber(t)
      /\ l.continued.needTurn.turn <= t.turn /\ l.continued.needTurn.number <= LastNumber(t)
  BY <1>1, <1>3 DEF LoopHolds
<1> QED BY <1>2, <1>4 DEF LoopHolds

LEMMA ServerStays == ASSUME NEW s, ServerHolds(s) PROVE ServerGoes(s, s)
BY DEF ServerHolds, ServerGoes

LEMMA RequestSent ==
  ASSUME NEW q, RequestsHold(q), NEW x, x.id \in Nat PROVE RequestsHold(Append(q, x))
<1>1. PICK S : q \in Seq(S)
  BY DEF RequestsHold
<1>2. Append(q, x) \in Seq(S \cup {x})
  BY <1>1
<1>3. /\ Len(q) \in Nat /\ DOMAIN q = 1 .. Len(q)
      /\ \A i \in DOMAIN Append(q, x) : (i \in DOMAIN q /\ Append(q, x)[i] = q[i])
                                         \/ Append(q, x)[i] = x
  BY <1>1
<1>4. \A i \in DOMAIN Append(q, x) : Append(q, x)[i].id \in Nat
  BY <1>3 DEF RequestsHold
<1> QED BY <1>2, <1>4 DEF RequestsHold

LEMMA RequestTaken ==
  ASSUME NEW q, RequestsHold(q), q # <<>>
  PROVE  RequestsHold(Tail(q)) /\ Head(q).id \in Nat
<1>1. PICK S : q \in Seq(S)
  BY DEF RequestsHold
<1>2. Tail(q) \in Seq(S) /\ Head(q) = q[1] /\ 1 \in DOMAIN q
      /\ \A i \in DOMAIN Tail(q) : i + 1 \in DOMAIN q /\ Tail(q)[i] = q[i + 1]
  BY <1>1
<1> QED BY <1>2 DEF RequestsHold

\* A server that changes neither its turn nor what it has emitted.
LEMMA ServerQuiet ==
  ASSUME NEW s, NEW t, ServerHolds(s), ServerFields \subseteq DOMAIN t, t.nextId \in Nat,
         RequestsHold(t.requests),
         t.turn = s.turn, t.running = s.running, t.emitted = s.emitted
  PROVE  ServerGoes(s, t)
BY DEF ServerHolds, ServerGoes, Over, LastNumber

\* send_request.
LEMMA SendingGoes ==
  ASSUME ServerHolds(server), NEW kind, NEW turn, Sending(kind, turn)
  PROVE  ServerGoes(server, server')
<1> DEFINE x == [kind |-> kind, turn |-> turn, id |-> server.nextId]
<1>1. /\ ServerFields \subseteq DOMAIN server' /\ server'.nextId = server.nextId + 1
      /\ server'.turn = server.turn /\ server'.running = server.running
      /\ server'.emitted = server.emitted /\ server'.requests = Append(server.requests, x)
  BY DEF Sending, ServerHolds, ServerFields
<1>2. x.id \in Nat
  BY DEF ServerHolds
<1> HIDE DEF x
<1>3. RequestsHold(server'.requests)
  BY <1>1, <1>2, RequestSent DEF ServerHolds
<1>4. server'.nextId \in Nat
  BY <1>1 DEF ServerHolds
<1> QED BY <1>1, <1>3, <1>4, ServerQuiet

-----------------------------------------------------------------------------
(* The main session: what a call does with what it reads *)

\* The call holds the needs it held, and those read now.
HoldsNo(c, d, M) ==
  /\ \A n \in Nat : NotBefore(c, n) /\ (\A m \in M : n < m) => NotBefore(d, n)
  /\ \A n \in Nat : NotAfter(c, n) /\ (\A m \in M : m < n) => NotAfter(d, n)
  /\ d.result.kind = "resolving" => c.result.kind = "resolving"

CallGoes(c, d, M, s) == ReadingHolds(d, s) /\ HoldsNo(c, d, M)

LEMMA GoesMore ==
  ASSUME NEW c, NEW d, NEW s, NEW M, CallGoes(c, d, {}, s)
  PROVE  CallGoes(c, d, M, s)
BY DEF CallGoes, HoldsNo

LEMMA GoesOn ==
  ASSUME NEW c, NEW d, NEW e, NEW s, NEW M, CallGoes(c, d, M, s), CallGoes(d, e, {}, s)
  PROVE  CallGoes(c, e, M, s)
BY DEF CallGoes, HoldsNo

LEMMA GoesNowhere ==
  ASSUME NEW c, NEW s, ReadingHolds(c, s) PROVE CallGoes(c, c, {}, s)
BY DEF CallGoes, HoldsNo

\* The call keeps the text, the queue and the result it has.
LEMMA CallKeeps ==
  ASSUME NEW c, NEW d, NEW s, ServerHolds(s), ReadingHolds(c, s), CallFields \subseteq DOMAIN d,
         d.turn = c.turn, d.text = c.text, d.queued = c.queued, d.tools \in BOOLEAN,
         d.marker \in BOOLEAN, d.marker = TRUE => d.text.kind # "none",
         d.mode \in {"await", "steer"} => d.marker = FALSE /\ d.text.kind = "none",
         d.terminal # "none" => Over(s, d.turn),
         c.mode # "returned", d.mode # "returned",
         \/ d.result = c.result
         \/ /\ "kind" \in DOMAIN d.result
            /\ d.result.kind \notin {"need", "final", "resolving"}
            /\ d.result.needTurn = NoNeedTurn
  PROVE  CallGoes(c, d, {}, s)
<1>1. c.result.kind \notin {"need", "final"}
  BY DEF ReadingHolds
<1>2. NoNeedTurn \in NeedTurns /\ NoNeedTurn.turn = 0 /\ NoNeedTurn.number = 0
  BY DEF NoNeedTurn, NeedTurns, Obligations
<1>3. c.turn \in Nat /\ c.text.number \in Nat /\ c.turn <= s.turn /\ c.text.number <= LastNumber(s)
  BY DEF ReadingHolds, TextRecord
<1>4. HoldsNo(c, d, {})
  BY <1>1 DEF HoldsNo, NotBefore, NotAfter
<1>5. d.result.kind \notin {"need", "final"} /\ "kind" \in DOMAIN d.result
      /\ d.result.needTurn \in NeedTurns
      /\ (d.result.needTurn = NoNeedTurn \/ d.result = c.result)
  BY <1>1, <1>2 DEF ReadingHolds
<1>6. d.result.needTurn.turn <= s.turn /\ d.result.needTurn.number <= LastNumber(s)
  BY <1>2, <1>5 DEF ReadingHolds, ServerHolds, LastNumber
<1> QED BY <1>1, <1>3, <1>4, <1>5, <1>6 DEF ReadingHolds, CallGoes, Closes

\* A call that returns without a need.
LEMMA ReturnsNothing ==
  ASSUME NEW c, NEW s, ServerHolds(s), ReadingHolds(c, s), NEW r,
         "kind" \in DOMAIN r, r.kind \notin {"need", "final", "resolving"},
         r.needTurn = NoNeedTurn
  PROVE  CallGoes(c, Return(c, r), {}, s)
<1> DEFINE d == Return(c, r)
<1>1. /\ CallFields \subseteq DOMAIN d /\ d.mode = "returned" /\ d.result = r
      /\ d.turn = c.turn /\ d.text = c.text /\ d.queued = c.queued /\ d.tools = c.tools
      /\ d.marker = c.marker /\ d.terminal = c.terminal
  BY DEF Return, ReadingHolds, CallFields
<1>2. NoNeedTurn \in NeedTurns /\ NoNeedTurn.turn = 0 /\ NoNeedTurn.number = 0
  BY DEF NoNeedTurn, NeedTurns, Obligations
<1> HIDE DEF d
<1>3. HoldsNo(c, d, {})
  BY <1>1 DEF HoldsNo, NotBefore, NotAfter
<1>4. 0 <= s.turn /\ 0 <= LastNumber(s)
  BY DEF ServerHolds, LastNumber
<1>5. ReadingHolds(d, s)
  BY <1>1, <1>2, <1>4 DEF ReadingHolds, Closes
<1> QED BY <1>3, <1>5 DEF CallGoes, d

LEMMA FailedIsNothing ==
  ASSUME NEW reason PROVE Failed(reason).kind = reason /\ Failed(reason).needTurn = NoNeedTurn
                          /\ "kind" \in DOMAIN Failed(reason)
BY DEF Failed, Result

\* A call that fails.
LEMMA ReturnsFailed ==
  ASSUME NEW c, NEW s, ServerHolds(s), ReadingHolds(c, s), NEW reason,
         reason \notin {"need", "final", "resolving"}
  PROVE  CallGoes(c, Return(c, Failed(reason)), {}, s)
BY ReturnsNothing, FailedIsNothing

\* The MainNeedTurn of the text that a call holds.
LEMMA NeedTurnFields ==
  ASSUME NEW c, NEW s, ReadingHolds(c, s), NEW active \in BOOLEAN
  PROVE  LET n == NeedTurnOf(c, active) IN
         /\ n \in NeedTurns /\ n.turn = c.turn /\ n.number = c.text.number /\ n.active = active
BY DEF NeedTurnOf, ReadingHolds, NeedTurns, TextRecord

\* A call that returns the need it has read, with its turn still active or over.
LEMMA ReturnsNeed ==
  ASSUME NEW c, NEW s, ServerHolds(s), ReadingHolds(c, s), c.text.kind # "none",
         NEW active \in BOOLEAN, active = FALSE => Over(s, c.turn)
  PROVE  CallGoes(c, Return(c, Result("need", NeedTurnOf(c, active))), {}, s)
<1> DEFINE n == NeedTurnOf(c, active)
           r == Result("need", n)
           d == Return(c, r)
<1>1. /\ CallFields \subseteq DOMAIN d /\ d.mode = "returned" /\ d.result = r
      /\ d.turn = c.turn /\ d.text = c.text /\ d.queued = c.queued /\ d.tools = c.tools
      /\ d.marker = c.marker /\ d.terminal = c.terminal
  BY DEF Return, ReadingHolds, CallFields
<1>2. "kind" \in DOMAIN r /\ r.kind = "need" /\ r.needTurn = n
  BY DEF Result
<1>3. n \in NeedTurns /\ n.turn = c.turn /\ n.number = c.text.number /\ n.active = active
  BY NeedTurnFields
<1> HIDE DEF d, r, n
<1>4. HoldsNo(c, d, {})
  BY <1>1, <1>2, <1>3 DEF HoldsNo, NotBefore, NotAfter
<1>5. ReadingHolds(d, s)
  BY <1>1, <1>2, <1>3 DEF ReadingHolds, Closes
<1> QED BY <1>4, <1>5 DEF CallGoes, d, r, n

\* A call that returns the answer once its turn is over.
LEMMA ReturnsFinal ==
  ASSUME NEW c, NEW s, ServerHolds(s), ReadingHolds(c, s), Over(s, c.turn)
  PROVE  CallGoes(c, Return(c, Result("final", NoNeedTurn)), {}, s)
<1> DEFINE r == Result("final", NoNeedTurn)
           d == Return(c, r)
<1>1. /\ CallFields \subseteq DOMAIN d /\ d.mode = "returned" /\ d.result = r
      /\ d.turn = c.turn /\ d.text = c.text /\ d.queued = c.queued /\ d.tools = c.tools
      /\ d.marker = c.marker /\ d.terminal = c.terminal
  BY DEF Return, ReadingHolds, CallFields
<1>2. "kind" \in DOMAIN r /\ r.kind = "final" /\ r.needTurn = NoNeedTurn
  BY DEF Result
<1>3. NoNeedTurn \in NeedTurns /\ NoNeedTurn.turn = 0 /\ NoNeedTurn.number = 0
  BY DEF NoNeedTurn, NeedTurns, Obligations
<1> HIDE DEF d, r
<1>4. HoldsNo(c, d, {})
  BY <1>1, <1>2 DEF HoldsNo, NotBefore, NotAfter
<1>5. ReadingHolds(d, s)
  BY <1>1, <1>2, <1>3 DEF ReadingHolds, Closes, ServerHolds
<1> QED BY <1>4, <1>5 DEF CallGoes, d, r

\* What a reader returns when its turn is over.
LEMMA TurnReturns ==
  ASSUME NEW c, NEW s, ServerHolds(s), ReadingHolds(c, s), c.terminal # "none"
  PROVE  CallGoes(c, Return(c, TurnResult(c)), {}, s)
<1>1. Over(s, c.turn)
  BY DEF ReadingHolds
<1>2. CASE TurnResult(c) = Result("need", NeedTurnOf(c, FALSE)) /\ c.text.kind = "need"
  BY <1>1, <1>2, ReturnsNeed
<1>3. CASE TurnResult(c) = Result("final", NoNeedTurn)
  BY <1>1, <1>3, ReturnsFinal
<1>4. CASE \E reason \in {"violation", "turn failed", "malformed need", "no need",
                          "no final message"} : TurnResult(c) = Failed(reason)
  BY <1>4, ReturnsFailed
<1> QED BY <1>2, <1>3, <1>4 DEF TurnResult

\* finish_queued_needs changes no more than whether the turn goes on.
LEMMA FinishKeeps ==
  ASSUME NEW c, NEW s, ServerHolds(s), ReadingHolds(c, s), NEW active \in BOOLEAN
  PROVE  /\ CallGoes(c, FinishQueuedNeeds(c, active), {}, s)
         /\ FinishQueuedNeeds(c, active).text = c.text
         /\ FinishQueuedNeeds(c, active).turn = c.turn
         /\ FinishQueuedNeeds(c, active).tools = c.tools
<1> DEFINE q == [k \in DOMAIN c.queued |-> [c.queued[k] EXCEPT !.active = active]]
           d == FinishQueuedNeeds(c, active)
<1>1. /\ CallFields \subseteq DOMAIN d /\ d.mode = c.mode /\ d.result = c.result
      /\ d.turn = c.turn /\ d.text = c.text /\ d.queued = q /\ d.tools = c.tools
      /\ d.marker = c.marker /\ d.terminal = c.terminal
  BY DEF FinishQueuedNeeds, ReadingHolds, CallFields
<1>2. QueueHolds(c.queued, s) /\ c.queued \in Seq(NeedTurns)
  BY DEF ReadingHolds, QueueHolds
<1>3. ASSUME NEW k \in DOMAIN c.queued
      PROVE  /\ q[k] \in NeedTurns /\ q[k].turn = c.queued[k].turn
             /\ q[k].number = c.queued[k].number
  <2>1. c.queued[k] \in NeedTurns
    BY <1>2
  <2>2. q[k] = [c.queued[k] EXCEPT !.active = active]
    OBVIOUS
  <2> QED BY <2>1, <2>2 DEF NeedTurns
<1>4. DOMAIN q = DOMAIN c.queued /\ DOMAIN c.queued = 1 .. Len(c.queued) /\ Len(c.queued) \in Nat
  BY <1>2
<1>5. q \in Seq(NeedTurns)
  <2>1. q \in [1 .. Len(c.queued) -> NeedTurns]
    BY <1>3, <1>4
  <2> QED BY <1>4, <2>1
<1> HIDE DEF d, q
<1>6. QueueHolds(q, s)
  BY <1>2, <1>3, <1>4, <1>5 DEF QueueHolds, InLine
<1>7. HoldsNo(c, d, {})
  BY <1>1, <1>3, <1>4 DEF HoldsNo, NotBefore, NotAfter
<1>8. ReadingHolds(d, s)
  BY <1>1, <1>3, <1>4, <1>6 DEF ReadingHolds
<1> QED BY <1>1, <1>7, <1>8 DEF CallGoes, d

LEMMA ReturnsStart ==
  ASSUME NEW c, NEW s, ServerHolds(s), ReadingHolds(c, s)
  PROVE  CallGoes(c, DeliveredByStart(c), {}, s)
<1> DEFINE d == FinishQueuedNeeds(c, FALSE)
           r == Result("start", NoNeedTurn)
<1>1. CallGoes(c, d, {}, s) /\ ReadingHolds(d, s)
  BY FinishKeeps DEF CallGoes
<1>2. "kind" \in DOMAIN r /\ r.kind = "start" /\ r.needTurn = NoNeedTurn
  BY DEF Result
<1> HIDE DEF d, r
<1>3. CallGoes(d, Return(d, r), {}, s)
  BY <1>1, <1>2, ReturnsNothing
<1> QED BY <1>1, <1>3, GoesOn DEF DeliveredByStart, d, r

\* The steered turn came to a need.
LEMMA SteeredToNeed ==
  ASSUME NEW c, NEW s, ServerHolds(s), ReadingHolds(c, s), c.text.kind # "none",
         NEW active \in BOOLEAN, active = FALSE => Over(s, c.turn)
  PROVE  CallGoes(c, Steered(c, Result("need", NeedTurnOf(c, active))), {}, s)
<1> DEFINE r == Result("need", NeedTurnOf(c, active))
           d == FinishQueuedNeeds(c, active)
<1>1. CallGoes(c, d, {}, s) /\ ReadingHolds(d, s) /\ d.text = c.text /\ d.turn = c.turn
      /\ d.tools = c.tools
  BY FinishKeeps DEF CallGoes
<1>2. NeedTurnOf(d, active) = NeedTurnOf(c, active)
  BY <1>1 DEF NeedTurnOf
<1>3. r.needTurn.active = active
  BY NeedTurnFields DEF Result
<1> HIDE DEF d
<1>4. CallGoes(d, Return(d, Result("need", NeedTurnOf(d, active))), {}, s)
  BY <1>1, ReturnsNeed
<1>5. Steered(c, r) = Return(d, r)
  BY <1>3 DEF Steered, d
<1> QED BY <1>1, <1>2, <1>4, <1>5, GoesOn

\* The steered turn came to anything else.
LEMMA SteeredElse ==
  ASSUME NEW c, NEW s, ServerHolds(s), ReadingHolds(c, s), NEW r, r.needTurn = NoNeedTurn,
         \/ "kind" \in DOMAIN r /\ r.kind \notin {"need", "final", "resolving"}
         \/ r = Result("final", NoNeedTurn) /\ Over(s, c.turn)
  PROVE  CallGoes(c, Steered(c, r), {}, s)
<1> DEFINE d == FinishQueuedNeeds(c, FALSE)
<1>1. CallGoes(c, d, {}, s) /\ ReadingHolds(d, s) /\ d.turn = c.turn
  BY FinishKeeps DEF CallGoes
<1>2. Steered(c, r) = Return(d, r)
  <2>1. r.needTurn.active = FALSE
    BY DEF NoNeedTurn
  <2> QED BY <2>1 DEF Steered
<1> HIDE DEF d
<1>3. CallGoes(d, Return(d, r), {}, s)
  BY <1>1, ReturnsNothing, ReturnsFinal
<1> QED BY <1>1, <1>2, <1>3, GoesOn

LEMMA ActiveReturns ==
  ASSUME NEW c, NEW s, ServerHolds(s), ReadingHolds(c, s), c.terminal # "none"
  PROVE  CallGoes(c, Steered(c, ActiveResult(c)), {}, s)
<1>1. Over(s, c.turn)
  BY DEF ReadingHolds
<1>2. CASE ActiveResult(c) = Result("need", NeedTurnOf(c, FALSE)) /\ c.marker = TRUE
  <2>1. c.text.kind # "none"
    BY <1>2 DEF ReadingHolds
  <2> QED BY <1>1, <1>2, <2>1, SteeredToNeed
<1>3. CASE ActiveResult(c) = Result("final", NoNeedTurn)
  <2>1. Result("final", NoNeedTurn).needTurn = NoNeedTurn
    BY DEF Result
  <2> QED BY <1>1, <1>3, <2>1, SteeredElse
<1>4. CASE \E reason \in {"turn failed", "no final message"} : ActiveResult(c) = Failed(reason)
  BY <1>4, SteeredElse, FailedIsNothing
<1>5. c.marker = TRUE \/ c.marker = FALSE
  BY DEF ReadingHolds
<1> QED BY <1>2, <1>3, <1>4, <1>5 DEF ActiveResult

\* The text that a call holds is replaced or grows by what it has read.
LEMMA CallReads ==
  ASSUME NEW c, NEW d, NEW s, NEW M, ServerHolds(s), ReadingHolds(c, s),
         CallFields \subseteq DOMAIN d,
         d.turn = c.turn, d.queued = c.queued, d.tools = c.tools, d.mode = c.mode,
         d.terminal = c.terminal, d.result = c.result, c.mode # "returned",
         d.marker = c.marker, c.mode \notin {"await", "steer"},
         d.text \in TextRecord, d.text.kind # "none", M \subseteq Nat,
         \/ c.text.kind # "none" /\ d.text.number = c.text.number
         \/ d.text.number \in M,
         \A m \in M : m <= LastNumber(s) /\ NotAfter(c, m)
  PROVE  CallGoes(c, d, M, s)
<1>1. c.result.kind \notin {"need", "final"}
  BY DEF ReadingHolds
<1>2. HoldsNo(c, d, M)
  BY <1>1 DEF HoldsNo, NotBefore, NotAfter
<1>3. d.text.number <= LastNumber(s)
  BY DEF ReadingHolds
<1>4. \A i \in DOMAIN d.queued : d.queued[i].number < d.text.number
  BY DEF ReadingHolds, NotAfter
<1>5. ReadingHolds(d, s)
  BY <1>1, <1>3, <1>4 DEF ReadingHolds, Closes
<1> QED BY <1>2, <1>5 DEF CallGoes

\* append_bounded keeps one of the two numbers.
LEMMA AppendedText ==
  ASSUME NEW buffer \in TextRecord, NEW text \in TextRecord, text.kind # "none"
  PROVE  LET t == Appended(buffer, text) IN
         /\ t \in TextRecord /\ t.kind # "none"
         /\ t.number = text.number \/ (buffer.kind # "none" /\ t.number = buffer.number)
<1>1. Malformed(text.number) \in TextRecord /\ Malformed(text.number).number = text.number
      /\ Malformed(text.number).kind = "malformed"
  BY DEF Malformed, TextRecord, Obligations
<1> QED BY <1>1 DEF Appended

-----------------------------------------------------------------------------
(* The main session: the steps of a reader *)

LEMMA QueueElements ==
  ASSUME NEW queue \in Seq(NeedTurns), NEW i \in DOMAIN queue
  PROVE  queue[i] \in NeedTurns /\ queue[i].number \in Nat /\ queue[i].turn \in Nat
<1>1. queue[i] \in NeedTurns
  OBVIOUS
<1> QED BY <1>1 DEF NeedTurns

LEMMA WireElements ==
  ASSUME NEW w \in Seq(EventRecord), NEW i \in DOMAIN w
  PROVE  w[i] \in EventRecord /\ w[i].text \in TextRecord /\ w[i].text.number \in Nat
<1>1. w[i] \in EventRecord
  OBVIOUS
<1>2. w[i].text \in TextRecord
  BY <1>1 DEF EventRecord
<1> QED BY <1>1, <1>2 DEF TextRecord

ReadNow(e) == IF IsMessage(e) THEN {e.text.number} ELSE {}

\* The event at hand.
LEMMA HeadHolds ==
  ASSUME MainInv, wire # <<>>
  PROVE  /\ Head(wire) \in EventRecord /\ EventHolds(Head(wire), server)
         /\ Tail(wire) \in Seq(EventRecord) /\ Len(Tail(wire)) = Len(wire) - 1
         /\ \A i \in DOMAIN Tail(wire) : i + 1 \in DOMAIN wire /\ Tail(wire)[i] = wire[i + 1]
         /\ ReadNow(Head(wire)) \subseteq Nat
         /\ \A m \in ReadNow(Head(wire)) :
              m <= LastNumber(server) /\ NotAfter(call, m) /\ LoopBefore(loop, m)
<1>1. wire \in Seq(EventRecord) /\ \A i \in DOMAIN wire : EventHolds(wire[i], server)
  BY DEF MainInv, WireHolds
<1>2. Head(wire) = wire[1] /\ 1 \in DOMAIN wire
  BY <1>1
<1>3. Head(wire) \in EventRecord /\ EventHolds(Head(wire), server)
  BY <1>1, <1>2
<1>4. ReadNow(Head(wire)) \subseteq Nat
  BY <1>3 DEF ReadNow, EventRecord, TextRecord
<1>5. \A m \in ReadNow(Head(wire)) :
        m <= LastNumber(server) /\ NotAfter(call, m) /\ LoopBefore(loop, m)
  BY <1>2, <1>3 DEF ReadNow, EventHolds, MainInv, InTurn
<1>6. /\ Tail(wire) \in Seq(EventRecord) /\ Len(Tail(wire)) = Len(wire) - 1
      /\ \A i \in DOMAIN Tail(wire) : i + 1 \in DOMAIN wire /\ Tail(wire)[i] = wire[i + 1]
  BY <1>1
<1> QED BY <1>3, <1>4, <1>5, <1>6

LEMMA ReaderMoves ==
  ASSUME MainInv, NEW M, ServerGoes(server, server'), UNCHANGED <<loop, steps>>,
         CallGoes(call, call', M, server),
         \/ wire' = wire /\ M = {}
         \/ wire # <<>> /\ wire' = Tail(wire) /\ M = ReadNow(Head(wire))
  PROVE  MainInv'
<1>1. ServerHolds(server) /\ ServerHolds(server')
  BY DEF MainInv, ServerGoes
<1>2. ReadingHolds(call', server') /\ LoopHolds(loop', steps', server')
  BY <1>1, CallLater, LoopLater DEF MainInv, CallGoes
<1>3. /\ WireHolds(wire', server)
      /\ \A m \in M : m \in Nat /\ LoopBefore(loop, m)
      /\ \A k \in DOMAIN wire' : IsMessage(wire'[k]) =>
           /\ LoopBefore(loop, wire'[k].text.number) /\ NotAfter(call, wire'[k].text.number)
           /\ \A m \in M : m < wire'[k].text.number
  <2>1. CASE wire' = wire /\ M = {}
    BY <2>1 DEF MainInv, InTurn
  <2>2. CASE wire # <<>> /\ wire' = Tail(wire) /\ M = ReadNow(Head(wire))
    <3>1. wire \in Seq(EventRecord) /\ Head(wire) = wire[1] /\ 1 \in DOMAIN wire
      BY <2>2 DEF MainInv, WireHolds
    <3>2. /\ Tail(wire) \in Seq(EventRecord)
          /\ \A i \in DOMAIN Tail(wire) : i + 1 \in DOMAIN wire /\ Tail(wire)[i] = wire[i + 1]
                                          /\ i \in Nat \ {0}
      <4>1. Tail(wire) \in Seq(EventRecord) /\ \A i \in DOMAIN Tail(wire) :
              i + 1 \in DOMAIN wire /\ Tail(wire)[i] = wire[i + 1]
        BY <2>2, HeadHolds
      <4>2. DOMAIN Tail(wire) = 1 .. Len(Tail(wire)) /\ Len(Tail(wire)) \in Nat
        BY <4>1
      <4> QED BY <4>1, <4>2
    <3>3. WireHolds(wire', server)
      <4>1. WireHolds(wire, server)
        BY DEF MainInv
      <4>2. \A i \in DOMAIN wire' : EventHolds(wire'[i], server)
        BY <2>2, <3>2, <4>1 DEF WireHolds
      <4>3. ASSUME NEW i \in DOMAIN wire', NEW j \in DOMAIN wire', i < j,
                   IsMessage(wire'[i]), IsMessage(wire'[j])
            PROVE  wire'[i].text.number < wire'[j].text.number
        <5>1. i + 1 < j + 1 /\ i + 1 \in DOMAIN wire /\ j + 1 \in DOMAIN wire
          BY <2>2, <3>2, <4>3
        <5> QED BY <2>2, <3>2, <4>1, <4>3, <5>1 DEF WireHolds
      <4> QED BY <2>2, <3>2, <4>2, <4>3 DEF WireHolds
    <3>4. \A k \in DOMAIN wire' : IsMessage(wire'[k]) =>
            LoopBefore(loop, wire'[k].text.number) /\ NotAfter(call, wire'[k].text.number)
      BY <2>2, <3>2 DEF MainInv, InTurn
    <3>5. \A k \in DOMAIN wire' : IsMessage(wire'[k]) => \A m \in M : m < wire'[k].text.number
      BY <2>2, <3>1, <3>2 DEF MainInv, WireHolds, ReadNow
    <3> QED BY <2>2, <3>3, <3>4, <3>5, HeadHolds
  <2> QED BY <2>1, <2>2
<1>4. WireHolds(wire', server')
  BY <1>1, <1>3, WireLater
<1>5. \A k \in DOMAIN wire' : wire'[k].text.number \in Nat
  BY <1>3, WireElements DEF WireHolds
<1>6. /\ loop.needTurn.number \in Nat /\ loop.continued.needTurn.number \in Nat
      /\ \A i \in DOMAIN loop.pending : loop.pending[i].number \in Nat
  <2>1. /\ loop.pending \in Seq(NeedTurns)
        /\ loop.needTurn \in NeedTurns /\ loop.continued.needTurn \in NeedTurns
    BY DEF MainInv, LoopHolds, QueueHolds
  <2>2. \A x \in NeedTurns : x.number \in Nat
    BY DEF NeedTurns
  <2> QED BY <2>1, <2>2, QueueElements
<1>7. NotBefore(call', loop.needTurn.number)
  BY <1>3, <1>6 DEF CallGoes, HoldsNo, MainInv, InTurn, LoopBefore
<1>8. \A i \in DOMAIN loop.pending : NotBefore(call', loop.pending[i].number)
  BY <1>3, <1>6 DEF CallGoes, HoldsNo, MainInv, InTurn, LoopBefore
<1>9. loop.continued.kind = "need" => NotBefore(call', loop.continued.needTurn.number)
  BY <1>3, <1>6 DEF CallGoes, HoldsNo, MainInv, InTurn, LoopBefore
<1>10. \A k \in DOMAIN wire' : IsMessage(wire'[k]) => NotAfter(call', wire'[k].text.number)
  BY <1>3, <1>5 DEF CallGoes, HoldsNo
<1>11. ResolvesNext(loop', call')
  BY DEF CallGoes, HoldsNo, MainInv, InTurn, ResolvesNext
<1> HIDE DEF NotBefore, NotAfter, LoopBefore, IsMessage, ResolvesNext
<1>12. InTurn(loop', call', wire')
  BY <1>3, <1>7, <1>8, <1>9, <1>10, <1>11 DEF InTurn
<1> QED BY <1>1, <1>2, <1>4, <1>12 DEF MainInv

LEMMA MainParts == MainInv => ServerHolds(server) /\ ReadingHolds(call, server)
BY DEF MainInv

LEMMA SentOrNot ==
  ASSUME ServerHolds(server), NEW kind, NEW turn, UNCHANGED server \/ Sending(kind, turn)
  PROVE  ServerGoes(server, server')
<1>1. CASE UNCHANGED server
  BY <1>1, ServerStays
<1>2. CASE Sending(kind, turn)
  BY <1>2, SendingGoes
<1> QED BY <1>1, <1>2

LEMMA MarkerRead ==
  ASSUME ServerHolds(server), NEW c, NEW interrupts, ReadingHolds(c, server),
         c.text.kind # "none", c.mode \notin {"returned", "await", "steer"},
         ReadMarker(c, interrupts)
  PROVE  CallGoes(c, call', {}, server) /\ ServerGoes(server, server')
<1> DEFINE d == [c EXCEPT !.marker = TRUE]
           e == [c EXCEPT !.marker = TRUE, !.interrupt = server.nextId, !.acked = FALSE]
<1>1. CallGoes(c, d, {}, server) /\ d.text = c.text /\ d.turn = c.turn /\ d.tools = c.tools
  <2>1. /\ CallFields \subseteq DOMAIN d /\ d.turn = c.turn /\ d.text = c.text
        /\ d.queued = c.queued /\ d.tools = c.tools /\ d.marker = TRUE /\ d.mode = c.mode
        /\ d.terminal = c.terminal /\ d.result = c.result
    BY DEF ReadingHolds, CallFields
  <2> HIDE DEF d
  <2>2. d.tools \in BOOLEAN /\ (d.terminal # "none" => Over(server, d.turn))
    BY <2>1 DEF ReadingHolds
  <2> QED BY <2>1, <2>2, CallKeeps
<1>2. CallGoes(c, e, {}, server)
  <2>1. /\ CallFields \subseteq DOMAIN e /\ e.turn = c.turn /\ e.text = c.text
        /\ e.queued = c.queued /\ e.tools = c.tools /\ e.marker = TRUE /\ e.mode = c.mode
        /\ e.terminal = c.terminal /\ e.result = c.result
    BY DEF ReadingHolds, CallFields
  <2> HIDE DEF e
  <2>2. e.tools \in BOOLEAN /\ (e.terminal # "none" => Over(server, e.turn))
    BY <2>1 DEF ReadingHolds
  <2> QED BY <2>1, <2>2, CallKeeps
<1>3. NeedTurnOf(d, TRUE) = NeedTurnOf(c, TRUE)
  BY <1>1 DEF NeedTurnOf
<1>4. ReadingHolds(d, server)
  BY <1>1 DEF CallGoes
<1>5. /\ \/ call' = Return(d, Failed("violation"))
         \/ call' = Return(d, Result("need", NeedTurnOf(c, TRUE)))
         \/ call' = e
         \/ call' = d
      /\ UNCHANGED server \/ Sending("interrupt", c.turn)
  BY DEF ReadMarker
<1> HIDE DEF d, e
<1>6. CallGoes(d, Return(d, Failed("violation")), {}, server)
  BY <1>4, ReturnsFailed
<1>7. CallGoes(d, Return(d, Result("need", NeedTurnOf(d, TRUE))), {}, server)
  BY <1>1, <1>4, ReturnsNeed
<1> QED BY <1>1, <1>2, <1>3, <1>5, <1>6, <1>7, GoesOn, SentOrNot

\* The text at hand becomes the one of the call, or joins it.
LEMMA TextRead ==
  ASSUME MainInv, wire # <<>>, IsMessage(Head(wire)), NEW text \in TextRecord,
         text.kind # "none", call.mode \notin {"returned", "await", "steer"},
         \/ text.number = Head(wire).text.number
         \/ call.text.kind # "none" /\ text.number = call.text.number
  PROVE  LET c == [call EXCEPT !.text = text] IN
         /\ CallGoes(call, c, ReadNow(Head(wire)), server)
         /\ ReadingHolds(c, server) /\ c.text = text /\ c.mode = call.mode
<1> DEFINE M == ReadNow(Head(wire))
           c == [call EXCEPT !.text = text]
<1>1. ServerHolds(server) /\ ReadingHolds(call, server)
  BY MainParts
<1>2. /\ M = {Head(wire).text.number} /\ M \subseteq Nat
      /\ \A m \in M : m <= LastNumber(server) /\ NotAfter(call, m)
  BY HeadHolds DEF ReadNow
<1>3. /\ CallFields \subseteq DOMAIN c /\ c.turn = call.turn /\ c.queued = call.queued
      /\ c.tools = call.tools /\ c.mode = call.mode /\ c.terminal = call.terminal
      /\ c.result = call.result /\ c.marker = call.marker /\ c.text = text
  BY <1>1 DEF ReadingHolds, CallFields
<1> HIDE DEF c, M
<1>4. CallGoes(call, c, M, server)
  BY <1>1, <1>2, <1>3, CallReads
<1> QED BY <1>3, <1>4 DEF CallGoes, c, M

\* A message on the wire has a text.
LEMMA HeadText ==
  ASSUME MainInv, wire # <<>>, IsMessage(Head(wire))
  PROVE  Head(wire).text \in TextRecord /\ Head(wire).text.kind # "none"
BY HeadHolds DEF EventRecord, EventHolds

\* A text with the marker is read.
LEMMA MarkerMoves ==
  ASSUME MainInv, wire # <<>>, IsMessage(Head(wire)), wire' = Tail(wire),
         UNCHANGED <<loop, steps>>, NEW text \in TextRecord,
         text.kind # "none", call.mode \notin {"returned", "await", "steer"},
         \/ text.number = Head(wire).text.number
         \/ call.text.kind # "none" /\ text.number = call.text.number,
         NEW interrupts,
         \/ ReadMarker([call EXCEPT !.text = text], interrupts)
         \/ call' = [call EXCEPT !.text = text] /\ UNCHANGED server
  PROVE  MainInv'
<1> DEFINE c == [call EXCEPT !.text = text]
<1>1. ServerHolds(server)
  BY MainParts
<1>2. /\ CallGoes(call, c, ReadNow(Head(wire)), server)
      /\ ReadingHolds(c, server) /\ c.text = text /\ c.mode = call.mode
  BY TextRead
<1> HIDE DEF c
<1>3. CASE ReadMarker(c, interrupts)
  <2>1. CallGoes(c, call', {}, server) /\ ServerGoes(server, server')
    BY <1>1, <1>2, <1>3, MarkerRead
  <2>2. CallGoes(call, call', ReadNow(Head(wire)), server)
    BY <1>2, <2>1, GoesOn
  <2> QED BY <2>1, <2>2, ReaderMoves
<1>4. CASE call' = c /\ UNCHANGED server
  <2>1. ServerGoes(server, server')
    BY <1>1, <1>4, ServerStays
  <2> QED BY <1>2, <1>4, <2>1, ReaderMoves
<1> QED BY <1>3, <1>4 DEF c

\* An event is read that changes nothing but what the call notes beside the texts.
LEMMA NoteMoves ==
  ASSUME MainInv, wire # <<>>, wire' = Tail(wire), UNCHANGED <<loop, steps>>,
         ServerGoes(server, server'), CallGoes(call, call', {}, server)
  PROVE  MainInv'
<1>1. CallGoes(call, call', ReadNow(Head(wire)), server)
  BY GoesMore
<1> QED BY <1>1, ReaderMoves

LEMMA DeltaRead == ASSUME MainInv, ReadDelta PROVE MainInv'
<1> DEFINE text == Appended(call.text, Head(wire).text)
<1>1. /\ wire # <<>> /\ wire' = Tail(wire) /\ UNCHANGED <<loop, steps>>
      /\ call.mode \notin {"returned", "await", "steer"} /\ IsMessage(Head(wire))
  BY DEF ReadDelta, Reading, Read, IsMessage
<1>2. /\ text \in TextRecord /\ text.kind # "none"
      /\ text.number = Head(wire).text.number
           \/ (call.text.kind # "none" /\ text.number = call.text.number)
  BY <1>1, HeadText, MainParts, AppendedText DEF ReadingHolds
<1>3. \/ ReadMarker([call EXCEPT !.text = text], TRUE)
      \/ call' = [call EXCEPT !.text = text] /\ UNCHANGED server
  BY DEF ReadDelta
<1> HIDE DEF text
<1> QED BY <1>1, <1>2, <1>3, MarkerMoves

LEMMA ItemUntilNeedRead == ASSUME MainInv, ReadItemUntilNeed PROVE MainInv'
<1> DEFINE text == Head(wire).text
<1>1. /\ wire # <<>> /\ wire' = Tail(wire) /\ UNCHANGED <<loop, steps>>
      /\ call.mode \notin {"returned", "await", "steer"} /\ IsMessage(Head(wire))
  BY DEF ReadItemUntilNeed, Reading, Read, IsMessage
<1>2. text \in TextRecord /\ text.kind # "none"
  BY <1>1, HeadText
<1>3. \/ ReadMarker([call EXCEPT !.text = text], TRUE)
      \/ UNCHANGED <<call, server>>
  BY DEF ReadItemUntilNeed
<1> HIDE DEF text
<1>4. CASE ReadMarker([call EXCEPT !.text = text], TRUE)
  BY <1>1, <1>2, <1>4, MarkerMoves DEF text
<1>5. CASE UNCHANGED <<call, server>>
  BY <1>1, <1>5, NoteMoves, ServerStays, GoesNowhere, MainParts
<1> QED BY <1>3, <1>4, <1>5

LEMMA ItemNextRead == ASSUME MainInv, ReadItemNext PROVE MainInv'
<1> DEFINE text == IF call.text.kind = "none" THEN Head(wire).text ELSE call.text
           d == [call EXCEPT !.final = TRUE]
<1>1. /\ wire # <<>> /\ wire' = Tail(wire) /\ UNCHANGED <<loop, steps>>
      /\ call.mode \notin {"returned", "await", "steer"} /\ IsMessage(Head(wire))
  BY DEF ReadItemNext, Reading, Read, IsMessage
<1>2. ServerHolds(server) /\ ReadingHolds(call, server)
  BY MainParts
<1>3. /\ text \in TextRecord /\ text.kind # "none"
      /\ text.number = Head(wire).text.number
           \/ (call.text.kind # "none" /\ text.number = call.text.number)
  BY <1>1, <1>2, HeadText DEF ReadingHolds
<1>4. \/ ReadMarker([call EXCEPT !.text = text], FALSE)
      \/ call' = d /\ UNCHANGED server
  BY DEF ReadItemNext
<1> HIDE DEF text
<1>5. CASE ReadMarker([call EXCEPT !.text = text], FALSE)
  BY <1>1, <1>3, <1>5, MarkerMoves
<1>6. CASE call' = d /\ UNCHANGED server
  <2>1. CallGoes(call, d, {}, server)
    BY <1>1, <1>2, CallKeeps DEF ReadingHolds, CallFields
  <2> QED BY <1>1, <1>2, <1>6, <2>1, NoteMoves, ServerStays
<1> QED BY <1>4, <1>5, <1>6

\* The call notes something beside the texts.
Notes(d) ==
  /\ CallFields \subseteq DOMAIN d /\ d.turn = call.turn /\ d.text = call.text
  /\ d.queued = call.queued /\ d.result = call.result /\ d.marker = call.marker
  /\ d.mode = call.mode /\ d.tools \in BOOLEAN
  /\ d.terminal # "none" => Over(server, d.turn)

LEMMA NotesGo ==
  ASSUME MainInv, call.mode # "returned", NEW d, Notes(d)
  PROVE  CallGoes(call, d, {}, server)
<1>1. ServerHolds(server) /\ ReadingHolds(call, server)
  BY MainParts
<1>2. d.marker \in BOOLEAN /\ (d.marker = TRUE => d.text.kind # "none")
      /\ (d.mode \in {"await", "steer"} => d.marker = FALSE /\ d.text.kind = "none")
  BY <1>1 DEF ReadingHolds, Notes
<1> QED BY <1>1, <1>2, CallKeeps DEF Notes

LEMMA ItemContinuationRead == ASSUME MainInv, ReadItemContinuation PROVE MainInv'
<1>1. /\ wire # <<>> /\ wire' = Tail(wire) /\ UNCHANGED <<loop, steps, server>>
      /\ call.mode # "returned"
  BY DEF ReadItemContinuation, Reading, Read
<1>2. Notes(call')
  BY MainParts DEF ReadItemContinuation, ReadingHolds, CallFields, Notes
<1> QED BY <1>1, <1>2, NotesGo, NoteMoves, ServerStays, MainParts

LEMMA ItemDirectRead == ASSUME MainInv, ReadItemDirect PROVE MainInv'
<1>1. /\ wire # <<>> /\ wire' = Tail(wire) /\ UNCHANGED <<loop, steps, server>>
      /\ call.mode # "returned"
  BY DEF ReadItemDirect, Reading, Read
<1>2. Notes(call')
  BY MainParts DEF ReadItemDirect, ReadingHolds, CallFields, Notes
<1> QED BY <1>1, <1>2, NotesGo, NoteMoves, ServerStays, MainParts

LEMMA ToolRead == ASSUME MainInv, ReadTool PROVE MainInv'
<1>1. /\ wire # <<>> /\ wire' = Tail(wire) /\ UNCHANGED <<loop, steps>>
      /\ call.mode # "returned" /\ (UNCHANGED server \/ Sending("interrupt", call.turn))
  BY DEF ReadTool, Reading, Read, TurnReaders
<1>2. Notes(call')
  BY MainParts DEF ReadTool, ReadingHolds, CallFields, Notes
<1> QED BY <1>1, <1>2, NotesGo, NoteMoves, SentOrNot, MainParts

\* An event on which the call fails.
LEMMA FailureMoves ==
  ASSUME MainInv, wire # <<>>, wire' = Tail(wire), UNCHANGED <<loop, steps, server>>,
         NEW reason, reason \notin {"need", "final", "resolving"},
         call' = Return(call, Failed(reason))
  PROVE  MainInv'
BY NoteMoves, ServerStays, ReturnsFailed, MainParts

LEMMA FileDirectRead == ASSUME MainInv, ReadFileDirect PROVE MainInv'
<1>1. /\ wire # <<>> /\ wire' = Tail(wire) /\ UNCHANGED <<loop, steps, server>>
      /\ call' = Return(call, Failed("file change"))
  BY DEF ReadFileDirect, Reading, Read
<1> QED BY <1>1, FailureMoves

\* The end of a turn: of this one it is true that it is over.
LEMMA DoneIsOver ==
  ASSUME MainInv, wire # <<>>, Head(wire).kind = "done", OfThisTurn(Head(wire))
  PROVE  Over(server, call.turn) /\ Head(wire).status # "none"
BY HeadHolds DEF EventHolds, OfThisTurn

\* The end of the turn is noted.
LEMMA EndNoted ==
  ASSUME MainInv, wire # <<>>, call.mode # "returned", Head(wire).kind = "done",
         OfThisTurn(Head(wire))
  PROVE  LET c == [call EXCEPT !.terminal = Head(wire).status] IN
         /\ CallGoes(call, c, {}, server) /\ ReadingHolds(c, server)
         /\ c.terminal # "none" /\ c.mode = call.mode
<1> DEFINE c == [call EXCEPT !.terminal = Head(wire).status]
<1>1. Over(server, call.turn) /\ Head(wire).status # "none"
  BY DoneIsOver
<1>2. Notes(c) /\ c.terminal = Head(wire).status /\ c.mode = call.mode
  BY <1>1, MainParts DEF ReadingHolds, CallFields, Notes
<1> HIDE DEF c
<1>3. CallGoes(call, c, {}, server)
  BY <1>2, NotesGo
<1> QED BY <1>1, <1>2, <1>3 DEF CallGoes, c

LEMMA DoneRead == ASSUME MainInv, ReadDone PROVE MainInv'
<1> DEFINE c == [call EXCEPT !.terminal = Head(wire).status]
<1>1. /\ wire # <<>> /\ wire' = Tail(wire) /\ UNCHANGED <<loop, steps, server>>
      /\ call.mode # "returned" /\ Head(wire).kind = "done"
  BY DEF ReadDone, Reading, Read, TurnReaders
<1>2. ServerHolds(server) /\ ReadingHolds(call, server) /\ ServerGoes(server, server')
  BY <1>1, MainParts, ServerStays
<1>3. CASE ~OfThisTurn(Head(wire))
  <2>1. call' = call
    BY <1>3 DEF ReadDone
  <2> QED BY <1>1, <1>2, <2>1, NoteMoves, GoesNowhere
<1>4. CASE OfThisTurn(Head(wire))
  <2>1. CallGoes(call, c, {}, server) /\ ReadingHolds(c, server) /\ c.terminal # "none"
    BY <1>1, <1>4, EndNoted
  <2>2. call' = c \/ call' = Return(c, TurnResult(c))
    BY <1>4 DEF ReadDone, ReturnWhenSettled
  <2> HIDE DEF c
  <2>3. CallGoes(c, Return(c, TurnResult(c)), {}, server)
    BY <1>2, <2>1, TurnReturns
  <2>4. CallGoes(call, call', {}, server)
    BY <2>1, <2>2, <2>3, GoesOn
  <2> QED BY <1>1, <1>2, <2>4, NoteMoves
<1> QED BY <1>3, <1>4

LEMMA AnswerRead == ASSUME MainInv, ReadAnswer PROVE MainInv'
<1> DEFINE c == [call EXCEPT !.acked = call.mode # "continuation"]
<1>1. /\ wire # <<>> /\ wire' = Tail(wire) /\ UNCHANGED <<loop, steps, server>>
      /\ call.mode # "returned"
  BY DEF ReadAnswer, Read, TurnReaders
<1>2. ServerHolds(server) /\ ReadingHolds(call, server) /\ ServerGoes(server, server')
  BY <1>1, MainParts, ServerStays
<1>3. Notes(c) /\ c.terminal = call.terminal
  BY <1>2 DEF ReadingHolds, CallFields, Notes
<1>4. \/ call' = call
      \/ call' = Return(call, Failed("interrupt failed"))
      \/ call' = c
      \/ call' = Return(c, TurnResult(c)) /\ c.terminal # "none"
  BY DEF ReadAnswer, ReturnWhenSettled, Settled
<1> HIDE DEF c
<1>5. CallGoes(call, c, {}, server) /\ ReadingHolds(c, server)
  BY <1>1, <1>3, NotesGo DEF CallGoes
<1>6. c.terminal # "none" => CallGoes(c, Return(c, TurnResult(c)), {}, server)
  BY <1>2, <1>5, TurnReturns
<1>7. CallGoes(call, call', {}, server)
  <2>1. CallGoes(call, call, {}, server)
    BY <1>2, GoesNowhere
  <2>2. CallGoes(call, Return(call, Failed("interrupt failed")), {}, server)
    BY <1>2, ReturnsFailed
  <2>3. c.terminal # "none" => CallGoes(call, Return(c, TurnResult(c)), {}, server)
    BY <1>5, <1>6, GoesOn
  <2> QED BY <1>4, <1>5, <2>1, <2>2, <2>3
<1> QED BY <1>1, <1>2, <1>7, NoteMoves

LEMMA Skipping == ASSUME MainInv, Skip PROVE MainInv'
<1>1. wire # <<>> /\ wire' = Tail(wire) /\ UNCHANGED <<loop, steps, server, call>>
  BY DEF Skip, Read
<1> QED BY <1>1, NoteMoves, ServerStays, GoesNowhere, MainParts

LEMMA TimedOut == ASSUME MainInv, CallTimesOut PROVE MainInv'
<1>1. wire' = wire /\ UNCHANGED <<loop, steps, server>>
      /\ call' = Return(call, Failed("timed out"))
  BY DEF CallTimesOut
<1>2. CallGoes(call, call', {}, server) /\ ServerGoes(server, server')
  BY <1>1, MainParts, ReturnsFailed, ServerStays
<1> QED BY <1>1, <1>2, ReaderMoves

\* observe_pending_event.
LEMMA PendingItemRead == ASSUME MainInv, PendingItem PROVE MainInv'
<1> DEFINE text == Head(wire).text
           x == [need |-> text.need, waits |-> text.waits, turn |-> call.turn, active |-> TRUE,
                 tainted |-> call.tools, number |-> text.number]
           q == Append(call.queued, x)
           c == [call EXCEPT !.queued = q]
           d == [call EXCEPT !.overflow = TRUE]
           M == ReadNow(Head(wire))
<1>1. /\ wire # <<>> /\ wire' = Tail(wire) /\ UNCHANGED <<loop, steps, server>>
      /\ call.mode \in {"await", "steer"} /\ IsMessage(Head(wire))
  BY DEF PendingItem, Reading, Read, Awaiting, IsMessage
<1>2. ServerHolds(server) /\ ReadingHolds(call, server) /\ ServerGoes(server, server')
  BY <1>1, MainParts, ServerStays
<1>3. \/ call' = Return(call, Failed("malformed need"))
      \/ call' = call
      \/ call' = d
      \/ call' = c
  <2>1. call' = Queued(call, text)
    BY DEF PendingItem
  <2> QED BY <2>1 DEF Queued
<1>4. Notes(d)
  BY <1>2 DEF ReadingHolds, CallFields, Notes
<1>5. /\ text \in TextRecord /\ M = {text.number} /\ text.number \in Nat
      /\ text.number <= LastNumber(server) /\ NotAfter(call, text.number)
  <2>1. text \in TextRecord /\ M = {text.number}
    BY <1>1, HeadText DEF ReadNow
  <2> QED BY <1>1, <2>1, HeadHolds
<1>6. x \in NeedTurns /\ x.number = text.number /\ x.turn = call.turn
  BY <1>2, <1>5 DEF NeedTurns, TextRecord, ReadingHolds
<1>7. /\ CallFields \subseteq DOMAIN c /\ c.turn = call.turn /\ c.queued = q
      /\ c.tools = call.tools /\ c.mode = call.mode /\ c.terminal = call.terminal
      /\ c.result = call.result /\ c.marker = call.marker /\ c.text = call.text
  BY <1>2 DEF ReadingHolds, CallFields
<1>8. call.queued \in Seq(NeedTurns) /\ InLine(call.queued) /\ QueueHolds(call.queued, server)
  BY <1>2 DEF ReadingHolds, QueueHolds
<1> HIDE DEF x, text, c, d, M
<1>9. /\ q \in Seq(NeedTurns) /\ Len(call.queued) \in Nat
      /\ DOMAIN call.queued = 1 .. Len(call.queued)
      /\ DOMAIN q = 1 .. (Len(call.queued) + 1)
      /\ q[Len(call.queued) + 1] = x
      /\ \A i \in DOMAIN call.queued : q[i] = call.queued[i]
  BY <1>6, <1>8
<1> HIDE DEF q
<1>10. \A i \in DOMAIN q : (i \in DOMAIN call.queued /\ q[i] = call.queued[i])
                           \/ (i = Len(call.queued) + 1 /\ q[i] = x)
  BY <1>9
<1>11. \A i \in DOMAIN call.queued : call.queued[i].number < x.number
  BY <1>5, <1>6 DEF NotAfter
<1>12. InLine(q)
  <2>1. ASSUME NEW i \in DOMAIN q, NEW j \in DOMAIN q, i < j PROVE q[i].number < q[j].number
    <3>1. i \in DOMAIN call.queued
      BY <1>9, <1>10, <2>1
    <3> QED BY <1>8, <1>10, <1>11, <2>1, <3>1 DEF InLine
  <2> QED BY <2>1 DEF InLine
<1>13. QueueHolds(q, server)
  <2>1. call.turn <= server.turn
    BY <1>2 DEF ReadingHolds
  <2> QED BY <1>5, <1>6, <1>8, <1>9, <1>10, <1>12, <2>1 DEF QueueHolds
<1>14. call.result.kind \notin {"need", "final"}
  BY <1>1, <1>2 DEF ReadingHolds
<1>15. HoldsNo(call, c, M)
  BY <1>5, <1>6, <1>7, <1>10, <1>14 DEF HoldsNo, NotBefore, NotAfter
<1>16. CallGoes(call, c, M, server)
  BY <1>1, <1>2, <1>7, <1>13, <1>14, <1>15 DEF CallGoes, ReadingHolds, Closes
<1> QED
  BY <1>1, <1>2, <1>3, <1>4, <1>16, NotesGo, NoteMoves, FailureMoves, GoesNowhere, ReaderMoves DEF M

LEMMA PendingToolRead == ASSUME MainInv, PendingTool PROVE MainInv'
<1>1. /\ wire # <<>> /\ wire' = Tail(wire) /\ UNCHANGED <<loop, steps, server>>
      /\ call.mode # "returned"
  BY DEF PendingTool, Reading, Read, Awaiting
<1>2. Notes(call')
  BY MainParts DEF PendingTool, ReadingHolds, CallFields, Notes
<1> QED BY <1>1, <1>2, NotesGo, NoteMoves, ServerStays, MainParts

LEMMA PendingDoneRead == ASSUME MainInv, PendingDone PROVE MainInv'
<1> DEFINE c == [call EXCEPT !.terminal = Head(wire).status]
<1>1. /\ wire # <<>> /\ wire' = Tail(wire) /\ UNCHANGED <<loop, steps, server>>
      /\ call.mode # "returned" /\ Head(wire).kind = "done"
  BY DEF PendingDone, Reading, Read, Awaiting
<1>2. ServerHolds(server) /\ ReadingHolds(call, server) /\ ServerGoes(server, server')
  BY <1>1, MainParts, ServerStays
<1>3. CASE ~OfThisTurn(Head(wire))
  <2>1. call' = call
    BY <1>3 DEF PendingDone
  <2> QED BY <1>1, <1>2, <2>1, NoteMoves, GoesNowhere
<1>4. CASE OfThisTurn(Head(wire))
  <2>1. CallGoes(call, c, {}, server) /\ ReadingHolds(c, server)
    BY <1>1, <1>4, EndNoted
  <2>2. \/ call' = c
        \/ call' = Return(c, Failed("task cancelled"))
        \/ call' = DeliveredByStart(c)
    BY <1>4 DEF PendingDone
  <2> HIDE DEF c
  <2>3. CallGoes(c, Return(c, Failed("task cancelled")), {}, server)
    BY <1>2, <2>1, ReturnsFailed
  <2>4. CallGoes(c, DeliveredByStart(c), {}, server)
    BY <1>2, <2>1, ReturnsStart
  <2>5. CallGoes(call, call', {}, server)
    BY <2>1, <2>2, <2>3, <2>4, GoesOn
  <2> QED BY <1>1, <1>2, <2>5, NoteMoves
<1> QED BY <1>3, <1>4

LEMMA ResolutionArrived == ASSUME MainInv, ResolutionArrives PROVE MainInv'
<1> DEFINE d == [call EXCEPT !.mode = "steer", !.steerId = server.nextId]
<1>1. /\ wire' = wire /\ UNCHANGED <<loop, steps>> /\ call.mode = "await"
      /\ UNCHANGED server \/ Sending("steer", call.turn)
      /\ call' = d \/ call' = DeliveredByStart(call)
  BY DEF ResolutionArrives
<1>2. ServerHolds(server) /\ ReadingHolds(call, server) /\ ServerGoes(server, server')
  BY <1>1, MainParts, SentOrNot
<1>3. /\ CallFields \subseteq DOMAIN d /\ d.turn = call.turn /\ d.text = call.text
      /\ d.queued = call.queued /\ d.result = call.result /\ d.marker = call.marker
      /\ d.mode = "steer" /\ d.tools = call.tools /\ d.terminal = call.terminal
  BY <1>2 DEF ReadingHolds, CallFields
<1> HIDE DEF d
<1>4. d.tools \in BOOLEAN /\ d.marker \in BOOLEAN /\ d.marker = FALSE /\ d.text.kind = "none"
      /\ (d.terminal # "none" => Over(server, d.turn))
  BY <1>1, <1>2, <1>3 DEF ReadingHolds
<1>5. CallGoes(call, d, {}, server)
  BY <1>1, <1>2, <1>3, <1>4, CallKeeps
<1>6. CallGoes(call, call', {}, server)
  BY <1>1, <1>2, <1>5, ReturnsStart
<1> QED BY <1>1, <1>2, <1>6, ReaderMoves

LEMMA ResolutionFailed == ASSUME MainInv, ResolutionFails PROVE MainInv'
<1> DEFINE r == Failed("resolver failed")
           d == [call EXCEPT !.mode = "interrupting", !.interrupt = server.nextId, !.result = r]
<1>1. /\ wire' = wire /\ UNCHANGED <<loop, steps>> /\ call.mode = "await"
      /\ UNCHANGED server \/ Sending("interrupt", call.turn)
      /\ call' = d \/ call' = Return(call, Failed("resolver failed"))
  BY DEF ResolutionFails
<1>2. ServerHolds(server) /\ ReadingHolds(call, server) /\ ServerGoes(server, server')
  BY <1>1, MainParts, SentOrNot
<1>3. r.kind = "resolver failed" /\ r.needTurn = NoNeedTurn /\ "kind" \in DOMAIN r
  BY FailedIsNothing
<1> HIDE DEF r
<1>4. /\ CallFields \subseteq DOMAIN d /\ d.turn = call.turn /\ d.text = call.text
      /\ d.queued = call.queued /\ d.result = r /\ d.marker = call.marker
      /\ d.mode = "interrupting" /\ d.tools = call.tools /\ d.terminal = call.terminal
  BY <1>2 DEF ReadingHolds, CallFields
<1> HIDE DEF d
<1>5. d.tools \in BOOLEAN /\ d.marker \in BOOLEAN /\ d.marker = FALSE /\ d.text.kind = "none"
      /\ (d.terminal # "none" => Over(server, d.turn))
  BY <1>1, <1>2, <1>4 DEF ReadingHolds
<1>6. CallGoes(call, d, {}, server)
  BY <1>1, <1>2, <1>3, <1>4, <1>5, CallKeeps
<1>7. CallGoes(call, call', {}, server)
  BY <1>1, <1>2, <1>6, ReturnsFailed
<1> QED BY <1>1, <1>2, <1>7, ReaderMoves

\* The steered turn goes on: nothing has been read of it yet.
LEMMA PendingAnswerRead == ASSUME MainInv, PendingAnswer PROVE MainInv'
<1> DEFINE d == [call EXCEPT !.mode = "active", !.text = NoText]
<1>1. /\ wire # <<>> /\ wire' = Tail(wire) /\ UNCHANGED <<loop, steps, server>>
      /\ call.mode \in {"await", "steer"}
      /\ call' = call \/ call' = d \/ call' = DeliveredByStart(call)
  BY DEF PendingAnswer, Read, Awaiting
<1>2. ServerHolds(server) /\ ReadingHolds(call, server) /\ ServerGoes(server, server')
  BY <1>1, MainParts, ServerStays
<1>3. /\ CallFields \subseteq DOMAIN d /\ d.turn = call.turn /\ d.text = NoText
      /\ d.queued = call.queued /\ d.result = call.result /\ d.marker = call.marker
      /\ d.mode = "active" /\ d.tools = call.tools /\ d.terminal = call.terminal
  BY <1>2 DEF ReadingHolds, CallFields
<1>4. NoText \in TextRecord /\ NoText.kind = "none" /\ NoText.number = 0
  BY DEF NoText, TextRecord, Obligations
<1>5. call.marker = FALSE /\ call.text.kind = "none"
  BY <1>1, <1>2 DEF ReadingHolds
<1> HIDE DEF d
<1>6. HoldsNo(call, d, {})
  BY <1>3, <1>4 DEF HoldsNo, NotBefore, NotAfter
<1>7. 0 <= LastNumber(server)
  BY <1>2 DEF ServerHolds
<1>8. ReadingHolds(d, server)
  BY <1>1, <1>2, <1>3, <1>4, <1>5, <1>7 DEF ReadingHolds, Closes
<1>9. CallGoes(call, call', {}, server)
  BY <1>1, <1>2, <1>6, <1>8, ReturnsStart, GoesNowhere DEF CallGoes
<1> QED BY <1>1, <1>2, <1>9, NoteMoves

LEMMA ActiveTextRead ==
  ASSUME ServerHolds(server), NEW c, ReadingHolds(c, server), c.text.kind # "none",
         c.mode \notin {"returned", "await", "steer"}, ActiveText(c)
  PROVE  CallGoes(c, call', {}, server) /\ ServerGoes(server, server')
<1> DEFINE d == [c EXCEPT !.marker = TRUE]
           e == [c EXCEPT !.marker = TRUE, !.interrupt = server.nextId, !.acked = FALSE]
<1>1. CallGoes(c, d, {}, server)
  <2>1. /\ CallFields \subseteq DOMAIN d /\ d.turn = c.turn /\ d.text = c.text
        /\ d.queued = c.queued /\ d.tools = c.tools /\ d.marker = TRUE /\ d.mode = c.mode
        /\ d.terminal = c.terminal /\ d.result = c.result
    BY DEF ReadingHolds, CallFields
  <2> HIDE DEF d
  <2>2. d.tools \in BOOLEAN /\ (d.terminal # "none" => Over(server, d.turn))
    BY <2>1 DEF ReadingHolds
  <2> QED BY <2>1, <2>2, CallKeeps
<1>2. CallGoes(c, e, {}, server)
  <2>1. /\ CallFields \subseteq DOMAIN e /\ e.turn = c.turn /\ e.text = c.text
        /\ e.queued = c.queued /\ e.tools = c.tools /\ e.marker = TRUE /\ e.mode = c.mode
        /\ e.terminal = c.terminal /\ e.result = c.result
    BY DEF ReadingHolds, CallFields
  <2> HIDE DEF e
  <2>2. e.tools \in BOOLEAN /\ (e.terminal # "none" => Over(server, e.turn))
    BY <2>1 DEF ReadingHolds
  <2> QED BY <2>1, <2>2, CallKeeps
<1>3. /\ \/ call' = Return(c, Failed("malformed need"))
         \/ call' = Steered(c, Result("need", NeedTurnOf(c, TRUE)))
         \/ call' = e
         \/ call' = d
      /\ UNCHANGED server \/ Sending("interrupt", c.turn)
  BY DEF ActiveText
<1> HIDE DEF d, e
<1>4. CallGoes(c, Return(c, Failed("malformed need")), {}, server)
  BY ReturnsFailed
<1>5. CallGoes(c, Steered(c, Result("need", NeedTurnOf(c, TRUE))), {}, server)
  BY SteeredToNeed
<1> QED BY <1>1, <1>2, <1>3, <1>4, <1>5, SentOrNot

LEMMA ActiveMessageRead == ASSUME MainInv, ActiveMessage PROVE MainInv'
<1> DEFINE text == IF Head(wire).kind = "delta" THEN Appended(call.text, Head(wire).text)
                   ELSE Head(wire).text
           c == [call EXCEPT !.text = text]
           d == [call EXCEPT !.final = TRUE]
<1>1. /\ wire # <<>> /\ wire' = Tail(wire) /\ UNCHANGED <<loop, steps>>
      /\ call.mode \notin {"returned", "await", "steer"} /\ IsMessage(Head(wire))
  BY DEF ActiveMessage, Read, IsMessage
<1>2. ServerHolds(server) /\ ReadingHolds(call, server)
  BY MainParts
<1>3. /\ text \in TextRecord /\ text.kind # "none"
      /\ text.number = Head(wire).text.number
           \/ (call.text.kind # "none" /\ text.number = call.text.number)
  <2>1. Head(wire).text \in TextRecord /\ Head(wire).text.kind # "none" /\ call.text \in TextRecord
    BY <1>1, <1>2, HeadText DEF ReadingHolds
  <2> QED BY <2>1, AppendedText
<1>4. \/ ActiveText(c)
      \/ call' = d /\ UNCHANGED server
      \/ call' = call /\ UNCHANGED server
      \/ call' = c /\ UNCHANGED server
  BY DEF ActiveMessage
<1>5. Notes(d)
  BY <1>2 DEF ReadingHolds, CallFields, Notes
<1> HIDE DEF text, d
<1>6. /\ CallGoes(call, c, ReadNow(Head(wire)), server)
      /\ ReadingHolds(c, server) /\ c.text = text /\ c.mode = call.mode
  BY <1>1, <1>3, TextRead
<1> HIDE DEF c
<1>7. CASE ActiveText(c)
  <2>1. CallGoes(c, call', {}, server) /\ ServerGoes(server, server')
    BY <1>1, <1>2, <1>3, <1>6, <1>7, ActiveTextRead
  <2>2. CallGoes(call, call', ReadNow(Head(wire)), server)
    BY <1>6, <2>1, GoesOn
  <2> QED BY <1>1, <2>1, <2>2, ReaderMoves
<1>8. CASE call' = d /\ UNCHANGED server
  BY <1>1, <1>2, <1>5, <1>8, NotesGo, NoteMoves, ServerStays
<1>9. CASE call' = call /\ UNCHANGED server
  BY <1>1, <1>2, <1>9, GoesNowhere, NoteMoves, ServerStays
<1>10. CASE call' = c /\ UNCHANGED server
  BY <1>1, <1>2, <1>6, <1>10, ReaderMoves, ServerStays
<1> QED BY <1>4, <1>7, <1>8, <1>9, <1>10

LEMMA ActiveToolRead == ASSUME MainInv, ActiveTool PROVE MainInv'
<1>1. /\ wire # <<>> /\ wire' = Tail(wire) /\ UNCHANGED <<loop, steps, server>>
      /\ call.mode # "returned"
  BY DEF ActiveTool, Reading, Read
<1>2. Notes(call')
  BY MainParts DEF ActiveTool, ReadingHolds, CallFields, Notes
<1> QED BY <1>1, <1>2, NotesGo, NoteMoves, ServerStays, MainParts

LEMMA ActiveDoneRead == ASSUME MainInv, ActiveDone PROVE MainInv'
<1> DEFINE event == Head(wire)
           done == event.kind = "done" /\ OfThisTurn(event)
           answer == event.kind # "done" /\ call.interrupt # 0 /\ event.id = call.interrupt
           c == [call EXCEPT !.terminal = IF done THEN event.status ELSE @,
                             !.acked = @ \/ answer]
<1>1. /\ wire # <<>> /\ wire' = Tail(wire) /\ UNCHANGED <<loop, steps, server>>
      /\ call.mode # "returned"
  BY DEF ActiveDone, Read
<1>2. ServerHolds(server) /\ ReadingHolds(call, server) /\ ServerGoes(server, server')
  BY <1>1, MainParts, ServerStays
<1>3. /\ CallFields \subseteq DOMAIN c /\ c.turn = call.turn /\ c.text = call.text
      /\ c.queued = call.queued /\ c.result = call.result /\ c.marker = call.marker
      /\ c.mode = call.mode /\ c.tools = call.tools
      /\ c.terminal = (IF done THEN event.status ELSE call.terminal)
  BY <1>2 DEF ReadingHolds, CallFields
<1>4. done => Over(server, call.turn)
  BY <1>1, DoneIsOver
<1>5. \/ call' = Return(c, Failed("interrupt failed"))
      \/ call' = Steered(c, ActiveResult(c)) /\ c.terminal # "none"
      \/ call' = c
  BY DEF ActiveDone, Settled
<1> HIDE DEF c, done, answer, event
<1>6. Notes(c)
  BY <1>2, <1>3, <1>4 DEF Notes, ReadingHolds
<1>7. CallGoes(call, c, {}, server) /\ ReadingHolds(c, server)
  BY <1>1, <1>6, NotesGo DEF CallGoes
<1>8. CallGoes(c, Return(c, Failed("interrupt failed")), {}, server)
  BY <1>2, <1>7, ReturnsFailed
<1>9. c.terminal # "none" => CallGoes(c, Steered(c, ActiveResult(c)), {}, server)
  BY <1>2, <1>7, ActiveReturns
<1>10. CallGoes(call, call', {}, server)
  BY <1>5, <1>7, <1>8, <1>9, GoesOn
<1> QED BY <1>1, <1>2, <1>10, NoteMoves

\* A call that returns the reason it was made for.
LEMMA ReturnsOwn ==
  ASSUME NEW c, NEW s, ServerHolds(s), ReadingHolds(c, s), c.mode # "returned"
  PROVE  CallGoes(c, Return(c, c.result), {}, s)
<1> DEFINE d == Return(c, c.result)
<1>1. /\ CallFields \subseteq DOMAIN d /\ d.mode = "returned" /\ d.result = c.result
      /\ d.turn = c.turn /\ d.text = c.text /\ d.queued = c.queued /\ d.tools = c.tools
      /\ d.marker = c.marker /\ d.terminal = c.terminal
  BY DEF Return, ReadingHolds, CallFields
<1> HIDE DEF d
<1>2. HoldsNo(c, d, {})
  BY <1>1 DEF HoldsNo, NotBefore, NotAfter
<1>3. ReadingHolds(d, s)
  BY <1>1 DEF ReadingHolds, Closes
<1> QED BY <1>2, <1>3 DEF CallGoes, d

LEMMA InterruptRead == ASSUME MainInv, InterruptEvent PROVE MainInv'
<1> DEFINE event == Head(wire)
           done == event.kind = "done" /\ OfThisTurn(event)
           mine == event.id = call.interrupt /\ event.id # 0
           c == [call EXCEPT !.acked = @ \/ mine,
                             !.tools = @ \/ event.kind \in {"tool", "file"},
                             !.terminal = IF event.kind = "done" /\ OfThisTurn(event)
                                          THEN event.status ELSE @]
<1>1. /\ wire # <<>> /\ wire' = Tail(wire) /\ UNCHANGED <<loop, steps, server>>
      /\ call.mode # "returned"
  BY DEF InterruptEvent, Read
<1>2. ServerHolds(server) /\ ReadingHolds(call, server) /\ ServerGoes(server, server')
  BY <1>1, MainParts, ServerStays
<1>3. /\ CallFields \subseteq DOMAIN c /\ c.turn = call.turn /\ c.text = call.text
      /\ c.queued = call.queued /\ c.result = call.result /\ c.marker = call.marker
      /\ c.mode = call.mode /\ c.tools \in BOOLEAN
      /\ c.terminal = (IF done THEN event.status ELSE call.terminal)
  BY <1>2 DEF ReadingHolds, CallFields
<1>4. done => Over(server, call.turn)
  BY <1>1, DoneIsOver
<1>5. \/ call' = Return(c, Failed("interrupt failed"))
      \/ call' = Return(c, Failed("malformed need"))
      \/ call' = Return(c, c.result)
      \/ call' = c
  BY DEF InterruptEvent
<1> HIDE DEF c, done, mine, event
<1>6. Notes(c)
  BY <1>2, <1>3, <1>4 DEF Notes, ReadingHolds
<1>7. CallGoes(call, c, {}, server) /\ ReadingHolds(c, server)
  BY <1>1, <1>6, NotesGo DEF CallGoes
<1>8. CallGoes(c, Return(c, Failed("interrupt failed")), {}, server)
      /\ CallGoes(c, Return(c, Failed("malformed need")), {}, server)
  BY <1>2, <1>7, ReturnsFailed
<1>9. CallGoes(c, Return(c, c.result), {}, server)
  BY <1>1, <1>2, <1>3, <1>7, ReturnsOwn
<1>10. CallGoes(call, call', {}, server)
  BY <1>5, <1>7, <1>8, <1>9, GoesOn
<1> QED BY <1>1, <1>2, <1>10, NoteMoves

LEMMA ReaderSteps == ASSUME MainInv, ReaderStep PROVE MainInv'
BY DeltaRead, ItemUntilNeedRead, ItemNextRead, ToolRead, ItemContinuationRead, ItemDirectRead,
   FileDirectRead, DoneRead, AnswerRead, Skipping, TimedOut, PendingItemRead, PendingToolRead,
   PendingDoneRead, ResolutionArrived, ResolutionFailed, PendingAnswerRead, ActiveMessageRead,
   ActiveToolRead, ActiveDoneRead, InterruptRead DEF ReaderStep

-----------------------------------------------------------------------------
(* The main session: the steps of the server *)

SessionHolds(s, w, c, l, log) ==
  /\ ServerHolds(s) /\ WireHolds(w, s) /\ ReadingHolds(c, s) /\ LoopHolds(l, log, s)
  /\ InTurn(l, c, w)

\* What a message sent now follows.
Newest(number, w, c, l) ==
  /\ LoopBefore(l, number) /\ NotAfter(c, number)
  /\ \A i \in DOMAIN w : IsMessage(w[i]) => w[i].text.number < number

LEMMA NewestNumber ==
  ASSUME NEW s, NEW w, NEW c, NEW l, NEW log, SessionHolds(s, w, c, l, log),
         NEW number \in Nat, LastNumber(s) < number
  PROVE  Newest(number, w, c, l)
<1>1. ServerHolds(s) /\ WireHolds(w, s) /\ ReadingHolds(c, s) /\ LoopHolds(l, log, s)
  BY DEF SessionHolds
<1>2. LastNumber(s) \in Nat
  BY <1>1 DEF ServerHolds
<1>3. \A x \in NeedTurns : x.number \in Nat
  BY DEF NeedTurns
<1>4. \A i \in DOMAIN w : IsMessage(w[i]) => w[i].text.number < number
  BY <1>1, <1>2, WireElements DEF WireHolds, EventHolds
<1>5. \A i \in DOMAIN l.pending : l.pending[i].number < number
  BY <1>1, <1>2, QueueElements DEF LoopHolds, QueueHolds
<1>6. \A i \in DOMAIN c.queued : c.queued[i].number < number
  BY <1>1, <1>2, QueueElements DEF ReadingHolds, QueueHolds
<1>7. LoopBefore(l, number)
  BY <1>1, <1>2, <1>3, <1>5 DEF LoopHolds, LoopBefore
<1>8. c.text.number \in Nat
  BY <1>1 DEF ReadingHolds, TextRecord
<1>9. NotAfter(c, number)
  BY <1>1, <1>2, <1>3, <1>6, <1>8 DEF ReadingHolds, NotAfter
<1> QED BY <1>4, <1>7, <1>9 DEF Newest

LEMMA WireGets ==
  ASSUME NEW w \in Seq(EventRecord), NEW e \in EventRecord
  PROVE  /\ Append(w, e) \in Seq(EventRecord) /\ Len(w) \in Nat
         /\ DOMAIN w = 1 .. Len(w) /\ DOMAIN Append(w, e) = 1 .. (Len(w) + 1)
         /\ \A i \in DOMAIN Append(w, e) : (i \in DOMAIN w /\ Append(w, e)[i] = w[i])
                                           \/ (i = Len(w) + 1 /\ Append(w, e)[i] = e)
OBVIOUS

\* An event is sent.
LEMMA EventSent ==
  ASSUME NEW s, NEW t, NEW w, NEW c, NEW l, NEW log, SessionHolds(s, w, c, l, log),
         ServerGoes(s, t), NEW e \in EventRecord, EventHolds(e, t),
         IsMessage(e) => Newest(e.text.number, w, c, l)
  PROVE  SessionHolds(t, Append(w, e), c, l, log)
<1> DEFINE v == Append(w, e)
<1>1. ServerHolds(s) /\ WireHolds(w, s) /\ ReadingHolds(c, s) /\ LoopHolds(l, log, s)
      /\ InTurn(l, c, w) /\ ServerHolds(t)
  BY DEF SessionHolds, ServerGoes
<1>2. WireHolds(w, t) /\ ReadingHolds(c, t) /\ LoopHolds(l, log, t)
  BY <1>1, WireLater, CallLater, LoopLater
<1>3. w \in Seq(EventRecord)
  BY <1>1 DEF WireHolds
<1>4. /\ v \in Seq(EventRecord) /\ Len(w) \in Nat
      /\ DOMAIN w = 1 .. Len(w) /\ DOMAIN v = 1 .. (Len(w) + 1)
      /\ \A i \in DOMAIN v : (i \in DOMAIN w /\ v[i] = w[i]) \/ (i = Len(w) + 1 /\ v[i] = e)
  BY <1>3, WireGets
<1>5. e.text.number \in Nat
  BY DEF EventRecord, TextRecord
<1>6. IsMessage(e) => /\ LoopBefore(l, e.text.number) /\ NotAfter(c, e.text.number)
                      /\ \A i \in DOMAIN w : IsMessage(w[i]) => w[i].text.number < e.text.number
  BY DEF Newest
<1> HIDE DEF v
<1>7. \A i, j \in DOMAIN v : i < j /\ IsMessage(v[i]) /\ IsMessage(v[j]) =>
        v[i].text.number < v[j].text.number
  <2>1. ASSUME NEW i \in DOMAIN v, NEW j \in DOMAIN v, i < j, IsMessage(v[i]), IsMessage(v[j])
        PROVE  v[i].text.number < v[j].text.number
    <3>1. i \in DOMAIN w /\ v[i] = w[i]
      BY <1>4, <2>1
    <3> QED BY <1>1, <1>4, <1>6, <2>1, <3>1 DEF WireHolds
  <2> QED BY <2>1
<1>8. \A i \in DOMAIN v : EventHolds(v[i], t)
  BY <1>2, <1>4 DEF WireHolds
<1>9. WireHolds(v, t)
  BY <1>4, <1>7, <1>8 DEF WireHolds
<1>10. \A k \in DOMAIN v : IsMessage(v[k]) =>
         LoopBefore(l, v[k].text.number) /\ NotAfter(c, v[k].text.number)
  BY <1>1, <1>4, <1>6 DEF InTurn
<1>11. InTurn(l, c, v)
  <2> HIDE DEF NotBefore, NotAfter, LoopBefore, IsMessage
  <2> QED BY <1>1, <1>10 DEF InTurn
<1> QED BY <1>1, <1>2, <1>9, <1>11 DEF SessionHolds, v

LEMMA SessionIsMain == MainInv <=> SessionHolds(server, wire, call, loop, steps)
BY DEF MainInv, SessionHolds

LEMMA NextIsMain == SessionHolds(server', wire', call', loop', steps') => MainInv'
BY DEF MainInv, SessionHolds

LEMMA NoTextFields == NoText \in TextRecord /\ NoText.kind = "none" /\ NoText.number = 0
BY DEF NoText, TextRecord, Obligations

\* A message on the wire.
LEMMA MessageFields ==
  ASSUME NEW kind \in {"delta", "item"}, NEW turn \in Nat, NEW text \in TextRecord
  PROVE  LET e == Event(kind, turn, text, "none", 0) IN
         /\ e \in EventRecord /\ e.kind = kind /\ e.turn = turn /\ e.text = text
BY DEF Event, EventRecord, EventKinds, Endings

\* Any other event.
LEMMA NoticeFields ==
  ASSUME NEW kind \in EventKinds, NEW turn \in Nat, NEW status \in Endings, NEW id \in Nat
  PROVE  LET e == Event(kind, turn, NoText, status, id) IN
         /\ e \in EventRecord /\ e.kind = kind /\ e.turn = turn /\ e.status = status
BY NoTextFields DEF Event, EventRecord

LEMMA TextsFields ==
  ASSUME ServerHolds(server), NEW text \in Texts
  PROVE  text \in TextRecord /\ text.kind # "none" /\ text.number = LastNumber(server) + 1
<1> DEFINE n == LastNumber(server) + 1
<1>1. n \in Nat /\ n = 2 * server.emitted + 1
  BY DEF ServerHolds, LastNumber
<1> HIDE DEF n
<1>2. CASE text = Prose(n)
  BY <1>1, <1>2 DEF Prose, TextRecord, Obligations, n
<1>3. CASE text = Malformed(n)
  BY <1>1, <1>3 DEF Malformed, TextRecord, Obligations, n
<1>4. CASE \E need \in AgentNeeds, waits \in BOOLEAN : text = NeedText(need, waits, n)
  <2>1. PICK need \in AgentNeeds, waits \in BOOLEAN : text = NeedText(need, waits, n)
    BY <1>4
  <2>2. need \in Obligations
    BY DEF Obligations
  <2>3. text \in TextRecord /\ text.kind # "none" /\ text.number = n
    BY <1>1, <2>1, <2>2 DEF NeedText, TextRecord
  <2> QED BY <2>3 DEF n
<1>5. \/ text = Prose(n)
      \/ text = Malformed(n)
      \/ \E need \in AgentNeeds, waits \in BOOLEAN : text = NeedText(need, waits, n)
  BY <1>1 DEF Texts
<1> QED BY <1>2, <1>3, <1>4, <1>5

\* The item of a message follows its deltas.
LEMMA ItemAfterDelta ==
  ASSUME NEW number \in Nat, NEW n \in Nat, number < n, NEW w \in Seq(EventRecord), NEW c, NEW l,
         Newest(n, w, c, l), NEW e \in EventRecord, e.text.number = number
  PROVE  Newest(n, Append(w, e), c, l)
<1>1. \A i \in DOMAIN Append(w, e) : (i \in DOMAIN w /\ Append(w, e)[i] = w[i])
                                     \/ Append(w, e)[i] = e
  BY WireGets
<1> QED BY <1>1 DEF Newest

LEMMA MessageEmitted ==
  ASSUME MainInv, NEW shape \in {"delta", "item", "both"}, NEW text \in Texts,
         EmitMessage(shape, text)
  PROVE  MainInv'
<1> DEFINE n == LastNumber(server) + 1
           other == [text EXCEPT !.number = @ + 1]
           d == Event("delta", server.turn, text, "none", 0)
           i == Event("item", server.turn, other, "none", 0)
<1>1. ServerHolds(server) /\ SessionHolds(server, wire, call, loop, steps)
  BY SessionIsMain DEF MainInv
<1>2. /\ text \in TextRecord /\ text.kind # "none" /\ text.number = n /\ server.turn \in Nat
      /\ LastNumber(server) \in Nat /\ server.emitted \in Nat
  BY <1>1, TextsFields DEF ServerHolds
<1>3. UNCHANGED <<call, loop, steps>> /\ server' = [server EXCEPT !.emitted = @ + 1]
  BY DEF EmitMessage
<1>4. /\ ServerFields \subseteq DOMAIN server' /\ server'.turn = server.turn
      /\ server'.emitted = server.emitted + 1 /\ server'.running = server.running
      /\ server'.nextId = server.nextId /\ server'.requests = server.requests
  BY <1>1, <1>3 DEF ServerHolds, ServerFields
<1>5. LastNumber(server') = n + 1 /\ n + 1 \in Nat
  BY <1>2, <1>4 DEF LastNumber
<1>6. ServerGoes(server, server')
  BY <1>1, <1>2, <1>4, <1>5 DEF ServerGoes, ServerHolds, Over
<1>7. other \in TextRecord /\ other.kind # "none" /\ other.number = n + 1
  BY <1>2 DEF TextRecord
<1> HIDE DEF other
<1>8. d \in EventRecord /\ d.kind = "delta" /\ d.turn = server.turn /\ d.text = text
  BY <1>2, MessageFields
<1>9. i \in EventRecord /\ i.kind = "item" /\ i.turn = server.turn /\ i.text = other
  BY <1>2, <1>7, MessageFields
<1>10. wire \in Seq(EventRecord)
  BY <1>1 DEF SessionHolds, WireHolds
<1>11. \/ wire' = wire \o <<d>>
       \/ wire' = wire \o <<i>>
       \/ wire' = wire \o <<d, i>>
  BY DEF EmitMessage, other
<1> HIDE DEF d, i
<1>12. \/ wire' = Append(wire, d)
       \/ wire' = Append(wire, i)
       \/ wire' = Append(Append(wire, d), i)
  BY <1>8, <1>9, <1>10, <1>11
<1>13. Newest(n, wire, call, loop) /\ Newest(n + 1, wire, call, loop)
  BY <1>1, <1>2, NewestNumber
<1>14. EventHolds(d, server') /\ d.text.number = n
  BY <1>2, <1>4, <1>5, <1>8 DEF EventHolds, IsMessage
<1>15. EventHolds(i, server') /\ i.text.number = n + 1
  BY <1>2, <1>4, <1>5, <1>7, <1>9 DEF EventHolds, IsMessage
<1>16. SessionHolds(server', Append(wire, d), call, loop, steps)
  BY <1>1, <1>6, <1>8, <1>13, <1>14, EventSent
<1>17. SessionHolds(server', Append(wire, i), call, loop, steps)
  BY <1>1, <1>6, <1>9, <1>13, <1>15, EventSent
<1>18. SessionHolds(server', Append(Append(wire, d), i), call, loop, steps)
  <2>1. Newest(n + 1, Append(wire, d), call, loop)
    BY <1>2, <1>5, <1>8, <1>10, <1>13, <1>14, ItemAfterDelta
  <2>2. ServerGoes(server', server')
    BY <1>6, ServerStays DEF ServerGoes
  <2> QED BY <1>9, <1>15, <1>16, <2>1, <2>2, EventSent
<1> QED BY <1>3, <1>12, <1>16, <1>17, <1>18, NextIsMain

\* An event without a message is sent.
LEMMA NoticeSent ==
  ASSUME MainInv, UNCHANGED <<call, loop, steps>>, ServerGoes(server, server'),
         NEW kind \in EventKinds \ {"delta", "item"}, NEW status \in Endings, NEW id \in Nat,
         wire' = Append(wire, Event(kind, server.turn, NoText, status, id)),
         kind = "done" => status # "none" /\ Over(server', server.turn)
  PROVE  MainInv'
<1> DEFINE e == Event(kind, server.turn, NoText, status, id)
<1>1. SessionHolds(server, wire, call, loop, steps) /\ server.turn \in Nat /\ server'.turn \in Nat
      /\ server.turn <= server'.turn
  BY SessionIsMain DEF MainInv, ServerHolds, ServerGoes
<1>2. e \in EventRecord /\ e.kind = kind /\ e.turn = server.turn /\ e.status = status
  BY <1>1, NoticeFields
<1> HIDE DEF e
<1>3. EventHolds(e, server') /\ ~IsMessage(e)
  BY <1>1, <1>2 DEF EventHolds, IsMessage
<1>4. SessionHolds(server', Append(wire, e), call, loop, steps)
  BY <1>1, <1>2, <1>3, EventSent
<1> QED BY <1>4, NextIsMain DEF e

LEMMA ToolEmitted ==
  ASSUME MainInv, NEW kind \in {"tool", "file"}, EmitTool(kind) PROVE MainInv'
<1>1. ServerHolds(server) /\ kind \in EventKinds \ {"delta", "item"} /\ "none" \in Endings
  BY DEF MainInv, EventKinds, Endings
<1>2. UNCHANGED <<call, loop, steps>> /\ server' = [server EXCEPT !.tools = @ + 1]
      /\ wire' = Append(wire, Event(kind, server.turn, NoText, "none", 0))
  BY DEF EmitTool, Notice
<1>3. ServerGoes(server, server')
  <2>1. /\ ServerFields \subseteq DOMAIN server' /\ server'.nextId = server.nextId
        /\ server'.turn = server.turn /\ server'.running = server.running
        /\ server'.emitted = server.emitted /\ server'.requests = server.requests
    BY <1>1, <1>2 DEF ServerHolds, ServerFields
  <2>2. server'.nextId \in Nat /\ RequestsHold(server'.requests)
    BY <1>1, <2>1 DEF ServerHolds
  <2> QED BY <1>1, <2>1, <2>2, ServerQuiet
<1> QED BY <1>1, <1>2, <1>3, NoticeSent

LEMMA TurnEnded ==
  ASSUME MainInv, NEW status \in {"completed", "interrupted", "failed", "cancelled"},
         TurnEnds(status)
  PROVE  MainInv'
<1>1. ServerHolds(server) /\ "done" \in EventKinds \ {"delta", "item"} /\ status \in Endings
      /\ status # "none"
  BY DEF MainInv, EventKinds, Endings
<1>2. UNCHANGED <<call, loop, steps>> /\ server' = [server EXCEPT !.running = FALSE]
      /\ wire' = Append(wire, Event("done", server.turn, NoText, status, 0))
  BY DEF TurnEnds, Done
<1>3. /\ ServerFields \subseteq DOMAIN server' /\ server'.nextId = server.nextId
      /\ server'.turn = server.turn /\ server'.running = FALSE
      /\ server'.emitted = server.emitted /\ server'.requests = server.requests
  BY <1>1, <1>2 DEF ServerHolds, ServerFields
<1>4. /\ server.turn \in Nat /\ LastNumber(server) \in Nat /\ ServerHolds(server')
      /\ LastNumber(server') = LastNumber(server)
  BY <1>1, <1>3 DEF ServerHolds, LastNumber
<1>5. \A u \in Nat : Over(server, u) => Over(server', u)
  BY <1>3, <1>4 DEF Over
<1>6. ServerGoes(server, server') /\ Over(server', server.turn)
  BY <1>3, <1>4, <1>5 DEF ServerGoes, Over
<1> QED BY <1>1, <1>2, <1>6, NoticeSent

LEMMA RequestAnswered == ASSUME MainInv, AnswerRequest PROVE MainInv'
<1> DEFINE request == Head(server.requests)
<1>1. ServerHolds(server) /\ RequestsHold(server.requests) /\ "none" \in Endings
      /\ \A kind \in {"ack", "refused", "unsteerable"} :
           kind \in EventKinds \ {"delta", "item"} /\ kind # "done"
  BY DEF MainInv, ServerHolds, EventKinds, Endings
<1>2. /\ UNCHANGED <<call, loop, steps>> /\ server.requests # <<>>
      /\ AnswerInterrupt(request) \/ AnswerSteer(request)
  BY DEF AnswerRequest
<1>3. RequestsHold(Tail(server.requests)) /\ request.id \in Nat
  BY <1>1, <1>2, RequestTaken
<1> HIDE DEF request
<1>4. \E kind \in {"ack", "refused", "unsteerable"} :
        wire' = Append(wire, Event(kind, server.turn, NoText, "none", request.id))
  BY <1>2 DEF AnswerInterrupt, AnswerSteer, ServerReply
<1>5. /\ ServerFields \subseteq DOMAIN server' /\ server'.nextId = server.nextId
      /\ server'.turn = server.turn /\ server'.running = server.running
      /\ server'.emitted = server.emitted /\ server'.requests = Tail(server.requests)
  BY <1>1, <1>2 DEF ServerHolds, ServerFields, AnswerInterrupt, AnswerSteer
<1>6. server'.nextId \in Nat
  BY <1>1, <1>5 DEF ServerHolds
<1>7. ServerGoes(server, server')
  BY <1>1, <1>3, <1>5, <1>6, ServerQuiet
<1> QED BY <1>1, <1>2, <1>3, <1>4, <1>7, NoticeSent

LEMMA ServerSteps == ASSUME MainInv, ServerStep PROVE MainInv'
BY MessageEmitted, ToolEmitted, TurnEnded, RequestAnswered DEF ServerStep

-----------------------------------------------------------------------------
(* The main session: what the loop holds *)

LoopHeld(l) ==
  {l.needTurn.number} \cup {l.pending[i].number : i \in DOMAIN l.pending}
  \cup (IF l.continued.kind = "need" THEN {l.continued.needTurn.number} ELSE {})

CallHeld(c) ==
  {c.queued[i].number : i \in DOMAIN c.queued}
  \cup (IF c.result.kind = "need" THEN {c.result.needTurn.number} ELSE {})

\* The call holds no need.
EmptyCall(c) == c.text.kind = "none" /\ c.queued = <<>> /\ c.result.kind # "need"

LEMMA NeedTurnNumbers == \A x \in NeedTurns : x.number \in Nat /\ x.turn \in Nat
BY DEF NeedTurns

LEMMA LoopNumbers ==
  ASSUME NEW l, NEW log, NEW s, LoopHolds(l, log, s)
  PROVE  /\ LoopHeld(l) \subseteq Nat
         /\ \A n \in Nat : LoopBefore(l, n) <=> \A m \in LoopHeld(l) : m < n
<1>1. \A i \in DOMAIN l.pending : l.pending[i].number \in Nat
  BY QueueElements DEF LoopHolds, QueueHolds
<1>2. LoopHeld(l) \subseteq Nat
  BY <1>1, NeedTurnNumbers DEF LoopHolds, LoopHeld
<1>3. \A n \in Nat : LoopBefore(l, n) <=> \A m \in LoopHeld(l) : m < n
  BY DEF LoopBefore, LoopHeld
<1> QED BY <1>2, <1>3

LEMMA HeldInTurn ==
  ASSUME NEW l, NEW c, NEW w
  PROVE  InTurn(l, c, w) <=>
           /\ \A m \in LoopHeld(l) : NotBefore(c, m)
           /\ \A k \in DOMAIN w : IsMessage(w[k]) =>
                LoopBefore(l, w[k].text.number) /\ NotAfter(c, w[k].text.number)
           /\ ResolvesNext(l, c)
BY DEF InTurn, LoopHeld

LEMMA CallNumbers ==
  ASSUME NEW c, NEW s, ReadingHolds(c, s), NEW n \in Nat, NotAfter(c, n)
  PROVE  \A m \in CallHeld(c) : m < n
BY DEF CallHeld, NotAfter

\* The loop goes on, with no call or with a new one, or between two calls.
LEMMA LoopMoves ==
  ASSUME MainInv, ServerHolds(server'), WireHolds(wire', server'),
         \A k \in DOMAIN wire' : IsMessage(wire'[k]) => k \in DOMAIN wire /\ wire'[k] = wire[k],
         ReadingHolds(call', server'), LoopHolds(loop', steps', server'),
         ResolvesNext(loop', call'),
         \/ EmptyCall(call') /\ LoopHeld(loop') \subseteq LoopHeld(loop) \cup CallHeld(call)
         \/ call' = call /\ LoopHeld(loop') \subseteq LoopHeld(loop)
  PROVE  MainInv'
<1>1. /\ WireHolds(wire, server) /\ ReadingHolds(call, server) /\ InTurn(loop, call, wire)
      /\ LoopHolds(loop, steps, server)
  BY DEF MainInv
<1>2. \A k \in DOMAIN wire : wire[k].text.number \in Nat
  BY <1>1, WireElements DEF WireHolds
<1>3. ASSUME NEW k \in DOMAIN wire', IsMessage(wire'[k])
      PROVE  LoopBefore(loop', wire'[k].text.number) /\ NotAfter(call', wire'[k].text.number)
  <2> DEFINE n == wire'[k].text.number
  <2>1. n \in Nat /\ LoopBefore(loop, n) /\ NotAfter(call, n)
    BY <1>1, <1>2, <1>3 DEF InTurn
  <2> HIDE DEF n
  <2>2. (\A m \in LoopHeld(loop) : m < n) /\ (\A m \in CallHeld(call) : m < n)
    BY <1>1, <2>1, LoopNumbers, CallNumbers
  <2>3. \A m \in LoopHeld(loop') : m < n
    BY <2>2
  <2>4. LoopBefore(loop', n)
    BY <2>1, <2>3, LoopNumbers
  <2>5. NotAfter(call', n)
    BY <2>1 DEF EmptyCall, NotAfter
  <2> QED BY <2>4, <2>5 DEF n
<1>4. \A m \in LoopHeld(loop') : NotBefore(call', m)
  <2>1. CASE EmptyCall(call')
    BY <2>1 DEF EmptyCall, NotBefore
  <2>2. CASE call' = call /\ LoopHeld(loop') \subseteq LoopHeld(loop)
    BY <1>1, <2>2, HeldInTurn
  <2> QED BY <2>1, <2>2
<1>5. InTurn(loop', call', wire')
  BY <1>3, <1>4, HeldInTurn
<1> QED BY <1>5 DEF MainInv

\* A call that has just been made, or none.
LEMMA NewCall ==
  ASSUME NEW c, NEW s, ServerHolds(s), CallFields \subseteq DOMAIN c, c.turn \in Nat,
         c.turn <= s.turn, c.text = NoText, c.tools = FALSE, c.marker = FALSE,
         c.terminal = "none", c.queued = <<>>, "kind" \in DOMAIN c.result,
         c.result.needTurn = NoNeedTurn, c.result.kind \notin {"need", "final"}
  PROVE  ReadingHolds(c, s) /\ EmptyCall(c)
<1>1. NoNeedTurn \in NeedTurns /\ NoNeedTurn.turn = 0 /\ NoNeedTurn.number = 0
  BY DEF NoNeedTurn, NeedTurns, Obligations
<1>2. LastNumber(s) \in Nat /\ s.turn \in Nat
  BY DEF ServerHolds
<1>3. c.queued \in Seq(NeedTurns) /\ DOMAIN c.queued = {}
  OBVIOUS
<1>4. QueueHolds(c.queued, s)
  BY <1>3 DEF QueueHolds, InLine
<1>5. EmptyCall(c)
  BY NoTextFields DEF EmptyCall
<1>6. c.tools \in BOOLEAN /\ c.marker \in BOOLEAN
  OBVIOUS
<1>7. /\ c.text \in TextRecord /\ c.text.kind = "none" /\ c.text.number <= LastNumber(s)
      /\ c.result.needTurn \in NeedTurns
      /\ c.result.needTurn.turn <= s.turn /\ c.result.needTurn.number <= LastNumber(s)
  BY <1>1, <1>2, NoTextFields
<1> QED BY <1>3, <1>4, <1>5, <1>6, <1>7 DEF ReadingHolds, Closes

LEMMA IdleIsEmpty ==
  ASSUME NEW s, ServerHolds(s) PROVE ReadingHolds(IdleCall, s) /\ EmptyCall(IdleCall)
<1> DEFINE c == IdleCall
<1>1. /\ CallFields \subseteq DOMAIN c /\ c.turn = 0 /\ c.text = NoText /\ c.tools = FALSE
      /\ c.marker = FALSE /\ c.terminal = "none" /\ c.queued = <<>> /\ c.result = NoResult
  BY DEF IdleCall, CallFields
<1>2. "kind" \in DOMAIN NoResult /\ NoResult.needTurn = NoNeedTurn /\ NoResult.kind = "none"
  BY DEF NoResult, Result
<1>3. c.turn \in Nat /\ c.turn <= s.turn
  BY <1>1 DEF ServerHolds
<1> HIDE DEF c
<1>4. ReadingHolds(c, s) /\ EmptyCall(c)
  BY <1>1, <1>2, <1>3, NewCall
<1> QED BY <1>4 DEF c

LEMMA CallingIsEmpty ==
  ASSUME NEW s, ServerHolds(s), NEW mode, NEW turn \in Nat, turn <= s.turn
  PROVE  ReadingHolds(Calling(mode, turn), s) /\ EmptyCall(Calling(mode, turn))
<1> DEFINE c == Calling(mode, turn)
<1>1. /\ CallFields \subseteq DOMAIN c /\ c.turn = turn /\ c.text = NoText /\ c.tools = FALSE
      /\ c.marker = FALSE /\ c.terminal = "none" /\ c.queued = <<>> /\ c.result = NoResult
  BY DEF Calling, IdleCall, CallFields
<1>2. "kind" \in DOMAIN NoResult /\ NoResult.needTurn = NoNeedTurn /\ NoResult.kind = "none"
  BY DEF NoResult, Result
<1> HIDE DEF c
<1>3. ReadingHolds(c, s) /\ EmptyCall(c)
  BY <1>1, <1>2, NewCall
<1> QED BY <1>3 DEF c

\* What the server and the call are after a step of the loop.
LoopCalls ==
  /\ ServerGoes(server, server') /\ WireHolds(wire', server')
  /\ \A k \in DOMAIN wire' : IsMessage(wire'[k]) => k \in DOMAIN wire /\ wire'[k] = wire[k]
  /\ ReadingHolds(call', server') /\ EmptyCall(call')

LEMMA LoopStops ==
  ASSUME MainInv, UNCHANGED <<server, wire>>, call' = IdleCall PROVE LoopCalls
<1>1. ServerHolds(server) /\ WireHolds(wire, server)
  BY DEF MainInv
<1>2. ReadingHolds(IdleCall, server) /\ EmptyCall(IdleCall)
  BY <1>1, IdleIsEmpty
<1> QED BY <1>1, <1>2, ServerStays DEF LoopCalls

LEMMA LoopAwaits ==
  ASSUME MainInv, UNCHANGED <<server, wire>>, call' = Calling("await", Turn.turn) PROVE LoopCalls
<1>1. ServerHolds(server) /\ WireHolds(wire, server) /\ LoopHolds(loop, steps, server)
  BY DEF MainInv
<1>2. Turn.turn \in Nat /\ Turn.turn <= server.turn
  BY <1>1, NeedTurnNumbers DEF Turn, LoopHolds
<1>3. ReadingHolds(call', server) /\ EmptyCall(call')
  BY <1>1, <1>2, CallingIsEmpty
<1> QED BY <1>1, <1>3, ServerStays DEF LoopCalls

LEMMA LoopInterrupts ==
  ASSUME MainInv, UNCHANGED wire, NEW turn \in Nat, turn <= server.turn,
         NEW reason, reason \notin {"need", "final"}, Interrupt(turn, reason)
  PROVE  LoopCalls
<1> DEFINE r == Result(reason, NoNeedTurn)
           c == call'
<1>1. ServerHolds(server) /\ WireHolds(wire, server)
  BY DEF MainInv
<1>2. ServerGoes(server, server') /\ ServerHolds(server') /\ server'.turn = server.turn
  <2>1. Sending("interrupt", turn)
    BY DEF Interrupt
  <2>2. ServerGoes(server, server')
    BY <1>1, <2>1, SendingGoes
  <2>3. server'.turn = server.turn
    BY <1>1, <2>1 DEF Sending, ServerHolds, ServerFields
  <2> QED BY <2>2, <2>3 DEF ServerGoes
<1>3. r.kind = reason /\ r.needTurn = NoNeedTurn /\ "kind" \in DOMAIN r
  BY DEF Result
<1>4. c = [Calling("interrupting", turn) EXCEPT !.interrupt = server.nextId, !.result = r]
  BY DEF Interrupt
<1> HIDE DEF r, c
<1>5. /\ CallFields \subseteq DOMAIN c /\ c.turn = turn /\ c.text = NoText /\ c.tools = FALSE
      /\ c.marker = FALSE /\ c.terminal = "none" /\ c.queued = <<>> /\ c.result = r
  BY <1>4 DEF Calling, IdleCall, CallFields
<1>6. ReadingHolds(c, server') /\ EmptyCall(c)
  BY <1>2, <1>3, <1>5, NewCall
<1>7. WireHolds(wire, server')
  BY <1>1, <1>2, WireLater
<1> QED BY <1>2, <1>6, <1>7 DEF LoopCalls, c

\* turn/start: the turn it replaces is over.
LEMMA LoopStarts == ASSUME MainInv, NEW mode, StartTurn(mode) PROVE LoopCalls
<1> DEFINE e == Event("done", server.turn, NoText, "interrupted", 0)
<1>1. SessionHolds(server, wire, call, loop, steps) /\ ServerHolds(server)
      /\ server.turn \in Nat /\ LastNumber(server) \in Nat /\ wire \in Seq(EventRecord)
  BY SessionIsMain DEF MainInv, ServerHolds, WireHolds
<1>2. /\ server' = [server EXCEPT !.turn = @ + 1, !.running = TRUE, !.stopping = FALSE]
      /\ call' = Calling(mode, server.turn + 1)
      /\ wire' = <<>> \/ wire' = <<e>>
  BY DEF StartTurn, Done
<1>3. /\ ServerFields \subseteq DOMAIN server' /\ server'.turn = server.turn + 1
      /\ server'.emitted = server.emitted /\ server'.running = TRUE
      /\ server'.nextId = server.nextId /\ server'.requests = server.requests
  BY <1>1, <1>2 DEF ServerHolds, ServerFields
<1>4. ServerHolds(server')
  <2>1. server'.turn \in Nat
    BY <1>1, <1>3
  <2>2. server'.running = TRUE
    BY <1>3
  <2>3. server'.running \in BOOLEAN
    BY <2>2
  <2> QED BY <1>1, <1>3, <2>1, <2>3 DEF ServerHolds, LastNumber
<1>5. \A u \in Nat : Over(server, u) => Over(server', u)
  BY <1>1, <1>3 DEF Over
<1>6. ServerGoes(server, server')
  BY <1>1, <1>3, <1>4, <1>5 DEF ServerGoes, LastNumber
<1>7. e \in EventRecord /\ e.kind = "done" /\ e.turn = server.turn /\ e.status = "interrupted"
  <2>1. "done" \in EventKinds /\ "interrupted" \in Endings /\ 0 \in Nat
    BY DEF EventKinds, Endings
  <2> QED BY <1>1, <2>1, NoticeFields
<1> HIDE DEF e
<1>8. EventHolds(e, server') /\ ~IsMessage(e)
  BY <1>1, <1>3, <1>7 DEF EventHolds, IsMessage, Over
<1>9. wire' \in Seq(EventRecord) /\ \A k \in DOMAIN wire' : wire'[k] = e
  <2>1. <<>> \in Seq(EventRecord) /\ DOMAIN <<>> = {}
    OBVIOUS
  <2>2. <<e>> \in Seq(EventRecord) /\ \A k \in DOMAIN <<e>> : <<e>>[k] = e
    BY <1>7
  <2> QED BY <1>2, <2>1, <2>2
<1>10. WireHolds(wire', server')
  BY <1>8, <1>9 DEF WireHolds
<1>11. \A k \in DOMAIN wire' : IsMessage(wire'[k]) => k \in DOMAIN wire /\ wire'[k] = wire[k]
  BY <1>8, <1>9
<1>12. ReadingHolds(call', server') /\ EmptyCall(call')
  <2>1. server.turn + 1 \in Nat /\ server.turn + 1 <= server'.turn
    BY <1>1, <1>3
  <2> QED BY <1>2, <1>4, <2>1, CallingIsEmpty
<1> QED BY <1>6, <1>10, <1>11, <1>12 DEF LoopCalls

-----------------------------------------------------------------------------
(* The main session: the steps of the loop *)

\* The recorded steps are in line and none is later than the need at hand.
RowsHold(log, number) ==
  /\ log \in Seq(StepRecord) /\ InLine(log)
  /\ \A i \in DOMAIN log : log[i].number <= number

LEMMA LastRow ==
  ASSUME NEW log \in Seq(StepRecord), log # <<>>
  PROVE  log[Len(log)] \in StepRecord /\ Len(log) \in DOMAIN log
OBVIOUS

\* Only the last step changes, and not its number.
LEMMA RowsMarked ==
  ASSUME NEW log, NEW number, RowsHold(log, number), NEW x,
         log # <<>> => x \in StepRecord /\ x.number = log[Len(log)].number
  PROVE  RowsHold([log EXCEPT ![Len(log)] = x], number)
<1> DEFINE q == [log EXCEPT ![Len(log)] = x]
<1>1. log \in Seq(StepRecord)
  BY DEF RowsHold
<1>2. CASE log = <<>>
  <2>1. q = log
    BY <1>2
  <2> QED BY <2>1
<1>3. CASE log # <<>>
  <2>1. /\ q \in Seq(StepRecord) /\ DOMAIN q = DOMAIN log
        /\ \A i \in DOMAIN q : q[i] = log[i] \/ (i = Len(log) /\ q[i] = x)
    BY <1>1, <1>3
  <2> HIDE DEF q
  <2>2. \A i \in DOMAIN q : q[i].number = log[i].number
    BY <1>3, <2>1
  <2>3. RowsHold(q, number)
    BY <2>1, <2>2 DEF RowsHold, InLine
  <2> QED BY <2>3 DEF q
<1> QED BY <1>2, <1>3

LEMMA RowsRecorded ==
  ASSUME NEW log, NEW number \in Nat, RowsHold(log, number), NEW x \in StepRecord,
         x.number = number, \A i \in DOMAIN log : log[i].number < number
  PROVE  RowsHold(Append(log, x), number)
<1> DEFINE q == Append(log, x)
<1>1. log \in Seq(StepRecord)
  BY DEF RowsHold
<1>2. /\ q \in Seq(StepRecord) /\ Len(log) \in Nat /\ DOMAIN log = 1 .. Len(log)
      /\ DOMAIN q = 1 .. (Len(log) + 1)
      /\ \A i \in DOMAIN q : (i \in DOMAIN log /\ q[i] = log[i])
                             \/ (i = Len(log) + 1 /\ q[i] = x)
  BY <1>1
<1> HIDE DEF q
<1>3. ASSUME NEW i \in DOMAIN q, NEW j \in DOMAIN q, i < j PROVE q[i].number < q[j].number
  <2>1. i \in DOMAIN log /\ q[i] = log[i]
    BY <1>2, <1>3
  <2> QED BY <1>2, <1>3, <2>1 DEF RowsHold, InLine
<1>4. \A i \in DOMAIN q : q[i].number <= number
  BY <1>2 DEF RowsHold
<1>5. RowsHold(q, number)
  BY <1>2, <1>3, <1>4 DEF RowsHold, InLine
<1> QED BY <1>5 DEF q

LEMMA NoResultFields ==
  /\ "kind" \in DOMAIN NoResult /\ NoResult.kind = "none" /\ NoResult.needTurn = NoNeedTurn
  /\ NoNeedTurn \in NeedTurns /\ NoNeedTurn.turn = 0 /\ NoNeedTurn.number = 0
BY DEF NoResult, Result, NoNeedTurn, NeedTurns, Obligations

\* The loop keeps its needs, or drops those that wait.
LEMMA LoopChanges ==
  ASSUME NEW l, NEW m, NEW log, NEW q, NEW s, ServerHolds(s), LoopHolds(l, log, s),
         LoopFields \subseteq DOMAIN m, \E S : m.ledger \in Seq(S),
         m.needTurn \in NeedTurns, m.needTurn.turn = l.needTurn.turn,
         m.needTurn.number = l.needTurn.number,
         m.pending = l.pending \/ m.pending = <<>>,
         m.continued = l.continued \/ m.continued = NoResult,
         m.pc \in {"start", "first"} => l.pc \in {"start", "first"},
         RowsHold(q, l.needTurn.number), RowsFresh(m, q)
  PROVE  LoopHolds(m, q, s) /\ LoopHeld(m) \subseteq LoopHeld(l)
<1>1. s.turn \in Nat /\ LastNumber(s) \in Nat
  BY DEF ServerHolds
<1>2. QueueHolds(m.pending, s) /\ \A i \in DOMAIN m.pending : i \in DOMAIN l.pending
                                                           /\ m.pending[i] = l.pending[i]
  <2>1. CASE m.pending = <<>>
    <3>1. m.pending \in Seq(NeedTurns) /\ DOMAIN m.pending = {}
      BY <2>1
    <3> QED BY <3>1 DEF QueueHolds, InLine
  <2>2. CASE m.pending = l.pending
    BY <2>2 DEF LoopHolds
  <2> QED BY <2>1, <2>2
<1>3. "kind" \in DOMAIN m.continued /\ m.continued.needTurn \in NeedTurns
      /\ m.continued.needTurn.turn <= s.turn /\ m.continued.needTurn.number <= LastNumber(s)
      /\ (m.continued.kind = "need" => m.continued = l.continued)
  <2>1. CASE m.continued = NoResult
    BY <1>1, <2>1, NoResultFields
  <2>2. CASE m.continued = l.continued
    BY <2>2 DEF LoopHolds
  <2> QED BY <2>1, <2>2
<1>4. LoopHeld(m) \subseteq LoopHeld(l)
  BY <1>2, <1>3 DEF LoopHeld
<1>5. m.needTurn.turn <= s.turn /\ m.needTurn.number <= LastNumber(s)
      /\ (\A i \in DOMAIN m.pending : m.needTurn.number < m.pending[i].number)
      /\ (m.continued.kind = "need" =>
            /\ m.needTurn.number < m.continued.needTurn.number
            /\ \A i \in DOMAIN m.pending : m.pending[i].number < m.continued.needTurn.number)
  BY <1>2, <1>3 DEF LoopHolds
<1>6. m.pc \in {"start", "first"} => m.pending = <<>> /\ m.continued.kind # "need"
  BY <1>3 DEF LoopHolds
<1> QED BY <1>2, <1>3, <1>4, <1>5, <1>6 DEF LoopHolds, RowsHold

LEMMA LoopGoes ==
  ASSUME MainInv, LoopCalls, LoopHolds(loop', steps', server),
         LoopHeld(loop') \subseteq LoopHeld(loop) \cup CallHeld(call),
         ResolvesNext(loop', call')
  PROVE  MainInv'
<1>1. ServerHolds(server) /\ ServerHolds(server')
  BY DEF MainInv, LoopCalls, ServerGoes
<1>2. LoopHolds(loop', steps', server')
  BY <1>1, LoopLater DEF LoopCalls
<1> QED BY <1>1, <1>2, LoopMoves DEF LoopCalls

LEMMA LoopWaits ==
  ASSUME MainInv, UNCHANGED <<server, wire, call>>, LoopHolds(loop', steps', server),
         LoopHeld(loop') \subseteq LoopHeld(loop), ResolvesNext(loop', call')
  PROVE  MainInv'
<1>1. ServerHolds(server) /\ WireHolds(wire, server) /\ ReadingHolds(call, server)
  BY DEF MainInv
<1> QED BY <1>1, LoopMoves

\* The loop changes no more than where it is and what it counts.
LoopTakes(m) ==
  /\ LoopFields \subseteq DOMAIN m
  /\ m.ledger = loop.ledger \/ \E S : m.ledger \in Seq(S)
  /\ m.needTurn = loop.needTurn
  /\ m.pending = loop.pending \/ m.pending = <<>>
  /\ m.continued = loop.continued \/ m.continued = NoResult
  /\ m.pc \in {"start", "first"} => loop.pc \in {"start", "first"}

\* It leaves the places where its need has just come or has just been recorded.
LoopKept(m) == LoopTakes(m) /\ m.pc \notin {"need", "interrupted", "resolve"}

LEMMA KeptIsFresh ==
  ASSUME NEW m, NEW log, NEW c, LoopKept(m) PROVE RowsFresh(m, log) /\ ResolvesNext(m, c)
BY DEF LoopKept, RowsFresh, Unrecorded, ResolvesNext

LEMMA LoopKeeps ==
  ASSUME MainInv, LoopTakes(loop'), RowsHold(steps', Turn.number), RowsFresh(loop', steps')
  PROVE  LoopHolds(loop', steps', server) /\ LoopHeld(loop') \subseteq LoopHeld(loop)
<1>1. ServerHolds(server) /\ LoopHolds(loop, steps, server)
  BY DEF MainInv
<1>2. loop'.needTurn \in NeedTurns /\ \E S : loop'.ledger \in Seq(S)
  BY <1>1 DEF LoopHolds, LoopTakes
<1> QED BY <1>1, <1>2, LoopChanges DEF LoopTakes, Turn

\* What the proofs below need of the loop and the steps.
LEMMA LoopFacts ==
  ASSUME MainInv
  PROVE  /\ LoopFields \subseteq DOMAIN loop /\ RowsHold(steps, Turn.number)
         /\ Turn \in NeedTurns /\ Turn.number \in Nat /\ Turn.turn \in Nat
         /\ Turn.turn <= server.turn /\ Turn.need \in Obligations /\ Turn.tainted \in BOOLEAN
         /\ steps \in Seq(StepRecord) /\ call.tools \in BOOLEAN /\ Ordinal \in Nat
<1>1. LoopHolds(loop, steps, server) /\ ReadingHolds(call, server)
  BY DEF MainInv
<1>2. Turn \in NeedTurns
  BY <1>1 DEF LoopHolds, Turn
<1>3. Ordinal \in Nat
  <2>1. PICK S : loop.ledger \in Seq(S)
    BY <1>1 DEF LoopHolds
  <2> QED BY <2>1 DEF Ordinal
<1>4. Turn.number \in Nat /\ Turn.turn \in Nat /\ Turn.need \in Obligations
      /\ Turn.tainted \in BOOLEAN
  BY <1>2 DEF NeedTurns
<1> QED BY <1>1, <1>2, <1>3, <1>4 DEF LoopHolds, RowsHold, Turn, ReadingHolds

LEMMA MarkedHolds ==
  ASSUME MainInv, NEW state \in StepStates PROVE RowsHold(Marked(state), Turn.number)
<1>1. RowsHold(steps, Turn.number) /\ steps \in Seq(StepRecord)
  BY LoopFacts
<1> DEFINE y == steps[Len(steps)]
           x == [y EXCEPT !.state = state]
<1>2. steps # <<>> => x \in StepRecord /\ x.number = y.number
  <2>1. steps # <<>> => y \in StepRecord
    BY <1>1, LastRow
  <2> HIDE DEF y
  <2> QED BY <2>1 DEF StepRecord
<1>3. RowsHold([steps EXCEPT ![Len(steps)] = x], Turn.number)
  <2> HIDE DEF x
  <2> QED BY <1>1, <1>2, RowsMarked
<1> QED BY <1>3 DEF Marked

LEMMA RecordedHolds ==
  ASSUME MainInv, Unrecorded(loop)
  PROVE  /\ RowsHold(Recorded(NewStep(Ordinal, Turn)), Turn.number)
         /\ RowsHold(Recorded([NewStep(Ordinal, Turn) EXCEPT !.state = "native_fallback",
                                                             !.tainted = FALSE]), Turn.number)
<1> DEFINE x == NewStep(Ordinal, Turn)
           y == [x EXCEPT !.state = "native_fallback", !.tainted = FALSE]
<1>1. /\ RowsHold(steps, Turn.number) /\ Ordinal \in Nat /\ Turn.need \in Obligations
      /\ Turn.number \in Nat /\ Turn.tainted \in BOOLEAN
  BY LoopFacts
<1>f. \A i \in DOMAIN steps : steps[i].number < Turn.number
  BY DEF MainInv, LoopHolds, RowsFresh, Turn
<1>2. x \in StepRecord /\ x.number = Turn.number
  <2>1. {} \in Obligations /\ "resolving" \in StepStates
    BY DEF Obligations, StepStates
  <2> QED BY <1>1, <2>1 DEF NewStep, StepRecord
<1>3. y \in StepRecord /\ y.number = Turn.number
  <2> HIDE DEF x
  <2>1. "native_fallback" \in StepStates
    BY DEF StepStates
  <2> QED BY <1>2, <2>1 DEF StepRecord
<1> HIDE DEF x, y
<1>4. RowsHold(Append(steps, x), Turn.number) /\ RowsHold(Append(steps, y), Turn.number)
  BY <1>1, <1>f, <1>2, <1>3, RowsRecorded
<1> QED BY <1>4 DEF Recorded, x, y

LEMMA KeptGoes ==
  ASSUME MainInv, LoopCalls, LoopKept(loop'), RowsHold(steps', Turn.number) PROVE MainInv'
BY LoopKeeps, LoopGoes, KeptIsFresh DEF LoopKept

LEMMA KeptWaits ==
  ASSUME MainInv, UNCHANGED <<server, wire, call>>, LoopKept(loop'),
         RowsHold(steps', Turn.number)
  PROVE  MainInv'
BY LoopKeeps, LoopWaits, KeptIsFresh DEF LoopKept

\* The loop goes to another place.
LEMMA PcMoves ==
  ASSUME MainInv, NEW pc, pc \in {"start", "first"} => loop.pc \in {"start", "first"},
         loop' = [loop EXCEPT !.pc = pc]
  PROVE  /\ LoopTakes(loop') /\ loop'.pc = pc /\ Limited(loop') = Limited(loop)
         /\ pc \notin {"need", "interrupted", "resolve"} => LoopKept(loop')
<1>1. LoopTakes(loop') /\ loop'.pc = pc /\ loop'.ledger = loop.ledger
  BY LoopFacts DEF LoopTakes, LoopFields
<1> QED BY <1>1 DEF LoopKept, Limited

LEMMA StopKept == ASSUME MainInv, NEW outcome, Stop(outcome) PROVE LoopKept(loop')
BY LoopFacts DEF Stop, LoopKept, LoopTakes, LoopFields

LEMMA FellBack ==
  ASSUME MainInv, NEW recorded, RowsHold(recorded, Turn.number), FallBack(recorded)
  PROVE  MainInv'
<1>1. steps' = recorded /\ loop' = [loop EXCEPT !.pc = "fallback"] /\ StartTurn("native")
  BY DEF FallBack
<1>2. LoopKept(loop') /\ LoopCalls
  BY <1>1, PcMoves, LoopStarts
<1> QED BY <1>1, <1>2, KeptGoes

LEMMA Stopped ==
  ASSUME MainInv, NEW outcome, Stop(outcome), call' = IdleCall, UNCHANGED <<server, wire>>,
         RowsHold(steps', Turn.number)
  PROVE  MainInv'
<1>1. LoopKept(loop') /\ LoopCalls
  BY StopKept, LoopStops
<1> QED BY <1>1, KeptGoes

LEMMA FirstStarted == ASSUME MainInv, First PROVE MainInv'
<1>1. loop' = [loop EXCEPT !.pc = "first"] /\ loop.pc = "start" /\ steps' = steps
      /\ \E mode : StartTurn(mode)
  BY DEF First
<1>2. LoopKept(loop') /\ LoopCalls
  BY <1>1, PcMoves, LoopStarts
<1> QED BY <1>1, <1>2, KeptGoes, LoopFacts

LEMMA ContinueStarted == ASSUME MainInv, Continue PROVE MainInv'
<1>1. loop' = [loop EXCEPT !.pc = "fallback"] /\ steps' = steps /\ StartTurn("continuation")
  BY DEF Continue
<1>2. LoopKept(loop') /\ LoopCalls
  BY <1>1, PcMoves, LoopStarts
<1> QED BY <1>1, <1>2, KeptGoes, LoopFacts

LEMMA NextStarted == ASSUME MainInv, NextTurn PROVE MainInv'
<1>1. loop' = [loop EXCEPT !.pc = "observe"] /\ steps' = steps /\ StartTurn("next")
  BY DEF NextTurn
<1>2. LoopKept(loop') /\ LoopCalls
  BY <1>1, PcMoves, LoopStarts
<1> QED BY <1>1, <1>2, KeptGoes, LoopFacts

\* The turn of the need is interrupted.
LEMMA InterruptMoves ==
  ASSUME MainInv, NEW reason, reason \notin {"need", "final"}, Interrupt(Turn.turn, reason),
         loop' = [loop EXCEPT !.pc = "interrupted"], UNCHANGED <<wire, steps>>,
         loop.pc = "need" \/ ~Limited(loop), reason = "resolving" => ~Limited(loop)
  PROVE  MainInv'
<1>1. /\ LoopTakes(loop') /\ LoopCalls /\ loop'.pc = "interrupted"
      /\ Limited(loop') = Limited(loop) /\ loop'.needTurn = loop.needTurn
  BY PcMoves, LoopInterrupts, LoopFacts DEF LoopTakes
<1>2. RowsFresh(loop', steps')
  BY <1>1 DEF RowsFresh, Unrecorded, MainInv, LoopHolds
<1>3. ResolvesNext(loop', call')
  <2>1. call'.result.kind = reason
    BY DEF Interrupt, Calling, IdleCall, Result
  <2> QED BY <1>1, <2>1 DEF ResolvesNext
<1> QED BY <1>1, <1>2, <1>3, LoopKeeps, LoopGoes, LoopFacts

LEMMA NeedLimitHit == ASSUME MainInv, HitNeedLimit PROVE MainInv'
<1> DEFINE q == Recorded([NewStep(Ordinal, Turn) EXCEPT !.state = "native_fallback",
                                                        !.tainted = FALSE])
<1>1. \/ /\ Interrupt(Turn.turn, "at limit")
         /\ loop' = [loop EXCEPT !.pc = "interrupted"] /\ UNCHANGED <<wire, steps>>
      \/ FallBack(q)
  BY DEF HitNeedLimit
<1>2. RowsHold(q, Turn.number) /\ loop.pc = "need"
  BY RecordedHolds DEF HitNeedLimit, Unrecorded
<1> HIDE DEF q
<1>3. CASE FallBack(q)
  BY <1>2, <1>3, FellBack
<1>4. CASE /\ Interrupt(Turn.turn, "at limit")
           /\ loop' = [loop EXCEPT !.pc = "interrupted"] /\ UNCHANGED <<wire, steps>>
  BY <1>2, <1>4, InterruptMoves
<1> QED BY <1>1, <1>3, <1>4

LEMMA WorkerLimitHit == ASSUME MainInv, HitWorkerLimit PROVE MainInv'
<1>1. \/ /\ Interrupt(Turn.turn, "at limit")
         /\ loop' = [loop EXCEPT !.pc = "interrupted"] /\ UNCHANGED <<wire, steps>>
      \/ FallBack(Marked("native_fallback"))
  BY DEF HitWorkerLimit
<1>2. RowsHold(Marked("native_fallback"), Turn.number)
  BY MarkedHolds DEF StepStates
<1>3. CASE FallBack(Marked("native_fallback"))
  BY <1>2, <1>3, FellBack
<1>4. CASE /\ Interrupt(Turn.turn, "at limit")
           /\ loop' = [loop EXCEPT !.pc = "interrupted"] /\ UNCHANGED <<wire, steps>>
  <2>1. ~Limited(loop)
    BY DEF HitWorkerLimit, MainInv, LoopHolds, RowsFresh
  <2> QED BY <1>4, <2>1, InterruptMoves
<1> QED BY <1>1, <1>3, <1>4

LEMMA ToResolveInterrupted == ASSUME MainInv, InterruptToResolve PROVE MainInv'
<1>1. ~Limited(loop)
  BY DEF InterruptToResolve, MayResolve, MainInv, LoopHolds, RowsFresh
<1> QED BY <1>1, InterruptMoves DEF InterruptToResolve

LEMMA StepRecorded == ASSUME MainInv, RecordStep PROVE MainInv'
<1>1. UNCHANGED <<server, wire, call>> /\ steps' = Recorded(NewStep(Ordinal, Turn))
      /\ loop' = [loop EXCEPT !.pc = "resolve"] /\ loop.pc = "need" /\ ~LimitReached
  BY DEF RecordStep
<1>2. RowsHold(steps', Turn.number)
  BY <1>1, RecordedHolds DEF Unrecorded
<1>3. LoopTakes(loop') /\ loop'.pc = "resolve" /\ ~Limited(loop')
  <2>1. ~Limited(loop)
    BY <1>1 DEF LimitReached, Ordinal, Limited
  <2> QED BY <1>1, <2>1, PcMoves
<1>4. RowsFresh(loop', steps') /\ ResolvesNext(loop', call')
  BY <1>3 DEF RowsFresh, Unrecorded, ResolvesNext
<1> QED BY <1>1, <1>2, <1>3, <1>4, LoopKeeps, LoopWaits

\* The satisfied obligations of the last step are recorded.
LEMMA SatisfiedHolds ==
  ASSUME MainInv, NEW satisfied \in Obligations
  PROVE  RowsHold([steps EXCEPT ![Len(steps)] = [@ EXCEPT !.satisfied = satisfied]], Turn.number)
<1>1. RowsHold(steps, Turn.number) /\ steps \in Seq(StepRecord)
  BY LoopFacts
<1> DEFINE y == steps[Len(steps)]
           x == [y EXCEPT !.satisfied = satisfied]
<1>2. steps # <<>> => x \in StepRecord /\ x.number = y.number
  <2>1. steps # <<>> => y \in StepRecord
    BY <1>1, LastRow
  <2> HIDE DEF y
  <2> QED BY <2>1 DEF StepRecord
<1>3. RowsHold([steps EXCEPT ![Len(steps)] = x], Turn.number)
  <2> HIDE DEF x
  <2> QED BY <1>1, <1>2, RowsMarked
<1> QED BY <1>3

LEMMA AnswerReused == ASSUME MainInv, ReuseAnswer PROVE MainInv'
<1>1. CASE FallBack(Marked("native_fallback"))
  <2>1. RowsHold(Marked("native_fallback"), Turn.number)
    BY MarkedHolds DEF StepStates
  <2> QED BY <1>1, <2>1, FellBack
<1>2. CASE /\ steps' = [steps EXCEPT ![Len(steps)] = [@ EXCEPT !.satisfied = Turn.need]]
           /\ loop' = [loop EXCEPT !.pc = "deliver", !.repeats[Turn.need] = @ + 1]
           /\ UNCHANGED <<server, wire, call>>
  <2>1. LoopKept(loop')
    BY <1>2, LoopFacts DEF LoopKept, LoopTakes, LoopFields
  <2>2. RowsHold(steps', Turn.number)
    BY <1>2, SatisfiedHolds, LoopFacts
  <2> QED BY <1>2, <2>1, <2>2, KeptWaits
<1> QED BY <1>1, <1>2 DEF ReuseAnswer

LEMMA BackgroundStarted == ASSUME MainInv, ResolveInBackground PROVE MainInv'
<1>1. UNCHANGED <<server, wire, steps>> /\ call' = Calling("await", Turn.turn)
      /\ loop' = [loop EXCEPT !.pc = "await", !.attempted = TRUE]
  BY DEF ResolveInBackground
<1>2. LoopKept(loop') /\ LoopCalls
  BY <1>1, LoopFacts, LoopAwaits DEF LoopKept, LoopTakes, LoopFields
<1> QED BY <1>1, <1>2, KeptGoes, LoopFacts

LEMMA ResolverEnded ==
  ASSUME MainInv, NEW state, ResolverEnds(state) PROVE MainInv'
BY DEF ResolverEnds, MainInv

LEMMA InLineResolved ==
  ASSUME MainInv, NEW satisfied, NEW spawned, ResolveInLine(satisfied, spawned) PROVE MainInv'
<1>1. /\ UNCHANGED <<server, wire, call>> /\ satisfied \subseteq Turn.need
      /\ steps' = [steps EXCEPT ![Len(steps)] = [@ EXCEPT !.satisfied = satisfied]]
      /\ loop' = [loop EXCEPT !.pc = "deliver", !.workers = IF spawned THEN @ + 1 ELSE @]
  BY DEF ResolveInLine, Resolved
<1>2. satisfied \in Obligations
  BY <1>1, LoopFacts DEF Obligations
<1>3. LoopKept(loop')
  BY <1>1, LoopFacts DEF LoopKept, LoopTakes, LoopFields
<1>4. RowsHold(steps', Turn.number)
  BY <1>1, <1>2, SatisfiedHolds
<1> QED BY <1>1, <1>3, <1>4, KeptWaits

LEMMA InLineFailed == ASSUME MainInv, ResolveInLineFails PROVE MainInv'
<1>1. FallBack(Marked("native_fallback"))
  BY DEF ResolveInLineFails
<1>2. RowsHold(Marked("native_fallback"), Turn.number)
  BY MarkedHolds DEF StepStates
<1> QED BY <1>1, <1>2, FellBack

LEMMA Delivered == ASSUME MainInv, Deliver PROVE MainInv'
<1>1. CASE call' = Calling("await", Turn.turn) /\ loop' = [loop EXCEPT !.pc = "await"]
  <2>1. LoopKept(loop') /\ LoopCalls /\ steps' = steps
    BY <1>1, PcMoves, LoopAwaits DEF Deliver
  <2> QED BY <2>1, KeptGoes, LoopFacts
<1>2. CASE loop' = [loop EXCEPT !.pc = "resolved"] /\ UNCHANGED call
  <2>1. LoopKept(loop') /\ UNCHANGED <<server, wire, call, steps>>
    BY <1>2, PcMoves DEF Deliver
  <2> QED BY <2>1, KeptWaits, LoopFacts
<1> QED BY <1>1, <1>2 DEF Deliver

\* The taint of the last step is recorded.
LEMMA TaintHolds ==
  ASSUME MainInv, NEW tainted \in BOOLEAN
  PROVE  RowsHold([steps EXCEPT ![Len(steps)] = [@ EXCEPT !.tainted = tainted]], Turn.number)
<1>1. RowsHold(steps, Turn.number) /\ steps \in Seq(StepRecord)
  BY LoopFacts
<1> DEFINE y == steps[Len(steps)]
           x == [y EXCEPT !.tainted = tainted]
<1>2. steps # <<>> => x \in StepRecord /\ x.number = y.number
  <2>1. steps # <<>> => y \in StepRecord
    BY <1>1, LastRow
  <2> HIDE DEF y
  <2> QED BY <2>1 DEF StepRecord
<1>3. RowsHold([steps EXCEPT ![Len(steps)] = x], Turn.number)
  <2> HIDE DEF x
  <2> QED BY <1>1, <1>2, RowsMarked
<1> QED BY <1>3

\* A step ends with its taint.
LEMMA EndedHolds ==
  ASSUME MainInv, NEW state \in StepStates, NEW tainted,
         steps # <<>> => tainted \in BOOLEAN
  PROVE  RowsHold([steps EXCEPT ![Len(steps)] =
                     [@ EXCEPT !.state = state, !.tainted = tainted]], Turn.number)
<1>1. RowsHold(steps, Turn.number) /\ steps \in Seq(StepRecord)
  BY LoopFacts
<1> DEFINE y == steps[Len(steps)]
           x == [y EXCEPT !.state = state, !.tainted = tainted]
<1>2. steps # <<>> => x \in StepRecord /\ x.number = y.number
  <2>1. steps # <<>> => y \in StepRecord
    BY <1>1, LastRow
  <2> HIDE DEF y
  <2> QED BY <2>1 DEF StepRecord
<1>3. RowsHold([steps EXCEPT ![Len(steps)] = x], Turn.number)
  <2> HIDE DEF x
  <2> QED BY <1>1, <1>2, RowsMarked
<1> QED BY <1>3

LEMMA InterruptionOver == ASSUME MainInv, Interrupted PROVE MainInv'
<1>1. RowsHold(steps, Turn.number)
  BY LoopFacts
<1>2. CASE call.result.kind = "at limit"
  <2> DEFINE q == IF LimitReached
                  THEN Recorded([NewStep(Ordinal, Turn) EXCEPT
                                        !.state = "native_fallback", !.tainted = FALSE])
                  ELSE Marked("native_fallback")
  <2>1. FallBack(q)
    BY <1>2 DEF Interrupted
  <2>2. RowsHold(q, Turn.number)
    <3>1. LimitReached => Unrecorded(loop)
      BY DEF Interrupted, Unrecorded, Limited, LimitReached, Ordinal
    <3> QED BY <3>1, RecordedHolds, MarkedHolds DEF StepStates
  <2> HIDE DEF q
  <2> QED BY <2>1, <2>2, FellBack
<1>3. CASE call.result.kind = "resolving"
  <2>1. /\ loop' = [loop EXCEPT !.pc = "resolve", !.needTurn.active = FALSE]
        /\ steps' = [steps EXCEPT ![Len(steps)] = [@ EXCEPT !.tainted = call.tools]]
        /\ call' = IdleCall /\ UNCHANGED <<server, wire>>
    BY <1>3 DEF Interrupted
  <2>2. RowsHold(steps', loop.needTurn.number)
    BY <2>1, TaintHolds, LoopFacts DEF Turn
  <2>3. ServerHolds(server) /\ LoopHolds(loop, steps, server)
    BY DEF MainInv
  <2>4. /\ LoopFields \subseteq DOMAIN loop' /\ loop'.ledger = loop.ledger
        /\ loop'.needTurn = [loop.needTurn EXCEPT !.active = FALSE]
        /\ loop'.pending = loop.pending /\ loop'.continued = loop.continued
        /\ loop'.pc = "resolve"
    BY <2>1, LoopFacts DEF LoopFields
  <2>5. loop'.needTurn \in NeedTurns /\ loop'.needTurn.turn = loop.needTurn.turn
        /\ loop'.needTurn.number = loop.needTurn.number
    BY <2>3, <2>4 DEF LoopHolds, NeedTurns
  <2>6. \E S : loop'.ledger \in Seq(S)
    BY <2>3, <2>4 DEF LoopHolds
  <2>7. RowsFresh(loop', steps') /\ ResolvesNext(loop', call')
    <3>1. ~Limited(loop)
      BY <1>3 DEF Interrupted, MainInv, InTurn, ResolvesNext
    <3> QED BY <2>4, <3>1 DEF RowsFresh, Unrecorded, ResolvesNext, Limited
  <2>8. LoopHolds(loop', steps', server) /\ LoopHeld(loop') \subseteq LoopHeld(loop)
    BY <2>2, <2>3, <2>4, <2>5, <2>6, <2>7, LoopChanges
  <2> QED BY <2>1, <2>7, <2>8, LoopGoes, LoopStops
<1>4. CASE call.result.kind \notin {"at limit", "resolving"}
  <2>1. Stop("failed") /\ call' = IdleCall /\ UNCHANGED <<server, wire, steps>>
    BY <1>4 DEF Interrupted
  <2> QED BY <1>1, <2>1, Stopped
<1> QED BY <1>2, <1>3, <1>4

LEMMA ContinuationFailed == ASSUME MainInv, ContinuedFails PROVE MainInv'
<1>1. RowsHold(steps, Turn.number) /\ steps \in Seq(StepRecord) /\ call.tools \in BOOLEAN
  BY LoopFacts
<1>2. CASE call.result.kind = "resolver failed"
  <2> DEFINE y == steps[Len(steps)]
             x == [y EXCEPT !.state = "native_fallback", !.tainted = LastStep.tainted \/ call.tools]
  <2>1. FallBack([steps EXCEPT ![Len(steps)] = x])
    BY <1>2 DEF ContinuedFails
  <2>2. steps # <<>> => y \in StepRecord
    BY <1>1, LastRow
  <2>3. steps # <<>> => x \in StepRecord /\ x.number = y.number
    <3> HIDE DEF y
    <3> QED BY <1>1, <2>2 DEF StepRecord, StepStates, LastStep, y
  <2> HIDE DEF x
  <2>4. RowsHold([steps EXCEPT ![Len(steps)] = x], Turn.number)
    BY <1>1, <2>3, RowsMarked
  <2> QED BY <2>1, <2>4, FellBack
<1>3. CASE call.result.kind = "task cancelled" /\ loop.attempted
  <2>1. /\ steps' = [steps EXCEPT ![Len(steps)] =
                       [@ EXCEPT !.state = "cancelled", !.tainted = call.tools]]
        /\ Stop("cancelled") /\ call' = IdleCall /\ UNCHANGED <<server, wire>>
    BY <1>3 DEF ContinuedFails
  <2>2. "cancelled" \in StepStates
    BY DEF StepStates
  <2>3. RowsHold(steps', Turn.number)
    BY <1>1, <2>1, <2>2, EndedHolds
  <2> QED BY <2>1, <2>3, Stopped
<1>4. CASE /\ call.result.kind # "resolver failed"
           /\ ~(call.result.kind = "task cancelled" /\ loop.attempted)
  <2>1. Stop("failed") /\ call' = IdleCall /\ UNCHANGED <<server, wire, steps>>
    BY <1>4 DEF ContinuedFails
  <2> QED BY <1>1, <2>1, Stopped
<1> QED BY <1>2, <1>3, <1>4

LEMMA ResolvedRecorded == ASSUME MainInv, RecordResolved PROVE MainInv'
<1> DEFINE joined == Append(loop.ledger, [need |-> Turn.need, satisfied |-> LastStep.satisfied])
<1>1. \E S : joined \in Seq(S)
  <2> DEFINE x == [need |-> Turn.need, satisfied |-> LastStep.satisfied]
  <2>1. PICK S : loop.ledger \in Seq(S)
    BY DEF MainInv, LoopHolds
  <2> HIDE DEF x
  <2>2. Append(loop.ledger, x) \in Seq(S \cup {x})
    BY <2>1
  <2> QED BY <2>2 DEF x
<1>2. LoopFields \subseteq DOMAIN loop /\ LoopHolds(loop, steps, server)
  BY LoopFacts DEF MainInv
<1> HIDE DEF joined
<1>3. RowsHold(Marked("resolved"), Turn.number) /\ RowsHold(Marked("delivered"), Turn.number)
  BY MarkedHolds DEF StepStates
<1>4. CASE /\ Interrupt(loop.continued.needTurn.turn, "overflow")
           /\ loop' = [loop EXCEPT !.pc = "overflow", !.ledger = joined, !.continued = NoResult]
           /\ steps' = Marked("resolved") /\ UNCHANGED wire
  <2>1. LoopKept(loop')
    BY <1>1, <1>2, <1>4 DEF LoopKept, LoopTakes, LoopFields
  <2>2. loop.continued.needTurn.turn \in Nat /\ loop.continued.needTurn.turn <= server.turn
    BY <1>2, NeedTurnNumbers DEF LoopHolds
  <2>3. LoopCalls
    BY <1>4, <2>2, LoopInterrupts
  <2> QED BY <1>3, <1>4, <2>1, <2>3, KeptGoes
<1>5. CASE /\ steps' = Marked("delivered") /\ StartTurn("native")
           /\ loop' = [loop EXCEPT !.pc = "fallback", !.ledger = joined,
                                   !.pending = <<>>, !.continued = NoResult]
  <2>1. LoopKept(loop')
    BY <1>1, <1>2, <1>5 DEF LoopKept, LoopTakes, LoopFields
  <2> QED BY <1>3, <1>5, <2>1, KeptGoes, LoopStarts
<1>6. CASE /\ steps' = Marked("resolved") /\ UNCHANGED <<server, wire, call>>
           /\ loop' = [loop EXCEPT !.pc = "next", !.ledger = joined]
  <2>1. LoopKept(loop')
    BY <1>1, <1>2, <1>6 DEF LoopKept, LoopTakes, LoopFields
  <2> QED BY <1>3, <1>6, <2>1, KeptWaits
<1> QED BY <1>4, <1>5, <1>6 DEF RecordResolved, joined

LEMMA OverflowEnded == ASSUME MainInv, OverflowInterrupted PROVE MainInv'
<1>1. CASE /\ steps' = Marked("delivered") /\ StartTurn("native")
           /\ loop' = [loop EXCEPT !.pc = "fallback", !.pending = <<>>]
  <2>1. LoopKept(loop')
    BY <1>1, LoopFacts DEF LoopKept, LoopTakes, LoopFields
  <2>2. RowsHold(steps', Turn.number)
    BY <1>1, MarkedHolds DEF StepStates
  <2> QED BY <1>1, <2>1, <2>2, KeptGoes, LoopStarts
<1>2. CASE Stop("failed") /\ call' = IdleCall /\ UNCHANGED <<server, wire, steps>>
  <2>1. RowsHold(steps', Turn.number)
    BY <1>2, LoopFacts
  <2> QED BY <1>2, <2>1, Stopped
<1> QED BY <1>1, <1>2 DEF OverflowInterrupted

LEMMA FallbackObserved == ASSUME MainInv, ObserveFallback PROVE MainInv'
<1>1. /\ call' = IdleCall /\ UNCHANGED <<server, wire, steps>>
      /\ Stop("answered") \/ Stop("failed")
  BY DEF ObserveFallback
<1>2. RowsHold(steps', Turn.number)
  BY <1>1, LoopFacts
<1> QED BY <1>1, <1>2, Stopped

\* Steps that come before a need come before a later one.
LEMMA RowsStay ==
  ASSUME NEW log, NEW n \in Nat, NEW m \in Nat, n < m, RowsHold(log, n)
  PROVE  RowsHold(log, m) /\ \A i \in DOMAIN log : log[i].number < m
<1>1. ASSUME NEW i \in DOMAIN log PROVE log[i].number < m /\ log[i].number <= m
  <2>1. log[i] \in StepRecord /\ log[i].number <= n
    BY DEF RowsHold
  <2>2. log[i].number \in Nat
    BY <2>1 DEF StepRecord
  <2> QED BY <2>1, <2>2
<1> QED BY <1>1 DEF RowsHold

LEMMA HeadOfLine ==
  ASSUME NEW queue, NEW s, QueueHolds(queue, s), queue # <<>>
  PROVE  /\ Head(queue) \in NeedTurns /\ Head(queue).turn <= s.turn
         /\ Head(queue).number <= LastNumber(s)
         /\ QueueHolds(Tail(queue), s)
         /\ \A i \in DOMAIN Tail(queue) : Head(queue).number < Tail(queue)[i].number
         /\ \A i \in DOMAIN Tail(queue) : i + 1 \in DOMAIN queue /\ Tail(queue)[i] = queue[i + 1]
         /\ 1 \in DOMAIN queue /\ Head(queue) = queue[1]
<1>1. queue \in Seq(NeedTurns)
  BY DEF QueueHolds
<1>2. /\ 1 \in DOMAIN queue /\ Head(queue) = queue[1] /\ Tail(queue) \in Seq(NeedTurns)
      /\ \A i \in DOMAIN Tail(queue) : i + 1 \in DOMAIN queue /\ Tail(queue)[i] = queue[i + 1]
                                       /\ i \in Nat \ {0}
  BY <1>1
<1>3. Head(queue) \in NeedTurns
  BY <1>1, <1>2
<1>4. \A i \in DOMAIN Tail(queue) : Head(queue).number < Tail(queue)[i].number
  BY <1>2 DEF QueueHolds, InLine
<1>5. QueueHolds(Tail(queue), s)
  <2>1. ASSUME NEW i \in DOMAIN Tail(queue), NEW j \in DOMAIN Tail(queue), i < j
        PROVE  Tail(queue)[i].number < Tail(queue)[j].number
    <3>1. i + 1 < j + 1 /\ i + 1 \in DOMAIN queue /\ j + 1 \in DOMAIN queue
      BY <1>2, <2>1
    <3> QED BY <1>2, <3>1 DEF QueueHolds, InLine
  <2> QED BY <1>2, <2>1 DEF QueueHolds, InLine
<1> QED BY <1>2, <1>3, <1>4, <1>5 DEF QueueHolds

LEMMA AppendFacts ==
  ASSUME NEW S, NEW queue \in Seq(S), NEW x \in S
  PROVE  /\ Append(queue, x) \in Seq(S) /\ Len(queue) \in Nat
         /\ DOMAIN queue = 1 .. Len(queue)
         /\ DOMAIN Append(queue, x) = 1 .. (Len(queue) + 1) /\ Append(queue, x) # <<>>
         /\ \A i \in DOMAIN Append(queue, x) :
              \/ i \in DOMAIN queue /\ Append(queue, x)[i] = queue[i]
              \/ i = Len(queue) + 1 /\ Append(queue, x)[i] = x
OBVIOUS

\* A queue to which a later need is added.
LEMMA LineGrows ==
  ASSUME NEW queue, NEW s, QueueHolds(queue, s), NEW x \in NeedTurns, x.turn <= s.turn,
         x.number <= LastNumber(s), \A i \in DOMAIN queue : queue[i].number < x.number
  PROVE  /\ QueueHolds(Append(queue, x), s) /\ Append(queue, x) # <<>>
         /\ \A i \in DOMAIN Append(queue, x) :
              (i \in DOMAIN queue /\ Append(queue, x)[i] = queue[i]) \/ Append(queue, x)[i] = x
<1> DEFINE q == Append(queue, x)
<1>1. queue \in Seq(NeedTurns)
  BY DEF QueueHolds
<1>2. /\ q \in Seq(NeedTurns) /\ Len(queue) \in Nat /\ DOMAIN queue = 1 .. Len(queue)
      /\ DOMAIN q = 1 .. (Len(queue) + 1) /\ q # <<>>
      /\ \A i \in DOMAIN q : (i \in DOMAIN queue /\ q[i] = queue[i])
                             \/ (i = Len(queue) + 1 /\ q[i] = x)
  <2> HIDE DEF QueueHolds
  <2> QED BY <1>1, AppendFacts DEF q
<1> HIDE DEF q
<1>3. ASSUME NEW i \in DOMAIN q, NEW j \in DOMAIN q, i < j PROVE q[i].number < q[j].number
  <2>1. i \in DOMAIN queue /\ q[i] = queue[i]
    BY <1>2, <1>3
  <2> QED BY <1>2, <1>3, <2>1 DEF QueueHolds, InLine
<1>4. QueueHolds(q, s)
  BY <1>2, <1>3 DEF QueueHolds, InLine
<1> QED BY <1>2, <1>4 DEF q

\* The loop has a new need at hand.
LEMMA NewNeed ==
  ASSUME NEW m, NEW log, NEW s, ServerHolds(s), LoopFields \subseteq DOMAIN m,
         \E S : m.ledger \in Seq(S), m.needTurn \in NeedTurns, m.needTurn.turn <= s.turn,
         m.needTurn.number <= LastNumber(s), QueueHolds(m.pending, s),
         \A i \in DOMAIN m.pending : m.needTurn.number < m.pending[i].number,
         m.continued = NoResult, m.pc \notin {"start", "first"},
         RowsHold(log, m.needTurn.number), RowsFresh(m, log)
  PROVE  LoopHolds(m, log, s)
<1>1. "kind" \in DOMAIN m.continued /\ m.continued.kind = "none"
      /\ m.continued.needTurn \in NeedTurns
      /\ m.continued.needTurn.turn = 0 /\ m.continued.needTurn.number = 0
  BY NoResultFields
<1>2. m.continued.needTurn.turn <= s.turn /\ m.continued.needTurn.number <= LastNumber(s)
  BY <1>1 DEF ServerHolds
<1> QED BY <1>1, <1>2 DEF LoopHolds, RowsHold

\* The loop takes the first of a queue as its need.
LEMMA TakesNext ==
  ASSUME MainInv, NEW queue, QueueHolds(queue, server), queue # <<>>,
         \A i \in DOMAIN queue : Turn.number < queue[i].number,
         steps' = Marked("delivered"),
         loop' = [loop EXCEPT !.pc = "need", !.needTurn = Head(queue),
                              !.pending = Tail(queue), !.continued = NoResult]
  PROVE  /\ LoopHolds(loop', steps', server)
         /\ LoopHeld(loop') \subseteq {queue[i].number : i \in DOMAIN queue}
<1> DEFINE h == Head(queue)
           t == Tail(queue)
<1>1. /\ h \in NeedTurns /\ h.turn <= server.turn /\ h.number <= LastNumber(server)
      /\ QueueHolds(t, server)
      /\ \A i \in DOMAIN t : h.number < t[i].number
      /\ \A i \in DOMAIN t : i + 1 \in DOMAIN queue /\ t[i] = queue[i + 1]
      /\ 1 \in DOMAIN queue /\ h = queue[1]
  BY HeadOfLine
<1> HIDE DEF h, t
<1>2. /\ LoopFields \subseteq DOMAIN loop' /\ loop'.ledger = loop.ledger /\ loop'.needTurn = h
      /\ loop'.pending = t /\ loop'.continued = NoResult /\ loop'.pc = "need"
  BY LoopFacts DEF LoopFields, h, t
<1>3. RowsHold(steps', h.number) /\ \A i \in DOMAIN steps' : steps'[i].number < h.number
  <2>1. RowsHold(steps', Turn.number) /\ Turn.number \in Nat
    BY MarkedHolds, LoopFacts DEF StepStates
  <2>2. h.number \in Nat /\ Turn.number < h.number
    BY <1>1, NeedTurnNumbers
  <2> QED BY <2>1, <2>2, RowsStay
<1>4. \E S : loop'.ledger \in Seq(S)
  BY <1>2 DEF MainInv, LoopHolds
<1>5. ServerHolds(server)
  BY DEF MainInv
<1>6. LoopHolds(loop', steps', server)
  <2>1. RowsFresh(loop', steps')
    BY <1>2, <1>3 DEF RowsFresh
  <2> QED BY <1>1, <1>2, <1>3, <1>4, <1>5, <2>1, NewNeed
<1>7. LoopHeld(loop') \subseteq {queue[i].number : i \in DOMAIN queue}
  <2>1. loop'.continued.kind # "need"
    BY <1>2, NoResultFields
  <2> QED BY <1>1, <1>2, <2>1 DEF LoopHeld
<1> QED BY <1>6, <1>7

\* finish_queued_needs and the loop: the pending needs go first, in their order.
LEMMA Proceeds ==
  ASSUME MainInv, NEW observed, Proceed(observed),
         observed.kind = "need" =>
           /\ observed.needTurn \in NeedTurns /\ observed.needTurn.turn <= server.turn
           /\ observed.needTurn.number <= LastNumber(server)
           /\ Turn.number < observed.needTurn.number
           /\ \A i \in DOMAIN loop.pending : loop.pending[i].number < observed.needTurn.number
  PROVE  /\ LoopHolds(loop', steps', server)
         /\ LoopHeld(loop') \subseteq LoopHeld(loop)
              \cup (IF observed.kind = "need" THEN {observed.needTurn.number} ELSE {})
         /\ \A c : ResolvesNext(loop', c)
<1>0. \A c : ResolvesNext(loop', c)
  <2>1. loop'.pc \in {"need", "over"}
    BY LoopFacts DEF Proceed, LoopFields
  <2> QED BY <2>1 DEF ResolvesNext
<1> SUFFICES /\ LoopHolds(loop', steps', server)
             /\ LoopHeld(loop') \subseteq LoopHeld(loop)
                  \cup (IF observed.kind = "need" THEN {observed.needTurn.number} ELSE {})
  BY <1>0
<1> DEFINE x == observed.needTurn
           queue == IF observed.kind = "need" THEN Append(loop.pending, x) ELSE loop.pending
<1>1. /\ QueueHolds(loop.pending, server) /\ Turn.number = loop.needTurn.number
      /\ \A i \in DOMAIN loop.pending : Turn.number < loop.pending[i].number
  BY DEF MainInv, LoopHolds, Turn
<1>2. steps' = Marked("delivered")
  BY DEF Proceed
<1>3. {loop.pending[i].number : i \in DOMAIN loop.pending} \subseteq LoopHeld(loop)
  BY DEF LoopHeld
<1>4. CASE loop.pending # <<>>
  <2>1. loop' = [loop EXCEPT !.pc = "need", !.needTurn = Head(queue),
                             !.pending = Tail(queue), !.continued = NoResult]
    BY <1>4 DEF Proceed
  <2>2. CASE observed.kind = "need"
    <3> DEFINE q == Append(loop.pending, x)
    <3>1. /\ QueueHolds(q, server) /\ q # <<>>
          /\ \A i \in DOMAIN q : (i \in DOMAIN loop.pending /\ q[i] = loop.pending[i]) \/ q[i] = x
      BY <1>1, <2>2, LineGrows
    <3>2. queue = q
      BY <2>2
    <3> HIDE DEF q, queue, x
    <3>3. \A i \in DOMAIN q : Turn.number < q[i].number
      BY <1>1, <2>2, <3>1 DEF x
    <3>4. /\ LoopHolds(loop', steps', server)
          /\ LoopHeld(loop') \subseteq {q[i].number : i \in DOMAIN q}
      BY <1>2, <2>1, <3>1, <3>2, <3>3, TakesNext
    <3>5. {q[i].number : i \in DOMAIN q} \subseteq LoopHeld(loop) \cup {x.number}
      BY <1>3, <3>1
    <3> QED BY <2>2, <3>4, <3>5 DEF x
  <2>3. CASE observed.kind # "need"
    <3>1. queue = loop.pending
      BY <2>3
    <3> HIDE DEF queue
    <3>2. /\ LoopHolds(loop', steps', server)
          /\ LoopHeld(loop') \subseteq {loop.pending[i].number : i \in DOMAIN loop.pending}
      BY <1>1, <1>2, <1>4, <2>1, <3>1, TakesNext
    <3> QED BY <1>3, <3>2
  <2> QED BY <2>2, <2>3
<1>5. CASE loop.pending = <<>> /\ observed.kind = "need"
  <2>1. loop' = [loop EXCEPT !.pc = "need", !.needTurn = x, !.continued = NoResult]
    BY <1>5 DEF Proceed
  <2>3. /\ LoopFields \subseteq DOMAIN loop' /\ loop'.ledger = loop.ledger /\ loop'.needTurn = x
        /\ loop'.pending = <<>> /\ loop'.continued = NoResult /\ loop'.pc = "need"
    BY <1>5, <2>1, LoopFacts DEF LoopFields
  <2>4. RowsHold(steps', x.number) /\ \A i \in DOMAIN steps' : steps'[i].number < x.number
    <3>1. RowsHold(steps', Turn.number) /\ Turn.number \in Nat
      BY <1>2, MarkedHolds, LoopFacts DEF StepStates
    <3>2. x.number \in Nat /\ Turn.number < x.number
      BY <1>5, NeedTurnNumbers
    <3> QED BY <3>1, <3>2, RowsStay
  <2>5. (\E S : loop'.ledger \in Seq(S)) /\ ServerHolds(server)
    BY <2>3 DEF MainInv, LoopHolds
  <2>6. QueueHolds(loop'.pending, server) /\ DOMAIN loop'.pending = {}
    BY <1>1, <1>5, <2>3
  <2>7. x \in NeedTurns /\ x.turn <= server.turn /\ x.number <= LastNumber(server)
    BY <1>5
  <2> HIDE DEF x
  <2>8. LoopHolds(loop', steps', server)
    <3>1. RowsFresh(loop', steps')
      BY <2>3, <2>4 DEF RowsFresh
    <3> QED BY <2>3, <2>4, <2>5, <2>6, <2>7, <3>1, NewNeed
  <2>9. LoopHeld(loop') \subseteq {x.number}
    BY <2>3, <2>6, NoResultFields DEF LoopHeld
  <2> QED BY <1>5, <2>8, <2>9 DEF x
<1>6. CASE loop.pending = <<>> /\ observed.kind # "need"
  <2>1. loop' = [loop EXCEPT !.pc = "over", !.outcome = "answered", !.continued = NoResult]
    BY <1>6 DEF Proceed
  <2>2. LoopKept(loop')
    BY <2>1, LoopFacts DEF LoopKept, LoopTakes, LoopFields
  <2>3. RowsHold(steps', Turn.number)
    BY <1>2, MarkedHolds DEF StepStates
  <2> QED BY <2>2, <2>3, LoopKeeps, KeptIsFresh DEF LoopKept
<1> QED BY <1>4, <1>5, <1>6

LEMMA SteeredObserved == ASSUME MainInv, ObserveSteered PROVE MainInv'
<1>1. UNCHANGED <<server, wire, call>> /\ Proceed(loop.continued)
  BY DEF ObserveSteered
<1>2. loop.continued.kind = "need" =>
        /\ loop.continued.needTurn \in NeedTurns /\ loop.continued.needTurn.turn <= server.turn
        /\ loop.continued.needTurn.number <= LastNumber(server)
        /\ Turn.number < loop.continued.needTurn.number
        /\ \A i \in DOMAIN loop.pending : loop.pending[i].number < loop.continued.needTurn.number
  BY DEF MainInv, LoopHolds, Turn
<1>3. /\ LoopHolds(loop', steps', server) /\ ResolvesNext(loop', call')
      /\ LoopHeld(loop') \subseteq LoopHeld(loop)
           \cup (IF loop.continued.kind = "need" THEN {loop.continued.needTurn.number} ELSE {})
  BY <1>1, <1>2, Proceeds
<1>4. LoopHeld(loop') \subseteq LoopHeld(loop)
  BY <1>3 DEF LoopHeld
<1> QED BY <1>1, <1>3, <1>4, LoopWaits

\* What a call has returned follows what the loop holds.
LEMMA ResultFollows ==
  ASSUME MainInv, call.result.kind = "need"
  PROVE  /\ call.result.needTurn \in NeedTurns /\ call.result.needTurn.turn <= server.turn
         /\ call.result.needTurn.number <= LastNumber(server)
         /\ Turn.number < call.result.needTurn.number
         /\ \A i \in DOMAIN loop.pending : loop.pending[i].number < call.result.needTurn.number
         /\ \A i \in DOMAIN call.queued : call.queued[i].number < call.result.needTurn.number
BY DEF MainInv, ReadingHolds, InTurn, NotBefore, Turn

LEMMA NextObserved == ASSUME MainInv, ObserveNext PROVE MainInv'
<1>1. call' = IdleCall /\ UNCHANGED <<server, wire>>
  BY DEF ObserveNext
<1>2. CASE Proceed(call.result)
  <2>1. /\ LoopHolds(loop', steps', server) /\ ResolvesNext(loop', call')
        /\ LoopHeld(loop') \subseteq LoopHeld(loop)
             \cup (IF call.result.kind = "need" THEN {call.result.needTurn.number} ELSE {})
    BY <1>2, ResultFollows, Proceeds
  <2>2. LoopHeld(loop') \subseteq LoopHeld(loop) \cup CallHeld(call)
    BY <2>1 DEF CallHeld
  <2> QED BY <1>1, <2>1, <2>2, LoopGoes, LoopStops
<1>3. CASE Stop("failed") /\ UNCHANGED steps
  <2>1. RowsHold(steps', Turn.number)
    BY <1>3, LoopFacts
  <2> QED BY <1>1, <1>3, <2>1, Stopped
<1> QED BY <1>2, <1>3 DEF ObserveNext

LEMMA FirstReturned == ASSUME MainInv, FirstReturns PROVE MainInv'
<1>1. call' = IdleCall /\ UNCHANGED <<server, wire, steps>> /\ loop.pc = "first"
  BY DEF FirstReturns
<1>2. CASE call.result.kind = "need"
  <2> DEFINE x == call.result.needTurn
  <2>1. \E pc \in {"continue", "need"} : loop' = [loop EXCEPT !.pc = pc, !.needTurn = x]
    BY <1>2 DEF FirstReturns
  <2>2. x \in NeedTurns /\ x.turn <= server.turn /\ x.number <= LastNumber(server)
        /\ Turn.number < x.number
    BY <1>2, ResultFollows
  <2>3. ServerHolds(server) /\ LoopHolds(loop, steps, server)
    BY DEF MainInv
  <2> HIDE DEF x
  <2>4. /\ LoopFields \subseteq DOMAIN loop' /\ loop'.ledger = loop.ledger /\ loop'.needTurn = x
        /\ loop'.pending = loop.pending /\ loop'.continued = loop.continued
        /\ loop'.pc \in {"continue", "need"}
    BY <2>1, LoopFacts DEF LoopFields
  <2>5. loop.pending = <<>> /\ DOMAIN loop.pending = {} /\ loop.continued.kind # "need"
        /\ \E S : loop.ledger \in Seq(S)
    BY <1>1, <2>3 DEF LoopHolds
  <2>6. RowsHold(steps, x.number) /\ \A i \in DOMAIN steps : steps[i].number < x.number
    <3>1. x.number \in Nat
      BY <2>2, NeedTurnNumbers
    <3> QED BY <2>2, <3>1, LoopFacts, RowsStay
  <2>7. LoopHolds(loop', steps', server) /\ ResolvesNext(loop', call')
    <3>1. RowsFresh(loop', steps') /\ ResolvesNext(loop', call')
      BY <1>1, <2>4, <2>6 DEF RowsFresh, ResolvesNext
    <3>2. loop'.pc \notin {"start", "first"}
      BY <2>4
    <3> QED BY <1>1, <2>2, <2>3, <2>4, <2>5, <2>6, <3>1, <3>2 DEF LoopHolds, RowsHold
  <2>8. LoopHeld(loop') \subseteq CallHeld(call)
    <3>1. LoopHeld(loop') \subseteq {x.number}
      BY <2>4, <2>5 DEF LoopHeld
    <3> QED BY <1>2, <3>1 DEF CallHeld, x
  <2> QED BY <1>1, <2>7, <2>8, LoopGoes, LoopStops
<1>3. CASE call.result.kind # "need"
  <2>1. Stop("answered") \/ Stop("failed")
    BY <1>3 DEF FirstReturns, Stop
  <2>2. RowsHold(steps', Turn.number)
    BY <1>1, LoopFacts
  <2> QED BY <1>1, <2>1, <2>2, Stopped
<1> QED BY <1>2, <1>3

\* All of one queue comes before all of another.
ComesFirst(p, q) == \A i \in DOMAIN p : \A j \in DOMAIN q : p[i].number < q[j].number

\* A queue of no other needs than those of two queues.
MadeOf(r, p, q) ==
  \A i \in DOMAIN r : (i \in DOMAIN p /\ r[i] = p[i]) \/ \E j \in DOMAIN q : r[i] = q[j]

\* The queued needs join the pending ones.
LEMMA LinesJoin ==
  ASSUME NEW p, NEW q, NEW s, QueueHolds(p, s), QueueHolds(q, s), ComesFirst(p, q)
  PROVE  QueueHolds(p \o q, s) /\ MadeOf(p \o q, p, q)
<1> DEFINE r == p \o q
<1>1. p \in Seq(NeedTurns) /\ q \in Seq(NeedTurns)
  BY DEF QueueHolds
<1>2. /\ r \in Seq(NeedTurns) /\ Len(p) \in Nat /\ Len(q) \in Nat
      /\ DOMAIN p = 1 .. Len(p) /\ DOMAIN q = 1 .. Len(q)
      /\ DOMAIN r = 1 .. (Len(p) + Len(q))
      /\ \A i \in DOMAIN r : r[i] = IF i <= Len(p) THEN p[i] ELSE q[i - Len(p)]
  BY <1>1
<1> HIDE DEF r
<1>3. \A i \in DOMAIN r : \/ i <= Len(p) /\ i \in DOMAIN p /\ r[i] = p[i]
                          \/ i > Len(p) /\ i - Len(p) \in DOMAIN q /\ r[i] = q[i - Len(p)]
  BY <1>2
<1>4. ASSUME NEW i \in DOMAIN r, NEW j \in DOMAIN r, i < j PROVE r[i].number < r[j].number
  <2>1. CASE j <= Len(p)
    <3>1. i \in DOMAIN p /\ j \in DOMAIN p /\ r[i] = p[i] /\ r[j] = p[j]
      BY <1>2, <1>3, <1>4, <2>1
    <3> QED BY <1>4, <3>1 DEF QueueHolds, InLine
  <2>2. CASE i <= Len(p) /\ j > Len(p)
    BY <1>2, <1>3, <2>2 DEF ComesFirst
  <2>3. CASE i > Len(p)
    <3>1. /\ i - Len(p) \in DOMAIN q /\ j - Len(p) \in DOMAIN q
          /\ r[i] = q[i - Len(p)] /\ r[j] = q[j - Len(p)] /\ i - Len(p) < j - Len(p)
      BY <1>2, <1>3, <1>4, <2>3
    <3> QED BY <3>1 DEF QueueHolds, InLine
  <2>4. i \in Int /\ j \in Int /\ Len(p) \in Int
    BY <1>2
  <2> QED BY <2>1, <2>2, <2>3, <2>4
<1>5. \A i \in DOMAIN r : r[i].turn <= s.turn /\ r[i].number <= LastNumber(s)
  BY <1>3 DEF QueueHolds
<1>6. QueueHolds(r, s)
  BY <1>2, <1>4, <1>5 DEF QueueHolds, InLine
<1>7. MadeOf(r, p, q)
  BY <1>3 DEF MadeOf
<1> QED BY <1>6, <1>7 DEF r

LEMMA ContinuationDone ==
  ASSUME MainInv, NEW satisfied, NEW spawned, Continued(satisfied, spawned) PROVE MainInv'
<1> DEFINE r == IF call.result.kind = "start" THEN NoResult ELSE call.result
           q == loop.pending \o call.queued
           y == steps[Len(steps)]
           x == [y EXCEPT !.satisfied = IF loop.attempted THEN satisfied ELSE LastStep.satisfied,
                          !.tainted = call.tools]
<1>1. /\ call' = IdleCall /\ UNCHANGED <<server, wire>> /\ satisfied \subseteq Turn.need
      /\ steps' = [steps EXCEPT ![Len(steps)] = x]
      /\ loop' = [loop EXCEPT !.pc = "resolved", !.attempted = FALSE,
                          !.workers = IF loop.attempted /\ spawned THEN @ + 1 ELSE @,
                          !.pending = q, !.overflow = @ \/ call.overflow, !.continued = r]
  BY DEF Continued
<1>2. ServerHolds(server) /\ LoopHolds(loop, steps, server) /\ ReadingHolds(call, server)
  BY DEF MainInv
<1>3. /\ LoopFields \subseteq DOMAIN loop' /\ loop'.ledger = loop.ledger
      /\ loop'.needTurn = loop.needTurn /\ loop'.pending = q /\ loop'.continued = r
      /\ loop'.pc = "resolved"
  <2> HIDE DEF q, r
  <2> QED BY <1>1, LoopFacts DEF LoopFields
<1>4. RowsHold(steps', loop.needTurn.number)
  <2>1. RowsHold(steps, Turn.number) /\ steps \in Seq(StepRecord) /\ call.tools \in BOOLEAN
        /\ satisfied \in Obligations
    BY <1>1, LoopFacts DEF Obligations
  <2>2. steps # <<>> => y \in StepRecord
    BY <2>1, LastRow
  <2>3. y = LastStep
    BY DEF LastStep
  <2>4. steps # <<>> => x \in StepRecord /\ x.number = y.number
    <3> HIDE DEF y
    <3>1. steps # <<>> => (IF loop.attempted THEN satisfied ELSE LastStep.satisfied) \in Obligations
      BY <2>1, <2>2, <2>3 DEF StepRecord
    <3> QED BY <2>1, <2>2, <3>1 DEF StepRecord
  <2> HIDE DEF x
  <2>5. RowsHold([steps EXCEPT ![Len(steps)] = x], Turn.number)
    BY <2>1, <2>4, RowsMarked
  <2> QED BY <1>1, <2>5 DEF Turn
<1>5. ComesFirst(loop.pending, call.queued)
  BY DEF MainInv, InTurn, NotBefore, ComesFirst
<1>6. \A j \in DOMAIN call.queued : loop.needTurn.number < call.queued[j].number
  BY DEF MainInv, InTurn, NotBefore
<1>7. /\ QueueHolds(q, server)
      /\ \A i \in DOMAIN q : \/ i \in DOMAIN loop.pending /\ q[i] = loop.pending[i]
                             \/ \E j \in DOMAIN call.queued : q[i] = call.queued[j]
  <2>1. QueueHolds(loop.pending, server) /\ QueueHolds(call.queued, server)
    BY <1>2 DEF LoopHolds, ReadingHolds
  <2> HIDE DEF QueueHolds, MadeOf, ComesFirst
  <2>2. QueueHolds(loop.pending \o call.queued, server)
        /\ MadeOf(loop.pending \o call.queued, loop.pending, call.queued)
    BY <1>5, <2>1, LinesJoin
  <2> QED BY <2>2 DEF MadeOf
<1>8. /\ "kind" \in DOMAIN r /\ r.needTurn \in NeedTurns
      /\ r.needTurn.turn <= server.turn /\ r.needTurn.number <= LastNumber(server)
      /\ r.kind = "need" => r = call.result
  BY <1>2, NoResultFields DEF ReadingHolds, ServerHolds
<1> HIDE DEF q, r, x, y
<1>9. \A i \in DOMAIN q : loop.needTurn.number < q[i].number
  BY <1>2, <1>6, <1>7 DEF LoopHolds
<1>10. r.kind = "need" => /\ loop.needTurn.number < r.needTurn.number
                          /\ \A i \in DOMAIN q : q[i].number < r.needTurn.number
  BY <1>7, <1>8, ResultFollows DEF Turn
<1>11. (\E S : loop'.ledger \in Seq(S)) /\ loop.needTurn \in NeedTurns
       /\ loop.needTurn.turn <= server.turn /\ loop.needTurn.number <= LastNumber(server)
  BY <1>2, <1>3 DEF LoopHolds
<1>12. LoopHolds(loop', steps', server) /\ ResolvesNext(loop', call')
  <2>1. RowsFresh(loop', steps') /\ ResolvesNext(loop', call')
    BY <1>3 DEF RowsFresh, Unrecorded, ResolvesNext
  <2> QED BY <2>1, <1>3, <1>4, <1>7, <1>8, <1>9, <1>10, <1>11 DEF LoopHolds, RowsHold
<1>13. LoopHeld(loop') \subseteq LoopHeld(loop) \cup CallHeld(call)
  <2>1. {q[i].number : i \in DOMAIN q} \subseteq LoopHeld(loop) \cup CallHeld(call)
    BY <1>7 DEF LoopHeld, CallHeld
  <2>2. r.kind = "need" => r.needTurn.number \in CallHeld(call)
    BY <1>8 DEF CallHeld
  <2>3. loop.needTurn.number \in LoopHeld(loop)
    BY DEF LoopHeld
  <2>4. LoopHeld(loop') = {loop.needTurn.number} \cup {q[i].number : i \in DOMAIN q}
                          \cup (IF r.kind = "need" THEN {r.needTurn.number} ELSE {})
    BY <1>3 DEF LoopHeld
  <2> QED BY <2>1, <2>2, <2>3, <2>4
<1> QED BY <1>1, <1>12, <1>13, LoopGoes, LoopStops

LEMMA LoopSteps == ASSUME MainInv, LoopStep PROVE MainInv'
BY FirstStarted, FirstReturned, ContinueStarted, NeedLimitHit, StepRecorded, AnswerReused,
   WorkerLimitHit, ToResolveInterrupted, BackgroundStarted, ResolverEnded, InLineResolved,
   ContinuationDone, InLineFailed, InterruptionOver, ContinuationFailed, Delivered,
   ResolvedRecorded, OverflowEnded, NextStarted, SteeredObserved, NextObserved, FallbackObserved
   DEF LoopStep

LEMMA MainStarts == MainInit => MainInv
<1> SUFFICES ASSUME MainInit PROVE MainInv
  OBVIOUS
<1>1. server = [turn |-> 0, running |-> FALSE, stopping |-> FALSE, emitted |-> 0,
                tools |-> 0, requests |-> <<>>, nextId |-> 1]
      /\ wire = <<>> /\ call = IdleCall /\ steps = <<>>
  BY DEF MainInit
<1>2. ServerHolds(server)
  <2>1. <<>> \in Seq({}) /\ DOMAIN <<>> = {}
    OBVIOUS
  <2>2. RequestsHold(<<>>)
    BY <2>1 DEF RequestsHold
  <2> QED BY <1>1, <2>2 DEF ServerHolds, ServerFields, LastNumber
<1>3. WireHolds(wire, server)
  <2>1. wire \in Seq(EventRecord) /\ DOMAIN wire = {}
    BY <1>1
  <2> QED BY <2>1 DEF WireHolds
<1>4. ReadingHolds(call, server) /\ EmptyCall(call)
  BY <1>1, <1>2, IdleIsEmpty
<1>5. /\ LoopFields \subseteq DOMAIN loop /\ loop.ledger = <<>> /\ loop.needTurn = NoNeedTurn
      /\ loop.pending = <<>> /\ loop.continued = NoResult
  BY DEF MainInit, LoopFields
<1>6. LoopHolds(loop, steps, server)
  <2>1. /\ steps \in Seq(StepRecord) /\ DOMAIN steps = {}
        /\ loop.pending \in Seq(NeedTurns) /\ DOMAIN loop.pending = {}
        /\ loop.ledger \in Seq({})
    BY <1>1, <1>5
  <2>2. QueueHolds(loop.pending, server) /\ InLine(steps)
    BY <2>1 DEF QueueHolds, InLine
  <2>3. server.turn = 0 /\ LastNumber(server) = 0 /\ loop.pc = "start"
    BY <1>1 DEF MainInit, LastNumber
  <2> QED BY <1>5, <2>1, <2>2, <2>3, NoResultFields DEF LoopHolds, RowsFresh
<1>7. InTurn(loop, call, wire)
  <2>1. DOMAIN wire = {} /\ DOMAIN loop.pending = {} /\ loop.continued.kind = "none"
    BY <1>1, <1>5, NoResultFields
  <2>2. \A n : NotBefore(call, n)
    BY <1>4 DEF EmptyCall, NotBefore
  <2>3. ResolvesNext(loop, call)
    <3>1. loop.pc = "start"
      BY DEF MainInit
    <3> QED BY <3>1 DEF ResolvesNext
  <2> QED BY <2>1, <2>2, <2>3 DEF InTurn
<1> QED BY <1>2, <1>3, <1>4, <1>6, <1>7 DEF MainInv

LEMMA MainSteps == MainInv /\ [MainNext]_mainVars => MainInv'
<1>1. ASSUME MainInv, MainNext PROVE MainInv'
  BY <1>1, ServerSteps, ReaderSteps, LoopSteps DEF MainNext
<1>2. ASSUME MainInv, UNCHANGED mainVars PROVE MainInv'
  BY <1>2 DEF mainVars, MainInv
<1> QED BY <1>1, <1>2

LEMMA MainHolds == MainSpec => []MainInv
BY MainStarts, MainSteps, PTL DEF MainSpec

LEMMA MainImplies == MainInv => NeedsAnsweredInOrder /\ ClosedTurnsAreOver
<1> SUFFICES ASSUME MainInv PROVE NeedsAnsweredInOrder /\ ClosedTurnsAreOver
  OBVIOUS
<1>1. NeedsAnsweredInOrder
  BY DEF MainInv, LoopHolds, InLine, NeedsAnsweredInOrder
<1>2. ClosedTurnsAreOver
  <2> SUFFICES ASSUME call.mode = "returned", call.result.kind \in {"need", "final"},
                      ~call.result.needTurn.active, server.running, server.turn = call.turn
               PROVE  FALSE
    BY DEF ClosedTurnsAreOver
  <2>1. ReadingHolds(call, server) /\ server.running \in BOOLEAN
    BY DEF MainInv, ServerHolds
  <2>2. call.result.needTurn.active \in BOOLEAN
    BY <2>1 DEF ReadingHolds, NeedTurns
  <2>3. call.result.needTurn.active = FALSE /\ server.running = TRUE
    BY <2>1, <2>2
  <2>4. Over(server, call.turn)
    BY <2>1, <2>3 DEF ReadingHolds, Closes
  <2> QED BY <2>3, <2>4 DEF Over
<1> QED BY <1>1, <1>2

\* run_supervised_main, observe_pending_event and finish_queued_needs: whatever
\* the needs of the agent, the limits, the order of events and what start_turn
\* drops, the need steps of the store follow the agent's events, and no event
\* gives two of them.
THEOREM NeedsInOrder == MainSpec => []NeedsAnsweredInOrder
BY MainHolds, MainImplies, PTL

\* run_until_need, run_next and consume_active_turn: a call that returns a need
\* with its turn closed, or the final answer, returns after the end of that turn.
THEOREM ClosedTurns == MainSpec => []ClosedTurnsAreOver
BY MainHolds, MainImplies, PTL

=============================================================================
