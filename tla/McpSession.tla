----------------------------- MODULE McpSession -----------------------------
(***************************************************************************)
(* The MCP server of one connection (needle-app/src/mcp.rs) and the need   *)
(* steps it writes (needle-runtime/src/store.rs).  A reader thread feeds   *)
(* lines to a loop that answers them one at a time.  A tools/call runs in  *)
(* a thread of its own while the loop keeps reading: a cancellation of the *)
(* running call raises a flag the resolver polls, any other line waits in  *)
(* a bounded queue.                                                        *)
(*                                                                         *)
(* need_context calls share a ledger.  The position in the ledger is the   *)
(* ordinal of the step in the store, where (session, ordinal) is unique.   *)
(***************************************************************************)
EXTENDS NeedPolicy, Sequences, FiniteSets

CONSTANTS
  Ids,                \* JSON-RPC request ids
  Needs,              \* compiled needs
  OtherArguments,     \* "change" for the change tools', "invalid" for malformed ones
  MultiNeedEnabled,   \* policy.multi_need_enabled
  OrdinalMax,         \* u8::MAX, 255 in the code
  QueueMax,           \* lines that wait while a call runs, 8 in the code
  StoreMayFail,       \* whether a write may fail, as under a busy database
  MaxLines            \* bound: lines the client sends

ASSUME McpSessionAssumption ==
  /\ OtherArguments \subseteq {"change", "invalid"}
  /\ MultiNeedEnabled \in BOOLEAN /\ StoreMayFail \in BOOLEAN
  /\ OrdinalMax \in Nat \ {0} /\ QueueMax \in Nat /\ MaxLines \in Nat

VARIABLES
  client,   \* how many lines it sent, and which of them were requests
  input,    \* lines on their way through the channel of the reader thread
  queued,   \* lines set aside while a call was running
  mcp,      \* ProductMcpServer
  active,   \* the running tools/call, and the cancellation flag
  stored,   \* the session's need steps in the store
  answers   \* the responses written, in order

mcpVars == <<client, input, queued, mcp, active, stored, answers>>

-----------------------------------------------------------------------------
(* Lines and responses.                                                    *)

NoId == 0

NoNeed == "no need"

Line(method, id, need) == [method |-> method, id |-> id, need |-> need, at |-> 0]

Arguments == Needs \cup OtherArguments

Lines ==
  {Line("tools/call", id, argument) : id \in Ids, argument \in Arguments}
  \cup {Line("notifications/cancelled", id, NoNeed) : id \in Ids}
  \cup {Line("initialize", id, NoNeed) : id \in Ids}
  \cup {Line("tools/list", id, NoNeed) : id \in Ids}
  \cup {Line("notifications/initialized", NoId, NoNeed), Line("garbage", NoId, NoNeed)}

\* A line with an id is a request; the id of a cancellation is its parameter.
IsRequest(line) == line.id # NoId /\ line.method # "notifications/cancelled"

\* The response to the line with that number.
Response(at, kind) == [at |-> at, kind |-> kind, ordinal |-> 0]

RpcError(at) == Response(at, "error")

-----------------------------------------------------------------------------
(* The store: record_mcp_need_step and append_need_step_event.             *)

Step(ordinal, turn, need, satisfied, states) ==
  [ordinal |-> ordinal, turn |-> turn, need |-> need, satisfied |-> satisfied, states |-> states]

\* UNIQUE(session_id, ordinal).
OrdinalTaken(ordinal) == \E step \in stored : step.ordinal = ordinal

\* The step and its first event are one transaction; each later event is one of
\* its own, so that a failure keeps a prefix of the states.
Prefixes(states) == {SubSeq(states, 1, n) : n \in 1 .. Len(states)}

-----------------------------------------------------------------------------
(* The server.                                                             *)

NoCall == [pc |-> "none", id |-> NoId, need |-> NoNeed, at |-> 0, ordinal |-> 0,
           turn |-> 0, cancelled |-> FALSE, response |-> RpcError(0)]

\* The thread's response is ready; the loop has yet to pick it up.
Answered(call, response) == [call EXCEPT !.pc = "answered", !.response = response]

\* The next ordinal, None when it does not fit a u8.
Overflows == Len(mcp.ledger) >= OrdinalMax

NextOrdinal == IF Overflows THEN OrdinalMax ELSE Len(mcp.ledger) + 1

\* The client writes a line; the channel holds it for the loop.
ClientSends(line) ==
  /\ client.sent < MaxLines
  /\ LET numbered == [line EXCEPT !.at = client.sent + 1]
     IN  /\ input' = Append(input, numbered)
         /\ client' = [sent |-> client.sent + 1,
                       requests |-> IF IsRequest(line) THEN client.requests \cup {numbered.at}
                                    ELSE client.requests,
                       cancels |-> IF line.method # "notifications/cancelled"
                                   THEN client.cancels ELSE client.cancels \cup {line.id}]
  /\ UNCHANGED <<queued, mcp, active, stored, answers>>

\* initialize, once and with a known protocol version.
Initialize(line) ==
  IF mcp.protocol THEN mcp' = [mcp EXCEPT !.seen = @ \cup {line.id}]
  ELSE \E known \in BOOLEAN : mcp' = [mcp EXCEPT !.seen = @ \cup {line.id}, !.protocol = known]

\* response and notification, for everything but tools/call.
RespondAtOnce(line) ==
  CASE line.method = "garbage" ->
         answers' = Append(answers, RpcError(line.at)) /\ UNCHANGED mcp
    [] line.method = "notifications/initialized" ->
         mcp' = [mcp EXCEPT !.initialized = @ \/ mcp.protocol] /\ UNCHANGED answers
    [] line.method = "notifications/cancelled" ->
         mcp' = [mcp EXCEPT !.cancelled = @ \cup {line.id}] /\ UNCHANGED answers
    [] OTHER ->
         /\ answers' = Append(answers, Response(line.at, line.method))
         /\ IF line.id \in mcp.seen THEN UNCHANGED mcp
            ELSE IF line.method = "initialize" THEN Initialize(line)
            ELSE mcp' = [mcp EXCEPT !.seen = @ \cup {line.id}]

\* Fault: the flag of the call before is still up.
StartedWithFlag(line) == [NoCall EXCEPT !.pc = "started", !.id = line.id, !.need = line.need,
                                        !.at = line.at, !.cancelled = active.cancelled]

\* The call's thread starts: the flag of the call before is lowered.
Started(line) == [NoCall EXCEPT !.pc = "started", !.id = line.id, !.need = line.need,
                                !.at = line.at]

\* serve: the loop takes the next line, a waiting one first.  A tools/call
\* lowers the flag and starts its thread.
TakeLine ==
  /\ active.pc = "none" /\ (queued # <<>> \/ input # <<>>)
  /\ LET line == IF queued # <<>> THEN Head(queued) ELSE Head(input)
     IN  /\ IF queued # <<>> THEN queued' = Tail(queued) /\ UNCHANGED input
            ELSE input' = Tail(input) /\ UNCHANGED queued
         /\ IF line.method = "tools/call"
            THEN /\ active' = Started(line)
                 /\ UNCHANGED <<mcp, answers>>
            ELSE RespondAtOnce(line) /\ UNCHANGED active
  /\ UNCHANGED <<client, stored>>

\* Fault: a line beyond the limit is dropped.
SetAsideOrDrop(line) ==
  /\ queued' = IF Len(queued) < QueueMax THEN Append(queued, line) ELSE queued
  /\ UNCHANGED answers

\* Beyond the queue's limit a request is refused and a notification is lost.
SetAside(line) ==
  IF Len(queued) < QueueMax
  THEN queued' = Append(queued, line) /\ UNCHANGED answers
  ELSE /\ answers' = IF IsRequest(line) THEN Append(answers, Response(line.at, "queue full"))
                     ELSE answers
       /\ UNCHANGED queued

\* resolve_while_accepting_cancellation: a line that arrives while a call runs.
PollLine ==
  /\ active.pc # "none" /\ input # <<>>
  /\ input' = Tail(input)
  /\ LET line == Head(input)
     IN  IF line.method = "notifications/cancelled" /\ line.id = active.id
         THEN active' = [active EXCEPT !.cancelled = TRUE] /\ UNCHANGED <<queued, answers>>
         ELSE SetAside(line) /\ UNCHANGED active
  /\ UNCHANGED <<client, mcp, stored>>

\* response and tool_call up to the resolution: a duplicate id, a session that
\* is not initialized, a call cancelled while it waited, invalid arguments and
\* the change tools are answered without a step.  The ordinal of a need is its
\* place in the ledger.
StartCall ==
  /\ active.pc = "started"
  /\ LET duplicate == active.id \in mcp.seen
         refused == duplicate \/ ~mcp.initialized \/ active.need = "invalid"
         early == ~duplicate /\ mcp.initialized /\ active.id \in mcp.cancelled
         limited == \/ Overflows \/ ~MultiNeedEnabled
                    \/ NextOrdinal > MaxNeedsPerTask
         seen == [mcp EXCEPT !.seen = @ \cup {active.id},
                             !.cancelled = IF early THEN @ \ {active.id} ELSE @]
     IN  IF early
         THEN active' = Answered(active, Response(active.at, "cancelled")) /\ mcp' = seen
         ELSE IF refused
         THEN active' = Answered(active, RpcError(active.at)) /\ mcp' = seen
         ELSE IF active.need = "change"
         THEN active' = Answered(active, Response(active.at, "change")) /\ mcp' = seen
         ELSE /\ active' = [active EXCEPT !.pc = IF limited THEN "bypass" ELSE "resolving",
                                          !.ordinal = NextOrdinal, !.turn = mcp.nextTurn]
              /\ mcp' = [seen EXCEPT !.nextTurn = @ + 1]
  /\ UNCHANGED <<client, input, queued, stored, answers>>

WorkersLeft == mcp.workers < MaxWorkersPerTask

\* The resolution succeeds: from the cache, or with a worker while any is left.
\* An unsafe one (stale, contradicted, ambiguous, rejected) satisfies nothing.
Resolve(spawned, safe) ==
  /\ active.pc = "resolving" /\ (spawned => WorkersLeft)
  /\ active' = [active EXCEPT !.pc = IF safe THEN "deliver" ELSE "deliver unsafe"]
  /\ mcp' = [mcp EXCEPT !.workers = IF spawned THEN @ + 1 ELSE @]
  /\ UNCHANGED <<client, input, queued, stored, answers>>

\* It fails.  The flag decides first: whatever the error, the call then counts
\* as cancelled.  Without workers the error is that of a cache-only resolution.
ResolveFails ==
  /\ active.pc = "resolving"
  /\ active' = IF active.cancelled THEN [active EXCEPT !.pc = "cancel"]
               ELSE IF ~WorkersLeft THEN [active EXCEPT !.pc = "bypass"]
               ELSE Answered(active, RpcError(active.at))
  /\ UNCHANGED <<client, input, queued, mcp, stored, answers>>

\* The states each way of ending a call writes, and the answer it gives.
StatesOf(pc) ==
  CASE pc \in {"deliver", "deliver unsafe"} ->
         <<"requested", "resolving", "resolved", "delivered">>
    [] pc = "bypass" -> <<"requested", "native_fallback", "delivered">>
    [] pc = "cancel" -> <<"requested", "resolving", "cancelled">>

AnswerOf(pc) ==
  CASE pc = "deliver" -> "resolved" [] pc = "deliver unsafe" -> "unsafe"
    [] pc = "bypass" -> "bypass" [] pc = "cancel" -> "cancelled"

\* Fault: a cancelled step joins the ledger too.
LedgerOfAllSteps(call, satisfied) ==
  Append(mcp.ledger, [need |-> call.need, satisfied |-> satisfied])

\* Only a step written to its last state joins the ledger, and a cancelled one
\* never does.
Ledger(call, satisfied) ==
  IF call.pc = "cancel" THEN mcp.ledger
  ELSE Append(mcp.ledger, [need |-> call.need, satisfied |-> satisfied])

Writing == active.pc \in {"deliver", "deliver unsafe", "bypass", "cancel"}

\* persist_step, limit_bypass and cancelled_failure: the writes succeed up to
\* the given states.
Persist(written) ==
  /\ Writing /\ ~OrdinalTaken(active.ordinal)
  /\ written \in Prefixes(StatesOf(active.pc))
  /\ written = StatesOf(active.pc) \/ StoreMayFail
  /\ LET satisfied == active.pc = "deliver"
     IN  /\ stored' = stored \cup {Step(active.ordinal, active.turn, active.need, satisfied,
                                        written)}
         /\ IF written = StatesOf(active.pc)
            THEN /\ mcp' = [mcp EXCEPT !.ledger = Ledger(active, satisfied)]
                 /\ active' = Answered(active, [Response(active.at, AnswerOf(active.pc)) EXCEPT
                                                  !.ordinal = active.ordinal])
            ELSE active' = Answered(active, RpcError(active.at)) /\ UNCHANGED mcp
  /\ UNCHANGED <<client, input, queued, answers>>

\* The first write fails: the ordinal is taken, or the database is busy.
PersistFails ==
  /\ Writing /\ (OrdinalTaken(active.ordinal) \/ StoreMayFail)
  /\ active' = Answered(active, Response(active.at, "not stored"))
  /\ UNCHANGED <<client, input, queued, mcp, stored, answers>>

\* The loop picks the response up and writes it.
WriteAnswer ==
  /\ active.pc = "answered"
  /\ answers' = Append(answers, active.response)
  /\ active' = [NoCall EXCEPT !.cancelled = active.cancelled]
  /\ UNCHANGED <<client, input, queued, mcp, stored>>

-----------------------------------------------------------------------------
\* A fresh connection, or one whose handshake is behind it.
McpInit ==
  /\ client = [sent |-> 0, requests |-> {}, cancels |-> {}]
  /\ input = <<>> /\ queued = <<>> /\ answers = <<>> /\ stored = {}
  /\ \E ready \in BOOLEAN :
       mcp = [protocol |-> ready, initialized |-> ready, seen |-> {}, cancelled |-> {},
              nextTurn |-> 1, ledger |-> <<>>, workers |-> 0]
  /\ active = NoCall

ResolutionEnds ==
  \/ \E spawned, safe \in BOOLEAN : Resolve(spawned, safe)
  \/ ResolveFails

WriteStep ==
  \/ \E pc \in {"deliver", "bypass", "cancel"} : \E written \in Prefixes(StatesOf(pc)) :
       Persist(written)
  \/ PersistFails

ServeStep == TakeLine \/ StartCall \/ ResolutionEnds \/ WriteStep \/ WriteAnswer

McpNext ==
  \/ \E line \in Lines : ClientSends(line)
  \/ PollLine
  \/ ServeStep

\* The loop blocks only on its channels, and the resolver's own deadline ends
\* every resolution.
McpFairness == WF_mcpVars(ServeStep)

McpSpec == McpInit /\ [][McpNext]_mcpVars /\ McpFairness

-----------------------------------------------------------------------------
(* Properties.                                                             *)

\* tool_call, limit_bypass and cancelled_failure: the k-th entry of the ledger
\* is the stored step with ordinal k, delivered and with the same answer, so
\* that a later need is classified against what the audit shows.
LedgerIsStored ==
  \A k \in DOMAIN mcp.ledger : \E step \in stored :
    /\ step.ordinal = k /\ step.states[Len(step.states)] = "delivered"
    /\ step.need = mcp.ledger[k].need /\ step.satisfied = mcp.ledger[k].satisfied

\* serve and resolve_while_accepting_cancellation: requests are answered once
\* each and in the order in which they were sent, but for those the full queue
\* turns away, and only a request the client asked to cancel is answered as
\* cancelled, also when a resolution fails by itself or the cancellation of an
\* earlier call arrives late.
AnswersInOrder ==
  /\ \A i, j \in DOMAIN answers :
       i < j /\ "queue full" \notin {answers[i].kind, answers[j].kind}
         => answers[i].at < answers[j].at
  /\ active.pc = "cancel" \/ active.response.kind = "cancelled"
       => active.id \in client.cancels

\* serve: every request is answered in the end, whatever is cancelled, refused
\* or waiting in the meantime (the client sends finitely many lines).
RequestsAreAnswered ==
  []<>(\A at \in client.requests : \E k \in DOMAIN answers : answers[k].at = at)

\* limit_bypass: when a limit is reached and the store works, the answer is a
\* bypass.  (docs/MCP_TRANSPORT.md: "Limit exhaustion returns a normal bypass".)
LimitReturnsBypass ==
  active.pc = "bypass" => ~OrdinalTaken(active.ordinal)
=============================================================================
