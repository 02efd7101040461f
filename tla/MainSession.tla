---------------------------- MODULE MainSession ----------------------------
(***************************************************************************)
(* The supervised main session (app_server/main_session.rs and             *)
(* minimal_live_pilot/supervised_main.rs).  The main agent runs turns on   *)
(* an App Server thread; a turn emits messages, some of which are needs    *)
(* closed by the @@end marker, and tool items.  Needle reads the events    *)
(* of one call at a time: it interrupts the turn of a need that waits for  *)
(* its answer, lets the turn of a continue-working need go on and steers   *)
(* it when the answer arrives, queues the needs such a turn emits in the   *)
(* meantime, and falls back to a native turn when a limit is reached.      *)
(*                                                                         *)
(* The App Server and the agent behind it are external: they are modelled  *)
(* by what the reading code expects of them.  A message arrives as its     *)
(* deltas, as a completed item, or as both; texts keep only what the       *)
(* reader tells apart.                                                     *)
(***************************************************************************)
EXTENDS NeedPolicy, Sequences

CONSTANTS
  AgentNeeds,         \* the needs the agent may emit, as sets of obligations
  MaxPendingNeeds,    \* MAX_PENDING_NEEDS
  MaxEmissions,       \* bound: messages and tool items of the agent
  MaxWire             \* bound: unread events, beyond which the server blocks

ASSUME MainSessionAssumption ==
  /\ MaxPendingNeeds \in Nat \ {0}
  /\ MaxEmissions \in Nat /\ MaxWire \in Nat \ {0}

VARIABLES
  server,    \* the App Server's thread: its last turn and what it emitted
  wire,      \* events sent by the server and not yet read
  call,      \* the call that is reading them, and its result
  loop,      \* the locals of run_supervised_main
  resolver,  \* the thread that resolves a continue-working need
  steps      \* the need steps of the store, in the order of their ordinals

mainVars == <<server, wire, call, loop, resolver, steps>>

-----------------------------------------------------------------------------
(* Texts and events.                                                       *)

NoText == [kind |-> "none", need |-> {}, waits |-> FALSE, number |-> 0]

Prose(number) == [kind |-> "prose", need |-> {}, waits |-> FALSE, number |-> number]

Malformed(number) == [kind |-> "malformed", need |-> {}, waits |-> FALSE, number |-> number]

NeedText(need, waits, number) ==
  [kind |-> "need", need |-> need, waits |-> waits, number |-> number]

\* has_end_marker: the text closes a need, well formed or not.
HasEndMarker(text) == text.kind \in {"need", "malformed"}

\* A text that parses and asks to continue working.
ContinuesWorking(text) == text.kind = "need" /\ ~text.waits

\* append_bounded: the deltas of all the messages of a turn accumulate in one
\* buffer, so that a need that follows or precedes other text does not parse.
Appended(buffer, text) ==
  IF buffer.kind = "none" THEN text
  ELSE IF HasEndMarker(buffer) \/ HasEndMarker(text) THEN Malformed(text.number) ELSE buffer

Event(kind, turn, text, status, id) ==
  [kind |-> kind, turn |-> turn, text |-> text, status |-> status, id |-> id]

Notice(kind) == Event(kind, server.turn, NoText, "none", 0)

ServerReply(kind, id) == Event(kind, server.turn, NoText, "none", id)

Done(turn, status) == Event("done", turn, NoText, status, 0)

-----------------------------------------------------------------------------
(* What a call returns, and the call itself.                               *)

NoNeedTurn == [need |-> {}, waits |-> FALSE, turn |-> 0, active |-> FALSE,
           tainted |-> FALSE, number |-> 0]

Result(kind, needTurn) == [kind |-> kind, needTurn |-> needTurn]

NoResult == Result("none", NoNeedTurn)

Failed(reason) == Result(reason, NoNeedTurn)

IdleCall ==
  [mode |-> "idle", turn |-> 0, text |-> NoText, marker |-> FALSE, final |-> FALSE,
   interrupt |-> 0, acked |-> FALSE, terminal |-> "none", violation |-> FALSE,
   tools |-> FALSE, queued |-> <<>>, overflow |-> FALSE, steerId |-> 0,
   result |-> NoResult]

Calling(mode, turn) == [IdleCall EXCEPT !.mode = mode, !.turn = turn]

Return(c, result) == [c EXCEPT !.mode = "returned", !.result = result]

\* The MainNeedTurn a call builds from the text it holds.
NeedTurnOf(c, active) ==
  [need |-> c.text.need, waits |-> c.text.waits, turn |-> c.turn, active |-> active,
   tainted |-> c.tools, number |-> c.text.number]

-----------------------------------------------------------------------------
(* The App Server, external.                                               *)

\* start_turn: turn/start, and wait_for_response, which reads the events that
\* come before the response and drops them, whatever they are.  A turn that is
\* still running is replaced; its end comes before the response or after it.
StartTurn(mode) ==
  /\ server' = [server EXCEPT !.turn = @ + 1, !.running = TRUE, !.stopping = FALSE]
  /\ call' = Calling(mode, server.turn + 1)
  /\ \/ wire' = <<>>
     \/ server.running /\ wire' = <<Done(server.turn, "interrupted")>>

\* A turn runs, and the session has not been cleaned up.
Emitting ==
  /\ server.running /\ loop.pc # "over" /\ Len(wire) < MaxWire
  /\ server.emitted + server.tools < MaxEmissions

\* The agent emits a message: as its deltas, as a completed item, or as both.
\* The k-th message is numbered 2k - 1 in its deltas and 2k in its item.
EmitMessage(shape, text) ==
  /\ Emitting
  /\ LET delta == Event("delta", server.turn, text, "none", 0)
         item == Event("item", server.turn, [text EXCEPT !.number = @ + 1], "none", 0)
     IN  wire' = wire \o CASE shape = "delta" -> <<delta>>
                           [] shape = "item" -> <<item>>
                           [] shape = "both" -> <<delta, item>>
  /\ server' = [server EXCEPT !.emitted = @ + 1]
  /\ UNCHANGED <<call, loop, resolver, steps>>

\* The agent starts a tool item or asks for a command approval ("tool"), or asks
\* for a file change ("file").
EmitTool(kind) ==
  /\ Emitting
  /\ wire' = Append(wire, Notice(kind))
  /\ server' = [server EXCEPT !.tools = @ + 1]
  /\ UNCHANGED <<call, loop, resolver, steps>>

\* The turn ends by itself, or as interrupted once it was asked to.
TurnEnds(status) ==
  /\ server.running /\ loop.pc # "over"
  /\ status = "interrupted" => server.stopping
  /\ wire' = Append(wire, Done(server.turn, status))
  /\ server' = [server EXCEPT !.running = FALSE]
  /\ UNCHANGED <<call, loop, resolver, steps>>

\* The server answers turn/interrupt: the request is acknowledged, also when the
\* turn has just ended, as the readers expect, or refused when it is over.
AnswerInterrupt(request) ==
  LET runs == server.running /\ server.turn = request.turn
  IN  /\ \/ wire' = Append(wire, ServerReply("ack", request.id))
         \/ ~runs /\ wire' = Append(wire, ServerReply("refused", request.id))
      /\ server' = [server EXCEPT !.stopping = @ \/ runs, !.requests = Tail(@)]

\* The server answers turn/steer: accepted, or activeTurnNotSteerable.
AnswerSteer(request) ==
  /\ \/ /\ server.running /\ server.turn = request.turn
        /\ wire' = Append(wire, ServerReply("ack", request.id))
     \/ wire' = Append(wire, ServerReply("unsteerable", request.id))
  /\ server' = [server EXCEPT !.requests = Tail(@)]

AnswerRequest ==
  /\ server.requests # <<>> /\ loop.pc # "over"
  /\ LET request == Head(server.requests)
     IN  IF request.kind = "interrupt" THEN AnswerInterrupt(request) ELSE AnswerSteer(request)
  /\ UNCHANGED <<call, loop, resolver, steps>>

\* send_request: the request is on its way and has the next id.
Sending(kind, turn) ==
  server' = [server EXCEPT !.requests = Append(@, [kind |-> kind, turn |-> turn,
                                                   id |-> server.nextId]),
                           !.nextId = @ + 1]

-----------------------------------------------------------------------------
(* Reading events: run_until_need, run_next (supervised or native),        *)
(* run_continuation and run_direct share one shape.                        *)

TurnReaders == {"until_need", "next", "native", "continuation", "direct"}

Reading(kind) == wire # <<>> /\ Head(wire).kind = kind

Read == wire' = Tail(wire)

OfThisTurn(event) == event.turn = call.turn

\* A reader that may not see the agent use tools before the need or the answer.
ForbidsTools(mode) == mode \in {"until_need", "next", "continuation"}

\* Fault: a need that stops the work is returned as soon as the interrupt is sent.
ReadMarkerAtOnce(c, interrupts) ==
  /\ call' = Return([c EXCEPT !.marker = TRUE],
                    Result("need", NeedTurnOf(c, ContinuesWorking(c.text))))
  /\ IF interrupts THEN Sending("interrupt", c.turn) ELSE UNCHANGED server

\* A text with the end marker reaches a reader that looks for a need: a need
\* that continues working is returned at once with its turn still active, any
\* other closes the turn with an interrupt.
ReadMarker(c, interrupts) ==
  IF ContinuesWorking(c.text)
  THEN /\ call' = Return([c EXCEPT !.marker = TRUE],
                         IF c.violation THEN Failed("violation")
                         ELSE Result("need", NeedTurnOf(c, TRUE)))
       /\ UNCHANGED server
  ELSE IF interrupts
  THEN /\ call' = [c EXCEPT !.marker = TRUE, !.interrupt = server.nextId, !.acked = FALSE]
       /\ Sending("interrupt", c.turn)
  ELSE /\ call' = [c EXCEPT !.marker = TRUE]
       /\ UNCHANGED server

\* item/agentMessage/delta.
ReadDelta ==
  /\ call.mode \in {"until_need", "next", "native"} /\ Reading("delta")
  /\ Read
  /\ LET text == Appended(call.text, Head(wire).text)
         c == [call EXCEPT !.text = text]
     IN  IF ~call.marker /\ HasEndMarker(text)
         THEN ReadMarker(c, TRUE)
         ELSE call' = c /\ UNCHANGED server
  /\ UNCHANGED <<loop, resolver, steps>>

\* item/completed in run_until_need: the item's own text replaces the deltas.
ReadItemUntilNeed ==
  /\ call.mode = "until_need" /\ Reading("item")
  /\ Read
  /\ IF ~call.marker /\ HasEndMarker(Head(wire).text)
     THEN ReadMarker([call EXCEPT !.text = Head(wire).text], TRUE)
     ELSE UNCHANGED <<call, server>>
  /\ UNCHANGED <<loop, resolver, steps>>

\* item/completed in run_next: the deltas win over the item's text, no
\* interrupt is sent, and a text without the marker is the final answer.
ReadItemNext ==
  /\ call.mode \in {"next", "native"} /\ Reading("item")
  /\ Read
  /\ LET text == Head(wire).text
     IN  IF HasEndMarker(text)
         THEN ReadMarker([call EXCEPT !.text = IF @.kind = "none" THEN text ELSE @], FALSE)
         ELSE call' = [call EXCEPT !.final = TRUE] /\ UNCHANGED server
  /\ UNCHANGED <<loop, resolver, steps>>

\* item/completed in run_continuation, where a nested need is a violation.
ReadItemContinuation ==
  /\ call.mode = "continuation" /\ Reading("item")
  /\ Read
  /\ call' = [call EXCEPT !.final = TRUE,
                          !.violation = @ \/ HasEndMarker(Head(wire).text)]
  /\ UNCHANGED <<server, loop, resolver, steps>>

\* item/completed in run_direct: whatever it says is the answer so far.
ReadItemDirect ==
  /\ call.mode = "direct" /\ Reading("item")
  /\ Read
  /\ call' = [call EXCEPT !.final = TRUE]
  /\ UNCHANGED <<server, loop, resolver, steps>>

\* item/started, or an approval request, which is declined.
ReadTool ==
  /\ call.mode \in TurnReaders /\ (Reading("tool") \/ Reading("file"))
  /\ ~(call.mode = "direct" /\ Reading("file"))
  /\ Read
  /\ IF ForbidsTools(call.mode) /\ call.interrupt = 0
     THEN /\ call' = [call EXCEPT !.tools = TRUE, !.violation = TRUE,
                                  !.interrupt = server.nextId]
          /\ Sending("interrupt", call.turn)
     ELSE /\ call' = [call EXCEPT !.tools = TRUE,
                                  !.violation = @ \/ ForbidsTools(call.mode)]
          /\ UNCHANGED server
  /\ UNCHANGED <<loop, resolver, steps>>

\* run_direct declines a file change and fails.
ReadFileDirect ==
  /\ call.mode = "direct" /\ Reading("file")
  /\ Read
  /\ call' = Return(call, Failed("file change"))
  /\ UNCHANGED <<server, loop, resolver, steps>>

\* What a turn reader returns once the turn is over.
TurnResult(c) ==
  IF c.violation THEN Failed("violation")
  ELSE IF c.terminal \notin {"completed", "interrupted"} THEN Failed("turn failed")
  ELSE IF c.mode \in {"continuation", "direct"} /\ c.terminal # "completed"
  THEN Failed("turn failed")
  ELSE IF c.mode \in {"until_need", "next", "native"} /\ c.marker
  THEN IF c.text.kind = "need" THEN Result("need", NeedTurnOf(c, FALSE))
       ELSE Failed("malformed need")
  ELSE IF c.mode = "until_need" THEN Failed("no need")
  ELSE IF c.final THEN Result("final", NoNeedTurn) ELSE Failed("no final message")

\* Both the end of the turn and the answer to the latest interrupt are in.
Settled(c) == c.terminal # "none" /\ (c.interrupt = 0 \/ c.acked)

ReturnWhenSettled(c) ==
  call' = IF Settled(c) THEN Return(c, TurnResult(c)) ELSE c

\* run_continuation and run_direct return on turn/completed whatever the
\* interrupt they may have sent.
ReadDone ==
  /\ call.mode \in TurnReaders /\ Reading("done")
  /\ Read
  /\ IF OfThisTurn(Head(wire))
     THEN LET c == [call EXCEPT !.terminal = Head(wire).status]
          IN  IF call.mode \in {"continuation", "direct"}
              THEN call' = Return(c, TurnResult(c))
              ELSE ReturnWhenSettled(c)
     ELSE UNCHANGED call
  /\ UNCHANGED <<server, loop, resolver, steps>>

\* The response to the latest turn/interrupt; the response to an earlier one,
\* or to a request of an earlier call, is skipped.
ReadAnswer ==
  /\ call.mode \in TurnReaders
  /\ wire # <<>> /\ Head(wire).kind \in {"ack", "refused", "unsteerable"}
  /\ Read
  /\ IF call.interrupt = 0 \/ Head(wire).id # call.interrupt THEN UNCHANGED call
     ELSE IF Head(wire).kind # "ack" THEN call' = Return(call, Failed("interrupt failed"))
     ELSE ReturnWhenSettled([call EXCEPT !.acked = call.mode # "continuation"])
  /\ UNCHANGED <<server, loop, resolver, steps>>

\* Events a reader has no case for.
Skip ==
  /\ wire # <<>>
  /\ \/ call.mode \in {"continuation", "direct"} /\ Head(wire).kind = "delta"
     \/ call.mode \in {"await", "steer", "interrupting"} /\ Head(wire).kind = "delta"
  /\ Read
  /\ UNCHANGED <<server, call, loop, resolver, steps>>

\* checked_sub of the elapsed time: any call may run out of its time.
CallTimesOut ==
  /\ call.mode \in TurnReaders \cup {"await", "steer", "active", "interrupting"}
  /\ call' = Return(call, Failed("timed out"))
  /\ UNCHANGED <<server, wire, loop, resolver, steps>>

-----------------------------------------------------------------------------
(* await_resolution_and_steer_cancellable.                                 *)

Awaiting == call.mode \in {"await", "steer"}

\* observe_pending_event: a need emitted in the meantime is queued, a tool
\* taints.  A malformed need fails the call.
Queued(c, text) ==
  IF text.kind = "malformed" THEN Return(c, Failed("malformed need"))
  ELSE IF text.kind # "need" THEN c
  ELSE IF Len(c.queued) >= MaxPendingNeeds THEN [c EXCEPT !.overflow = TRUE]
  ELSE [c EXCEPT !.queued = Append(@, [need |-> text.need, waits |-> text.waits,
                                       turn |-> c.turn, active |-> TRUE,
                                       tainted |-> c.tools, number |-> text.number])]

PendingItem ==
  /\ Awaiting /\ Reading("item")
  /\ Read
  /\ call' = Queued(call, Head(wire).text)
  /\ UNCHANGED <<server, loop, resolver, steps>>

PendingTool ==
  /\ Awaiting /\ (Reading("tool") \/ Reading("file"))
  /\ Read
  /\ call' = [call EXCEPT !.tools = TRUE]
  /\ UNCHANGED <<server, loop, resolver, steps>>

\* finish_queued_needs: the queued needs are told whether their turn goes on.
FinishQueuedNeeds(c, active) ==
  [c EXCEPT !.queued = [k \in DOMAIN @ |-> [@[k] EXCEPT !.active = active]]]

\* The answer is delivered by a new turn: the turn is over or cannot be steered.
DeliveredByStart(c) == Return(FinishQueuedNeeds(c, FALSE), Result("start", NoNeedTurn))

\* turn/completed of the awaited turn: a cancelled turn cancels the resolver
\* and fails the call; while steering, any other end falls back to a new turn.
PendingDone ==
  /\ Awaiting /\ Reading("done")
  /\ Read
  /\ LET c == [call EXCEPT !.terminal = Head(wire).status]
     IN  IF ~OfThisTurn(Head(wire)) THEN UNCHANGED <<call, resolver>>
         ELSE IF Head(wire).status = "cancelled"
         THEN /\ call' = Return(c, Failed("task cancelled"))
              /\ resolver' = [resolver EXCEPT !.cancelled = TRUE]
         ELSE /\ call' = IF call.mode = "steer" THEN DeliveredByStart(c) ELSE c
              /\ UNCHANGED resolver
  /\ UNCHANGED <<server, loop, steps>>

\* The resolution is received: it is delivered by turn/steer, or by a new turn
\* when the awaited one is over.
ResolutionArrives ==
  /\ call.mode = "await" /\ resolver.state = "ok"
  /\ IF call.terminal # "none"
     THEN call' = DeliveredByStart(call) /\ UNCHANGED server
     ELSE /\ call' = [call EXCEPT !.mode = "steer", !.steerId = server.nextId]
          /\ Sending("steer", call.turn)
  /\ UNCHANGED <<wire, loop, resolver, steps>>

\* The resolver failed: the turn is interrupted, unless it is over.
ResolutionFails ==
  /\ call.mode = "await" /\ resolver.state = "failed"
  /\ IF call.terminal # "none"
     THEN call' = Return(call, Failed("resolver failed")) /\ UNCHANGED server
     ELSE /\ call' = [call EXCEPT !.mode = "interrupting", !.interrupt = server.nextId,
                                  !.result = Failed("resolver failed")]
          /\ Sending("interrupt", call.turn)
  /\ UNCHANGED <<wire, loop, resolver, steps>>

\* The response to turn/steer, or to a request of an earlier call.
PendingAnswer ==
  /\ Awaiting
  /\ wire # <<>> /\ Head(wire).kind \in {"ack", "refused", "unsteerable"}
  /\ Read
  /\ call' = IF call.mode = "await" \/ Head(wire).id # call.steerId THEN call
             ELSE IF Head(wire).kind = "ack"
             THEN [call EXCEPT !.mode = "active", !.text = NoText]
             ELSE DeliveredByStart(call)
  /\ UNCHANGED <<server, loop, resolver, steps>>

-----------------------------------------------------------------------------
(* consume_active_turn, after the steer.                                   *)

\* What the steered turn came to; the queued needs keep an active turn only if
\* the turn stopped at another continue-working need.
Steered(c, result) ==
  Return(FinishQueuedNeeds(c, result.needTurn.active), result)

ActiveText(c) ==
  IF c.text.kind = "malformed" THEN call' = Return(c, Failed("malformed need")) /\ UNCHANGED server
  ELSE IF ContinuesWorking(c.text)
  THEN call' = Steered(c, Result("need", NeedTurnOf(c, TRUE))) /\ UNCHANGED server
  ELSE IF Head(wire).kind = "delta"
  THEN /\ call' = [c EXCEPT !.marker = TRUE, !.interrupt = server.nextId, !.acked = FALSE]
       /\ Sending("interrupt", c.turn)
  ELSE call' = [c EXCEPT !.marker = TRUE] /\ UNCHANGED server

ActiveMessage ==
  /\ call.mode = "active"
  /\ wire # <<>> /\ Head(wire).kind \in {"delta", "item"}
  /\ Read
  /\ LET delta == Head(wire).kind = "delta"
         text == IF delta THEN Appended(call.text, Head(wire).text) ELSE Head(wire).text
     IN  IF HasEndMarker(text) /\ (~delta \/ ~call.marker)
         THEN ActiveText([call EXCEPT !.text = text])
         ELSE /\ call' = IF ~delta THEN [call EXCEPT !.final = TRUE]
                         ELSE IF call.marker THEN call ELSE [call EXCEPT !.text = text]
              /\ UNCHANGED server
  /\ UNCHANGED <<loop, resolver, steps>>

ActiveTool ==
  /\ call.mode = "active" /\ (Reading("tool") \/ Reading("file"))
  /\ Read
  /\ call' = [call EXCEPT !.tools = TRUE]
  /\ UNCHANGED <<server, loop, resolver, steps>>

ActiveResult(c) ==
  IF c.terminal \notin {"completed", "interrupted"} THEN Failed("turn failed")
  ELSE IF c.marker THEN Result("need", NeedTurnOf(c, FALSE))
  ELSE IF c.final THEN Result("final", NoNeedTurn) ELSE Failed("no final message")

ActiveDone ==
  /\ call.mode = "active"
  /\ wire # <<>> /\ Head(wire).kind \in {"done", "ack", "refused", "unsteerable"}
  /\ Read
  /\ LET event == Head(wire)
         done == event.kind = "done" /\ OfThisTurn(event)
         answer == event.kind # "done" /\ call.interrupt # 0 /\ event.id = call.interrupt
         c == [call EXCEPT !.terminal = IF done THEN event.status ELSE @,
                           !.acked = @ \/ answer]
     IN  call' = IF answer /\ event.kind # "ack" THEN Return(c, Failed("interrupt failed"))
                 ELSE IF (done \/ answer) /\ Settled(c) THEN Steered(c, ActiveResult(c))
                 ELSE c
  /\ UNCHANGED <<server, loop, resolver, steps>>

-----------------------------------------------------------------------------
(* interrupt_active_turn: until the answer and the end of the turn are     *)
(* both in.  Its result is the reason for the interruption.                *)

Interrupt(turn, reason) ==
  /\ call' = [Calling("interrupting", turn) EXCEPT !.interrupt = server.nextId,
                                                   !.result = Result(reason, NoNeedTurn)]
  /\ Sending("interrupt", turn)

InterruptEvent ==
  /\ call.mode = "interrupting"
  /\ wire # <<>> /\ Head(wire).kind # "delta"
  /\ Read
  /\ LET event == Head(wire)
         mine == event.id = call.interrupt /\ event.id # 0
         c == [call EXCEPT !.acked = @ \/ mine,
                           !.tools = @ \/ event.kind \in {"tool", "file"},
                           !.terminal = IF event.kind = "done" /\ OfThisTurn(event)
                                        THEN event.status ELSE @]
     IN  call' = IF mine /\ event.kind # "ack" THEN Return(c, Failed("interrupt failed"))
                 ELSE IF event.kind = "item" /\ event.text.kind = "malformed"
                 THEN Return(c, Failed("malformed need"))
                 ELSE IF c.acked /\ c.terminal # "none" THEN Return(c, c.result)
                 ELSE c
  /\ UNCHANGED <<server, loop, resolver, steps>>

-----------------------------------------------------------------------------
(* run_supervised_main.                                                    *)

Ordinal == Len(loop.ledger) + 1

Turn == loop.needTurn

\* record_need_step and its first events; queued only for continue-working.
NewStep(ordinal, needTurn) ==
  [ordinal |-> ordinal, need |-> needTurn.need, number |-> needTurn.number,
   state |-> "resolving", tainted |-> needTurn.tainted, satisfied |-> {}]

\* record_need_step: the row of the step, its request and its first event are
\* one transaction; the raw message must parse to the interrupt it is stored for.
Recorded(step) == Append(steps, step)

LastStep == steps[Len(steps)]

Marked(state) == [steps EXCEPT ![Len(steps)] = [@ EXCEPT !.state = state]]

\* fully_satisfied_ledger_entry: the latest answer that covers the need.
FullySatisfied(entry, need) ==
  entry.satisfied = entry.need /\ (entry.need = need \/ need \subseteq entry.satisfied)

IsRepeat(need) == \E k \in DOMAIN loop.ledger : FullySatisfied(loop.ledger[k], need)

LimitReached == Ordinal > MaxNeedsPerTask

Stop(outcome) == loop' = [loop EXCEPT !.pc = "over", !.outcome = outcome]

\* The fallback turn: run_native_fallback.
FallBack(recorded) ==
  /\ steps' = recorded
  /\ loop' = [loop EXCEPT !.pc = "fallback"]
  /\ StartTurn("native")

\* The need limit: the turn is interrupted if it is active, then the step is
\* recorded and the agent continues natively.
HitNeedLimit ==
  /\ loop.pc = "need" /\ call.mode = "idle" /\ LimitReached
  /\ IF Turn.active
     THEN /\ Interrupt(Turn.turn, "at limit")
          /\ loop' = [loop EXCEPT !.pc = "interrupted"]
          /\ UNCHANGED <<wire, steps>>
     ELSE FallBack(Recorded([NewStep(Ordinal, Turn) EXCEPT !.state = "native_fallback",
                                                              !.tainted = FALSE]))
  /\ UNCHANGED resolver

\* The step is recorded: requested, queued and resolving.
RecordStep ==
  /\ loop.pc = "need" /\ call.mode = "idle" /\ ~LimitReached
  /\ steps' = Recorded(NewStep(Ordinal, Turn))
  /\ loop' = [loop EXCEPT !.pc = "resolve"]
  /\ UNCHANGED <<server, wire, call, resolver>>

Repeats(need) == loop.repeats[need]

\* A need a full answer covers is answered from the ledger: with the answer
\* itself, then as already satisfied, then natively.
ReuseAnswer ==
  /\ loop.pc = "resolve" /\ call.mode = "idle" /\ IsRepeat(Turn.need)
  /\ IF Repeats(Turn.need) >= 2
     THEN FallBack(Marked("native_fallback"))
     ELSE /\ steps' = [steps EXCEPT ![Len(steps)] = [@ EXCEPT !.satisfied = Turn.need]]
          /\ loop' = [loop EXCEPT !.pc = "deliver", !.repeats[Turn.need] = @ + 1]
          /\ UNCHANGED <<server, wire, call>>
  /\ UNCHANGED resolver

\* The worker limit, like the need limit.
HitWorkerLimit ==
  /\ loop.pc = "resolve" /\ call.mode = "idle" /\ ~IsRepeat(Turn.need)
  /\ loop.workers >= MaxWorkersPerTask
  /\ IF Turn.active
     THEN /\ Interrupt(Turn.turn, "at limit")
          /\ loop' = [loop EXCEPT !.pc = "interrupted"]
          /\ UNCHANGED <<wire, steps>>
     ELSE FallBack(Marked("native_fallback"))
  /\ UNCHANGED resolver

MayResolve ==
  /\ loop.pc = "resolve" /\ call.mode = "idle" /\ ~IsRepeat(Turn.need)
  /\ loop.workers < MaxWorkersPerTask

\* A policy without continue-working interrupts the active turn first.
InterruptToResolve ==
  /\ MayResolve /\ Turn.active /\ ~loop.continues
  /\ Interrupt(Turn.turn, "resolving")
  /\ loop' = [loop EXCEPT !.pc = "interrupted"]
  /\ UNCHANGED <<wire, resolver, steps>>

\* A continue-working need is resolved by a thread while its turn goes on.
ResolveInBackground ==
  /\ MayResolve /\ Turn.active /\ loop.continues /\ ~Turn.waits
  /\ resolver' = [state |-> "running", cancelled |-> FALSE]
  /\ call' = Calling("await", Turn.turn)
  /\ loop' = [loop EXCEPT !.pc = "await", !.attempted = TRUE]
  /\ UNCHANGED <<server, wire, steps>>

\* The thread answers; a cancelled one answers with an error.
ResolverEnds(state) ==
  /\ resolver.state = "running" /\ loop.pc # "over"
  /\ resolver.cancelled => state = "failed"
  /\ resolver' = [resolver EXCEPT !.state = state]
  /\ UNCHANGED <<server, wire, call, loop, steps>>

\* The outcome of a resolution: which obligations it satisfied, and whether a
\* worker was started for it (apply_outcome_to_step).
Resolved(satisfied, spawned) ==
  /\ steps' = [steps EXCEPT ![Len(steps)] = [@ EXCEPT !.satisfied = satisfied]]
  /\ loop' = [loop EXCEPT !.pc = "deliver", !.workers = IF spawned THEN @ + 1 ELSE @]

\* Any other need is resolved while the agent waits.
ResolveInLine(satisfied, spawned) ==
  /\ MayResolve /\ (~Turn.active \/ Turn.waits) /\ (Turn.active => loop.continues)
  /\ satisfied \subseteq Turn.need
  /\ Resolved(satisfied, spawned)
  /\ UNCHANGED <<server, wire, call, resolver>>

ResolveInLineFails ==
  /\ MayResolve /\ (~Turn.active \/ Turn.waits) /\ (Turn.active => loop.continues)
  /\ FallBack(Marked("native_fallback"))
  /\ UNCHANGED resolver

\* Fault: after the interruption the need is taken up from the start.
InterruptedStartsOver ==
  /\ loop.pc = "interrupted" /\ call.mode = "returned"
  /\ CASE call.result.kind = "at limit" ->
            FallBack(IF LimitReached
                     THEN Recorded([NewStep(Ordinal, Turn) EXCEPT
                                           !.state = "native_fallback", !.tainted = FALSE])
                     ELSE Marked("native_fallback"))
       [] call.result.kind = "resolving" ->
            /\ loop' = [loop EXCEPT !.pc = "need", !.needTurn.active = FALSE]
            /\ steps' = [steps EXCEPT ![Len(steps)] = [@ EXCEPT !.tainted = call.tools]]
            /\ call' = IdleCall
            /\ UNCHANGED <<server, wire>>
       [] OTHER -> Stop("failed") /\ call' = IdleCall /\ UNCHANGED <<server, wire, steps>>
  /\ UNCHANGED resolver

\* The interruption is over: fall back, or resolve with the turn closed.
Interrupted ==
  /\ loop.pc = "interrupted" /\ call.mode = "returned"
  /\ CASE call.result.kind = "at limit" ->
            FallBack(IF LimitReached
                     THEN Recorded([NewStep(Ordinal, Turn) EXCEPT
                                           !.state = "native_fallback", !.tainted = FALSE])
                     ELSE Marked("native_fallback"))
       [] call.result.kind = "resolving" ->
            /\ loop' = [loop EXCEPT !.pc = "resolve", !.needTurn.active = FALSE]
            /\ steps' = [steps EXCEPT ![Len(steps)] = [@ EXCEPT !.tainted = call.tools]]
            /\ call' = IdleCall
            /\ UNCHANGED <<server, wire>>
       [] OTHER -> Stop("failed") /\ call' = IdleCall /\ UNCHANGED <<server, wire, steps>>
  /\ UNCHANGED resolver

\* The awaited resolution: steered, to be delivered by a new turn, or failed.
\* The taint of the call replaces that of the step.
Continued(satisfied, spawned) ==
  /\ loop.pc = "await" /\ call.mode = "returned"
  /\ call.result.kind \in {"start", "need", "final"}
  /\ satisfied \subseteq Turn.need
  /\ steps' = [steps EXCEPT ![Len(steps)] =
                 [@ EXCEPT !.satisfied = IF loop.attempted THEN satisfied
                                         ELSE LastStep.satisfied,
                           !.tainted = call.tools]]
  /\ loop' = [loop EXCEPT !.pc = "resolved", !.attempted = FALSE,
                          !.workers = IF loop.attempted /\ spawned THEN @ + 1 ELSE @,
                          !.pending = @ \o call.queued,
                          !.overflow = @ \/ call.overflow,
                          !.continued = IF call.result.kind = "start" THEN NoResult
                                        ELSE call.result]
  /\ call' = IdleCall
  /\ UNCHANGED <<server, wire, resolver>>

ContinuedFails ==
  /\ loop.pc = "await" /\ call.mode = "returned"
  /\ call.result.kind \notin {"start", "need", "final"}
  /\ CASE call.result.kind = "resolver failed" ->
            FallBack([steps EXCEPT ![Len(steps)] =
                        [@ EXCEPT !.state = "native_fallback",
                                  !.tainted = LastStep.tainted \/ call.tools]])
       [] call.result.kind = "task cancelled" /\ loop.attempted ->
            /\ steps' = [steps EXCEPT ![Len(steps)] =
                           [@ EXCEPT !.state = "cancelled", !.tainted = call.tools]]
            /\ Stop("cancelled") /\ call' = IdleCall /\ UNCHANGED <<server, wire>>
       [] OTHER -> Stop("failed") /\ call' = IdleCall /\ UNCHANGED <<server, wire, steps>>
  /\ UNCHANGED resolver

\* An answer known at once is handed to an active turn by the same call.
Deliver ==
  /\ loop.pc = "deliver" /\ call.mode = "idle"
  /\ IF Turn.active
     THEN /\ resolver' = [state |-> "ok", cancelled |-> FALSE]
          /\ call' = Calling("await", Turn.turn)
          /\ loop' = [loop EXCEPT !.pc = "await"]
     ELSE loop' = [loop EXCEPT !.pc = "resolved"] /\ UNCHANGED <<resolver, call>>
  /\ UNCHANGED <<server, wire, steps>>

\* The step is resolved and joins the ledger.  When needs were dropped, the
\* pending ones are too and the agent continues natively; a steered turn that
\* is still active is interrupted first.
RecordResolved ==
  /\ loop.pc = "resolved" /\ call.mode = "idle"
  /\ LET joined == Append(loop.ledger, [need |-> Turn.need, satisfied |-> LastStep.satisfied])
     IN  IF loop.overflow
         THEN IF loop.continued.needTurn.active
              THEN /\ Interrupt(loop.continued.needTurn.turn, "overflow")
                   /\ loop' = [loop EXCEPT !.pc = "overflow", !.ledger = joined,
                                           !.continued = NoResult]
                   /\ steps' = Marked("resolved")
                   /\ UNCHANGED wire
              ELSE /\ steps' = Marked("delivered")
                   /\ loop' = [loop EXCEPT !.pc = "fallback", !.ledger = joined,
                                           !.pending = <<>>, !.continued = NoResult]
                   /\ StartTurn("native")
         ELSE /\ steps' = Marked("resolved")
              /\ loop' = [loop EXCEPT !.pc = "next", !.ledger = joined]
              /\ UNCHANGED <<server, wire, call>>
  /\ UNCHANGED resolver

OverflowInterrupted ==
  /\ loop.pc = "overflow" /\ call.mode = "returned"
  /\ IF call.result.kind = "overflow"
     THEN /\ steps' = Marked("delivered")
          /\ loop' = [loop EXCEPT !.pc = "fallback", !.pending = <<>>]
          /\ StartTurn("native")
     ELSE Stop("failed") /\ call' = IdleCall /\ UNCHANGED <<server, wire, steps>>
  /\ UNCHANGED resolver

\* The next turn: what the steered one came to, or a new one with the answer.
NextTurn ==
  /\ loop.pc = "next" /\ call.mode = "idle" /\ loop.continued = NoResult
  /\ StartTurn("next")
  /\ loop' = [loop EXCEPT !.pc = "observe"]
  /\ UNCHANGED <<resolver, steps>>

\* Pending needs go first, in their order, and the need the turn came to joins
\* them; a final answer given while needs are pending is not the task's answer.
Proceed(observed) ==
  LET queue == IF observed.kind = "need" THEN Append(loop.pending, observed.needTurn)
               ELSE loop.pending
  IN  /\ steps' = Marked("delivered")
      /\ loop' = IF loop.pending # <<>>
                 THEN [loop EXCEPT !.pc = "need", !.needTurn = Head(queue),
                                   !.pending = Tail(queue), !.continued = NoResult]
                 ELSE IF observed.kind = "need"
                 THEN [loop EXCEPT !.pc = "need", !.needTurn = observed.needTurn,
                                   !.continued = NoResult]
                 ELSE [loop EXCEPT !.pc = "over", !.outcome = "answered",
                                   !.continued = NoResult]

ObserveSteered ==
  /\ loop.pc = "next" /\ call.mode = "idle" /\ loop.continued # NoResult
  /\ Proceed(loop.continued)
  /\ UNCHANGED <<server, wire, call, resolver>>

ObserveNext ==
  /\ loop.pc = "observe" /\ call.mode = "returned"
  /\ call' = IdleCall
  /\ IF call.result.kind \in {"need", "final"}
     THEN Proceed(call.result)
     ELSE Stop("failed") /\ UNCHANGED steps
  /\ UNCHANGED <<server, wire, resolver>>

\* The native turn must bring the answer.
ObserveFallback ==
  /\ loop.pc = "fallback" /\ call.mode = "returned"
  /\ call' = IdleCall
  /\ Stop(IF call.result.kind = "final" THEN "answered" ELSE "failed")
  /\ UNCHANGED <<server, wire, resolver, steps>>

\* The first turn: run_until_need; artifact_cache_main_replay goes on with
\* run_continuation, direct_main runs run_direct instead.
First ==
  /\ loop.pc = "start" /\ call.mode = "idle"
  /\ StartTurn(IF loop.driver = "direct" THEN "direct" ELSE "until_need")
  /\ loop' = [loop EXCEPT !.pc = "first"]
  /\ UNCHANGED <<resolver, steps>>

FirstReturns ==
  /\ loop.pc = "first" /\ call.mode = "returned"
  /\ call' = IdleCall
  /\ loop' = IF call.result.kind = "need"
             THEN [loop EXCEPT !.pc = IF loop.driver = "replay" THEN "continue" ELSE "need",
                               !.needTurn = call.result.needTurn]
             ELSE [loop EXCEPT !.pc = "over",
                               !.outcome = IF call.result.kind = "final" THEN "answered"
                                           ELSE "failed"]
  /\ UNCHANGED <<server, wire, resolver, steps>>

Continue ==
  /\ loop.pc = "continue" /\ call.mode = "idle"
  /\ StartTurn("continuation")
  /\ loop' = [loop EXCEPT !.pc = "fallback"]
  /\ UNCHANGED <<resolver, steps>>

-----------------------------------------------------------------------------
MainInit ==
  /\ server = [turn |-> 0, running |-> FALSE, stopping |-> FALSE, emitted |-> 0,
               tools |-> 0, requests |-> <<>>, nextId |-> 1]
  /\ wire = <<>>
  /\ call = IdleCall
  /\ \E driver \in {"supervised", "replay", "direct"} : \E continues \in BOOLEAN :
     loop = [driver |-> driver, continues |-> continues, pc |-> "start", needTurn |-> NoNeedTurn, ledger |-> <<>>, pending |-> <<>>,
             overflow |-> FALSE, workers |-> 0, repeats |-> [n \in AgentNeeds |-> 0],
             attempted |-> FALSE, continued |-> NoResult, outcome |-> "none"]
  /\ resolver = [state |-> "idle", cancelled |-> FALSE]
  /\ steps = <<>>

Texts ==
  LET number == 2 * server.emitted + 1
  IN  {Prose(number), Malformed(number)}
      \cup {NeedText(need, waits, number) : need \in AgentNeeds, waits \in BOOLEAN}

ServerStep ==
  \/ \E shape \in {"delta", "item", "both"} : \E text \in Texts : EmitMessage(shape, text)
  \/ \E kind \in {"tool", "file"} : EmitTool(kind)
  \/ \E status \in {"completed", "interrupted", "failed", "cancelled"} : TurnEnds(status)
  \/ AnswerRequest

ReaderStep ==
  \/ ReadDelta \/ ReadItemUntilNeed \/ ReadItemNext \/ ReadTool
  \/ ReadItemContinuation \/ ReadItemDirect \/ ReadFileDirect
  \/ ReadDone \/ ReadAnswer \/ Skip \/ CallTimesOut
  \/ PendingItem \/ PendingTool \/ PendingDone \/ ResolutionArrives \/ ResolutionFails
  \/ PendingAnswer \/ ActiveMessage \/ ActiveTool \/ ActiveDone \/ InterruptEvent

LoopStep ==
  \/ First \/ FirstReturns \/ Continue
  \/ HitNeedLimit \/ RecordStep \/ ReuseAnswer \/ HitWorkerLimit \/ InterruptToResolve
  \/ ResolveInBackground \/ \E state \in {"ok", "failed"} : ResolverEnds(state)
  \/ \E satisfied \in SUBSET UNION AgentNeeds : \E spawned \in BOOLEAN :
       ResolveInLine(satisfied, spawned) \/ Continued(satisfied, spawned)
  \/ ResolveInLineFails \/ Interrupted \/ ContinuedFails \/ Deliver \/ RecordResolved
  \/ OverflowInterrupted \/ NextTurn \/ ObserveSteered \/ ObserveNext \/ ObserveFallback

MainNext == ServerStep \/ ReaderStep \/ LoopStep

MainSpec == MainInit /\ [][MainNext]_mainVars

-----------------------------------------------------------------------------
(* Properties.                                                             *)

\* run_supervised_main, observe_pending_event and finish_queued_needs: the steps
\* follow the agent's events, each event giving one step at most, whether a call
\* returned its need, queued it while it waited, or found it behind a steered
\* turn.  A need may still be stored twice, once for the deltas that ended a
\* call and once for the completed item that repeats them, but never more often
\* and never with another need in between.
NeedsAnsweredInOrder ==
  \A i, j \in DOMAIN steps : i < j => steps[i].number < steps[j].number

\* run_until_need, run_next and consume_active_turn: a need whose turn is said
\* to be closed, and a final answer, are returned only once that turn is over
\* at the App Server, so that the next turn/start finds the thread idle.
ClosedTurnsAreOver ==
  \/ call.mode # "returned"
  \/ call.result.kind \notin {"need", "final"}
  \/ call.result.needTurn.active
  \/ ~(server.running /\ server.turn = call.turn)

=============================================================================
