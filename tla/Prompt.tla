------------------------------- MODULE Prompt -------------------------------
(***************************************************************************)
(* One session/prompt call of the harness to goose: SessionClient.SendPrompt *)
(* (acp/session.go) over the demultiplexed WebSocket (acp/wsclient.go).      *)
(*                                                                           *)
(* readLoop puts a notification into the call's buffered channel, or drops   *)
(* it when that is full, and the response into a channel of its own; the     *)
(* call selects among these, the loss of the connection and its context.     *)
(* goose is external: it runs the turn, stops it on session/cancel, waits    *)
(* while a question to the user is open, and may drop the connection.  Its    *)
(* notifications count only while a call waits.                              *)
(***************************************************************************)
EXTENDS Naturals, Sequences, SequencesExt

CONSTANTS
    SinkSize,       \* capacity of a call's notification channel (256 in the code)
    NativeMaxTurns, \* GOOSE_MAX_TURNS; 0 when the run has no turn limit
    CostLimit,      \* session cost at which the primary prompt is cancelled; 0 for none
    MaxCost,        \* session cost at which the handoff prompt is cancelled
    MaxFrames,      \* notifications goose sends over the session
    HITLAsk         \* whether the agent may ask the user

ASSUME PromptAssumption ==
    /\ SinkSize \in Nat \ {0} /\ NativeMaxTurns \in Nat /\ MaxFrames \in Nat
    /\ CostLimit \in Nat /\ MaxCost \in Nat /\ CostLimit <= MaxCost
    /\ HITLAsk \in BOOLEAN

VARIABLES
    conn,     \* the WebSocket: up, or lost (the done channel is closed)
    call,     \* the prompt in flight: its cost limit, and whether it waits
    sink,     \* notifCh
    resp,     \* respCh
    result,   \* the PromptResult being built
    returned, \* what the last SendPrompt returned
    ask,      \* answerElicitation: the question that is open
    hitlUnanswered,
    turn,     \* goose: the run's turn
    cancelled, \* goose: session/cancel has arrived during this turn
    sent,     \* goose: tool calls of this turn, and those a full channel dropped
    spent,    \* goose: what the session has cost
    frames    \* goose: notifications sent

promptVars == <<conn, call, sink, resp, result, returned, ask, hitlUnanswered, turn, cancelled,
                sent, spent, frames>>
gooseVars == <<turn, cancelled, sent, spent, frames>>

-----------------------------------------------------------------------------
\* Notifications, as far as SendPrompt tells them apart: a tool call, a usage
\* update with the session's cost, a provider failure told as closing message.
Notifications == [kind : {"tool", "usage", "providerError"}, cost : 0..MaxFrames]
StopReasons == {"end_turn", "cancelled", "max_turn_requests"}
Responses == {"none", "error"} \cup StopReasons

PromptResults ==
    [turnsUsed : 0..MaxFrames, cost : 0..MaxFrames, costLimitReached : BOOLEAN,
     providerError : BOOLEAN, stopReason : {"none"} \cup StopReasons]
EmptyResult ==
    [turnsUsed |-> 0, cost |-> 0, costLimitReached |-> FALSE, providerError |-> FALSE,
     stopReason |-> "none"]

\* err: nil, an RPC error, ErrConnectionLost, ctx.Err() or a failed Send.
Errors == {"nil", "rpc", "lost", "ctx", "send"}
Returns == [err : Errors, result : PromptResults]
HasResult(r) == r.err \notin {"ctx", "send"}
NothingReturned == [err |-> "send", result |-> EmptyResult]

PromptTypeOK ==
    /\ conn \in {"up", "lost"}
    /\ call \in [waiting : BOOLEAN, costLimit : {0, CostLimit, MaxCost}]
    /\ sink \in Seq(Notifications) /\ Len(sink) <= SinkSize
    /\ resp \in Responses /\ result \in PromptResults /\ returned \in Returns
    /\ ask \in {"none", "open", "latched", "released"} /\ hitlUnanswered \in BOOLEAN
    /\ turn \in {"idle", "running"} /\ cancelled \in BOOLEAN
    /\ sent \in [tools : 0..MaxFrames, lost : 0..MaxFrames]
    /\ spent \in 0..MaxFrames /\ frames \in 0..MaxFrames

PromptInit ==
    /\ conn = "up" /\ call = [waiting |-> FALSE, costLimit |-> 0]
    /\ sink = <<>> /\ resp = "none" /\ result = EmptyResult /\ returned = NothingReturned
    /\ ask = "none" /\ hitlUnanswered = FALSE
    /\ turn = "idle" /\ cancelled = FALSE /\ sent = [tools |-> 0, lost |-> 0]
    /\ spent = 0 /\ frames = 0

-----------------------------------------------------------------------------
(* SendPrompt.                                                               *)

\* Register the channels and send the request; a write on a lost connection fails.
SendPrompt(limit) ==
    /\ sink' = <<>> /\ resp' = "none" /\ result' = EmptyResult
    /\ IF conn = "up"
       THEN /\ call' = [waiting |-> TRUE, costLimit |-> limit]
            /\ turn' = "running" /\ cancelled' = FALSE /\ sent' = [tools |-> 0, lost |-> 0]
            /\ UNCHANGED returned
       ELSE /\ returned' = NothingReturned
            /\ UNCHANGED <<call, turn, cancelled, sent>>
    /\ UNCHANGED <<conn, ask, hitlUnanswered, spent, frames>>

\* process: count the turn, keep the closing message, track the cost.
Process(r, n) ==
    CASE n.kind = "tool" -> [r EXCEPT !.turnsUsed = @ + 1, !.providerError = FALSE]
      [] n.kind = "usage" -> [r EXCEPT !.cost = n.cost]
      [] n.kind = "providerError" -> [r EXCEPT !.providerError = TRUE]

\* Mutant: the notifications still in the channel are not read.
Undrained == result

\* drainNotifications, each one processed.
Drained == FoldLeft(Process, result, sink)

Return(err, r) ==
    /\ returned' = [err |-> err, result |-> r]
    /\ call' = [waiting |-> FALSE, costLimit |-> 0]
    /\ sink' = <<>> /\ resp' = "none" /\ result' = EmptyResult
    /\ UNCHANGED <<conn, ask, hitlUnanswered, gooseVars>>

\* case msg := <-notifCh, and maybeCancelForCost, which fires once.
ReceiveNotification ==
    /\ call.waiting /\ sink # <<>>
    /\ LET r == Process(result, Head(sink))
           over == call.costLimit > 0 /\ ~r.costLimitReached /\ r.cost >= call.costLimit
       IN /\ result' = [r EXCEPT !.costLimitReached = @ \/ over]
          /\ cancelled' = (cancelled \/ (over /\ conn = "up" /\ turn = "running"))
    /\ sink' = Tail(sink)
    /\ UNCHANGED <<conn, call, resp, returned, ask, hitlUnanswered, turn, sent, spent, frames>>

\* The response: what is still buffered belongs to this turn.
Response ==
    IF resp = "error" THEN Return("rpc", Drained)
    ELSE Return("nil", [Drained EXCEPT !.stopReason = resp])

\* case msg := <-respCh.
ReceiveResponse == call.waiting /\ resp # "none" /\ Response

\* Mutant: the loss of the connection is not among the cases of the select.
ConnectionDoneUnseen == FALSE /\ Return("lost", Drained)

\* case <-c.ws.Done(): a response that was routed before the loss still counts.
ConnectionDone ==
    /\ call.waiting /\ conn = "lost"
    /\ IF resp # "none" THEN Response ELSE Return("lost", Drained)

\* case <-ctx.Done().
ContextDone == call.waiting /\ Return("ctx", EmptyResult)

-----------------------------------------------------------------------------
(* answerElicitation, on a goroutine of its own: the question is answered by *)
(* a viewer, or latched, then cancelled, and then the turn is cancelled.     *)

unasked == <<conn, call, sink, resp, result, returned, sent, spent, frames>>

AnswerElicitation ==
    /\ ask = "open"
    /\ ask' = "none"
    /\ UNCHANGED <<unasked, hitlUnanswered, turn, cancelled>>

LatchUnanswered ==
    /\ ask = "open"
    /\ ask' = "latched" /\ hitlUnanswered' = TRUE
    /\ UNCHANGED <<unasked, turn, cancelled>>

CancelElicitation ==
    /\ ask = "latched"
    /\ ask' = "released"
    /\ UNCHANGED <<unasked, hitlUnanswered, turn, cancelled>>

\* cancelTurn: whichever turn goose runs by now.
CancelTurn ==
    /\ ask = "released"
    /\ ask' = "none"
    /\ cancelled' = (cancelled \/ (conn = "up" /\ turn = "running"))
    /\ UNCHANGED <<unasked, hitlUnanswered, turn>>

AnswerSteps == LatchUnanswered \/ CancelElicitation \/ CancelTurn

-----------------------------------------------------------------------------
(* goose, and readLoop, which hands on what it reads.                        *)

\* A question holds up the turn until it is answered or cancelled.
Parked == ask \in {"open", "latched"}
Working == turn = "running" /\ ~Parked

\* fanOutNotification: a full channel drops it.
Notify(kind) ==
    /\ Working /\ conn = "up" /\ call.waiting /\ frames < MaxFrames
    /\ kind = "tool" => NativeMaxTurns = 0 \/ sent.tools < NativeMaxTurns
    /\ frames' = frames + 1
    /\ spent' = IF kind = "usage" THEN spent + 1 ELSE spent
    /\ sink' = IF Len(sink) < SinkSize
               THEN Append(sink, [kind |-> kind, cost |-> IF kind = "usage" THEN spent' ELSE 0]) ELSE sink
    /\ sent' = [tools |-> IF kind = "tool" THEN sent.tools + 1 ELSE sent.tools,
                lost |-> IF kind = "tool" /\ sink' = sink THEN sent.lost + 1 ELSE sent.lost]
    /\ UNCHANGED <<conn, call, resp, result, returned, ask, hitlUnanswered, turn, cancelled>>

AskUser ==
    /\ HITLAsk /\ Working /\ conn = "up" /\ call.waiting /\ ask = "none" /\ frames < MaxFrames
    /\ ask' = "open" /\ frames' = frames + 1
    /\ UNCHANGED <<conn, call, sink, resp, result, returned, sent, spent, hitlUnanswered, turn,
                   cancelled>>

\* The turn ends.  A turn cut off at the native limit ends like a finished one;
\* routeResponse drops an answer that nobody waits for.
EndTurn(stop) ==
    /\ Working /\ conn = "up"
    /\ stop = "cancelled" => cancelled
    /\ stop = "max_turn_requests" => NativeMaxTurns > 0 /\ sent.tools >= NativeMaxTurns
    /\ turn' = "idle" /\ cancelled' = FALSE
    /\ resp' = IF call.waiting THEN stop ELSE resp
    /\ UNCHANGED <<conn, call, sink, result, returned, ask, hitlUnanswered, sent, spent, frames>>

\* A viewer, or the harness, sends session/cancel.
ViewerCancel ==
    /\ turn = "running" /\ conn = "up" /\ ~cancelled
    /\ cancelled' = TRUE
    /\ UNCHANGED <<conn, call, sink, resp, result, returned, ask, hitlUnanswered, turn, sent, spent,
                   frames>>

\* goose drops the connection (so it does at its turn limit); the turn may go on.
LoseConnection ==
    /\ conn = "up"
    /\ conn' = "lost"
    /\ UNCHANGED <<call, sink, resp, result, returned, ask, hitlUnanswered, gooseVars>>

TurnFinishesUnheard ==
    /\ Working /\ conn = "lost"
    /\ turn' = "idle" /\ cancelled' = FALSE
    /\ UNCHANGED <<conn, call, sink, resp, result, returned, ask, hitlUnanswered, sent, spent, frames>>
=============================================================================
