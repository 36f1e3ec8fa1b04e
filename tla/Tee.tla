-------------------------------- MODULE Tee --------------------------------
(***************************************************************************)
(* How the harness puts goose's asks to a human: the ACP tee                *)
(* (harness/internal/tee/tee.go) offers each ask to the attached viewers,   *)
(* the session (harness/internal/acp/session.go) turns the outcome into the *)
(* reply goose is parked on.  Every ask is answered by a goroutine of its   *)
(* own, every viewer is served by one goroutine that reads and one that     *)
(* writes, and Stop runs beside all of them.  A step is a critical section  *)
(* of Server.mu, an operation on a channel, or one enqueue.                 *)
(***************************************************************************)
EXTENDS Naturals, Sequences, FiniteSets

CONSTANTS
    Viewers,       \* the connections made to the tee, one after the other or together
    Asks,          \* the requests of goose that need a human
    Elicitations,  \* those that are questions (kask); the others ask permission (kperm)
    QueueCap,      \* capacity of a viewer's outbound queue
    NoViewer       \* no member of Viewers

ASSUME TeeAssumption ==
    /\ Elicitations \subseteq Asks
    /\ QueueCap \in Nat \ {0}
    /\ NoViewer \notin Viewers
    /\ IsFiniteSet(Viewers) /\ IsFiniteSet(Asks)
    /\ Cardinality(Asks) <= QueueCap      \* the backlog of an attach fits the queue

VARIABLES
    viewers,         \* Server.viewers
    conn,            \* a connection: absent, attaching, open, or closed (viewer.closed)
    out,             \* viewer.out, the frames its writer has still to send
    got,             \* the frames a viewer's client has received
    perms,           \* the keys of Server.perms
    pendingAsks,     \* the keys of Server.pendingAsks
    responsive,      \* Server.responsive
    answer,          \* whether an ask's channel holds an answer
    asking,          \* where forwardAsk, and then the session, is with an ask
    outcome,         \* what forwardAsk returned
    answerer,        \* the viewer whose answer resolveAsk committed
    resolving,       \* where resolveAsk is with that answer
    sending,         \* the viewers a broadcast of a frame has still to reach
    stopping,        \* where Stop is
    hitlUnanswered,  \* SessionClient.hitlUnanswered
    reply            \* the reply goose got for an ask

askVars == <<perms, pendingAsks, answer, asking, outcome, answerer, resolving>>
viewerVars == <<viewers, conn>>
frameVars == <<out, got>>
sessionVars == <<hitlUnanswered, reply>>
vars == <<askVars, viewerVars, frameVars, sessionVars, responsive, sending, stopping>>

-----------------------------------------------------------------------------
\* The ask itself, or the response that closes its card: the viewer's result,
\* or the cancel body.
FrameKinds == {"ask", "answered", "cancelled"}
Frames == [ask : Asks, kind : FrameKinds]
Frame(a, kind) == [ask |-> a, kind |-> kind]

Outcomes == {"none", "noViewers", "answered", "timeout"}

Init ==
    /\ viewers = {}
    /\ conn = [v \in Viewers |-> "absent"]
    /\ out = [v \in Viewers |-> << >>] /\ got = [v \in Viewers |-> {}]
    /\ perms = {} /\ pendingAsks = {}
    /\ responsive = FALSE
    /\ answer = [a \in Asks |-> FALSE]
    /\ asking = [a \in Asks |-> "idle"] /\ outcome = [a \in Asks |-> "none"]
    /\ answerer = [a \in Asks |-> NoViewer] /\ resolving = [a \in Asks |-> "idle"]
    /\ sending = [f \in Frames |-> {}]
    /\ stopping = "no"
    /\ hitlUnanswered = FALSE /\ reply = [a \in Asks |-> "none"]

Done == stopping # "no"                              \* Server.done is closed
Stopped == stopping \in {"draining", "complete"}     \* Server.stopped

-----------------------------------------------------------------------------
(* Frames to viewers.                                                       *)

\* snapshotViewers for a broadcast of frame f.
SnapshotViewers(f) == sending' = [sending EXCEPT ![f] = viewers]

\* viewer.enqueue: never blocks; a full queue drops the viewer.
Enqueue(f, v) ==
    /\ v \in sending[f]
    /\ sending' = [sending EXCEPT ![f] = @ \ {v}]
    /\ \/ /\ conn[v] = "open" /\ Len(out[v]) < QueueCap
          /\ out' = [out EXCEPT ![v] = Append(@, f)]
          /\ UNCHANGED conn
       \/ /\ conn[v] = "open" /\ Len(out[v]) = QueueCap
          /\ conn' = [conn EXCEPT ![v] = "closed"]
          /\ UNCHANGED out
       \/ /\ conn[v] = "closed"
          /\ UNCHANGED <<conn, out>>
    /\ UNCHANGED <<askVars, sessionVars, viewers, got, responsive, stopping>>

\* The writer goroutine sends the next frame.  It need not: the socket may
\* stall, and after beginFinish it ends once its queue is empty.
Write(v) ==
    /\ conn[v] = "open" /\ out[v] # << >>
    /\ out' = [out EXCEPT ![v] = Tail(@)]
    /\ got' = [got EXCEPT ![v] = @ \cup {Head(out[v])}]
    /\ UNCHANGED <<askVars, viewerVars, sessionVars, responsive, sending, stopping>>

-----------------------------------------------------------------------------
(* forwardAsk.                                                              *)

\* The ask is not offered: nobody is attached, the tee is stopped, or viewers
\* are attached of whom nothing was heard since an ask timed out.
ForwardNobody(a) ==
    /\ asking[a] = "idle"
    /\ Stopped \/ viewers = {} \/ ~responsive
    /\ asking' = [asking EXCEPT ![a] = "returned"]
    /\ outcome' = [outcome EXCEPT ![a] = "noViewers"]
    /\ UNCHANGED <<perms, pendingAsks, answer, answerer, resolving, viewerVars, frameVars,
                   sessionVars, responsive, sending, stopping>>

Register(a) ==
    /\ asking[a] = "idle"
    /\ ~Stopped /\ viewers # {} /\ responsive
    /\ perms' = perms \cup {a} /\ pendingAsks' = pendingAsks \cup {a}
    /\ asking' = [asking EXCEPT ![a] = "registered"]
    /\ UNCHANGED <<answer, outcome, answerer, resolving, viewerVars, frameVars, sessionVars,
                   responsive, sending, stopping>>

Offer(a) ==
    /\ asking[a] = "registered"
    /\ SnapshotViewers(Frame(a, "ask"))
    /\ asking' = [asking EXCEPT ![a] = "offered"]
    /\ UNCHANGED <<perms, pendingAsks, answer, outcome, answerer, resolving, viewerVars,
                   frameVars, sessionVars, responsive, stopping>>

\* Every target has the ask; the goroutine is in its select.
Parked(a) == asking[a] = "offered" /\ sending[Frame(a, "ask")] = {}

\* The three cases of the select, which picks any that is ready.
TakeAnswer(a) ==
    /\ Parked(a) /\ answer[a]
    /\ answer' = [answer EXCEPT ![a] = FALSE]
    /\ asking' = [asking EXCEPT ![a] = "leaving"]
    /\ outcome' = [outcome EXCEPT ![a] = "answered"]
    /\ UNCHANGED <<perms, pendingAsks, answerer, resolving, viewerVars, frameVars, sessionVars,
                   responsive, sending, stopping>>

TakeDone(a) ==
    /\ Parked(a) /\ Done
    /\ asking' = [asking EXCEPT ![a] = "cancelling"]
    /\ outcome' = [outcome EXCEPT ![a] = "noViewers"]
    /\ UNCHANGED <<perms, pendingAsks, answer, answerer, resolving, viewerVars, frameVars,
                   sessionVars, responsive, sending, stopping>>

\* Mutant: an ask that times out approves itself.
TakeTimeoutApproves(a) ==
    /\ Parked(a)
    /\ responsive' = FALSE
    /\ asking' = [asking EXCEPT ![a] = "cancelling"]
    /\ outcome' = [outcome EXCEPT ![a] = "answered"]
    /\ UNCHANGED <<perms, pendingAsks, answer, answerer, resolving, viewerVars, frameVars,
                   sessionVars, sending, stopping>>

\* Mutant: the timer is never started.
TakeTimeoutNever(a) == FALSE /\ UNCHANGED vars

TakeTimeout(a) ==
    /\ Parked(a)
    /\ responsive' = FALSE
    /\ asking' = [asking EXCEPT ![a] = "cancelling"]
    /\ outcome' = [outcome EXCEPT ![a] = "timeout"]
    /\ UNCHANGED <<perms, pendingAsks, answer, answerer, resolving, viewerVars, frameVars,
                   sessionVars, sending, stopping>>

\* emitAskResolution of an ask that is over without an answer.
EmitCancelled(a) ==
    /\ asking[a] = "cancelling"
    /\ SnapshotViewers(Frame(a, "cancelled"))
    /\ asking' = [asking EXCEPT ![a] = "leaving"]
    /\ UNCHANGED <<perms, pendingAsks, answer, outcome, answerer, resolving, viewerVars, frameVars,
                   sessionVars, responsive, stopping>>

\* The deferred cleanup, and the return.
Return(a) ==
    /\ asking[a] = "leaving" /\ sending[Frame(a, "cancelled")] = {}
    /\ perms' = perms \ {a} /\ pendingAsks' = pendingAsks \ {a}
    /\ asking' = [asking EXCEPT ![a] = "returned"]
    /\ UNCHANGED <<answer, outcome, answerer, resolving, viewerVars, frameVars, sessionVars,
                   responsive, sending, stopping>>

-----------------------------------------------------------------------------
(* The session: answerAgentRequest and answerElicitation.                   *)

Answered(a) == outcome[a] = "answered"

\* A question nobody answered fails the run: latched before goose goes on.
Latch(a) ==
    /\ asking[a] = "returned" /\ a \in Elicitations /\ ~Answered(a)
    /\ hitlUnanswered' = TRUE
    /\ asking' = [asking EXCEPT ![a] = "latched"]
    /\ UNCHANGED <<perms, pendingAsks, answer, outcome, answerer, resolving, viewerVars, frameVars,
                   reply, responsive, sending, stopping>>

\* Mutant: the reply does not wait for the latch.
ReplyUnlatched(a) ==
    /\ asking[a] \in {"returned", "latched"} /\ reply[a] = "none"
    /\ reply' = [reply EXCEPT ![a] = IF Answered(a) THEN "answered" ELSE "denied"]
    /\ asking' = [asking EXCEPT ![a] = "over"]
    /\ UNCHANGED <<perms, pendingAsks, answer, outcome, answerer, resolving, viewerVars, frameVars,
                   hitlUnanswered, responsive, sending, stopping>>

\* SendResponse: the answer verbatim, else a denial or the cancel action, after
\* which an unanswered question's turn is cancelled.
Reply(a) ==
    /\ \/ asking[a] = "returned" /\ (a \notin Elicitations \/ Answered(a))
       \/ asking[a] = "latched"
    /\ reply' = [reply EXCEPT ![a] = IF Answered(a) THEN "answered" ELSE "denied"]
    /\ asking' = [asking EXCEPT ![a] = "over"]
    /\ UNCHANGED <<perms, pendingAsks, answer, outcome, answerer, resolving, viewerVars, frameVars,
                   hitlUnanswered, responsive, sending, stopping>>

-----------------------------------------------------------------------------
(* serveViewer.                                                             *)

\* The backlog is copied under the lock and queued before registration.
Attach(v) ==
    /\ conn[v] = "absent"
    /\ \E backlog \in [1..Cardinality(pendingAsks) -> pendingAsks] :
         /\ \A a \in pendingAsks : \E i \in DOMAIN backlog : backlog[i] = a
         /\ out' = [out EXCEPT ![v] = [i \in DOMAIN backlog |-> Frame(backlog[i], "ask")]]
    /\ conn' = [conn EXCEPT ![v] = "attaching"]
    /\ UNCHANGED <<askVars, sessionVars, viewers, got, responsive, sending, stopping>>

\* Mutant: a tee that is stopped still takes viewers.
AddViewerAlways(v) ==
    /\ conn[v] = "attaching"
    /\ viewers' = viewers \cup {v}
    /\ conn' = [conn EXCEPT ![v] = "open"]
    /\ responsive' = TRUE
    /\ UNCHANGED <<askVars, sessionVars, frameVars, sending, stopping>>

AddViewer(v) ==
    /\ conn[v] = "attaching"
    /\ \/ /\ Stopped
          /\ conn' = [conn EXCEPT ![v] = "closed"]
          /\ UNCHANGED <<viewers, responsive>>
       \/ /\ ~Stopped
          /\ viewers' = viewers \cup {v}
          /\ conn' = [conn EXCEPT ![v] = "open"]
          /\ responsive' = TRUE
    /\ UNCHANGED <<askVars, sessionVars, frameVars, sending, stopping>>

\* The goroutine that reads is inside resolveAsk.
Busy(v) ==
    \E a \in Asks :
        /\ answerer[a] = v
        /\ resolving[a] \in {"committed", "announcing"} \/ sending[Frame(a, "answered")] # {}

\* The client's socket breaks, or closes after the tee has dropped the viewer:
\* the reader returns, removeViewer and shutdown follow.
Detach(v) ==
    /\ v \in viewers /\ ~Busy(v)
    /\ viewers' = viewers \ {v}
    /\ conn' = [conn EXCEPT ![v] = "closed"]
    /\ UNCHANGED <<askVars, sessionVars, frameVars, responsive, sending, stopping>>

-----------------------------------------------------------------------------
(* resolveAsk, on the goroutine that reads from viewer v.                   *)

\* A client responds to an ask it was sent; the response is no result.
ErrorAnswer(v, a) ==
    /\ conn[v] = "open" /\ ~Busy(v) /\ Frame(a, "ask") \in got[v]
    /\ responsive' = TRUE
    /\ UNCHANGED <<askVars, viewerVars, frameVars, sessionVars, sending, stopping>>

\* An answer to an ask whose channel is gone is late, and ignored.
LateAnswer(v, a) ==
    /\ conn[v] = "open" /\ ~Busy(v) /\ Frame(a, "ask") \in got[v]
    /\ a \notin perms
    /\ responsive' = TRUE
    /\ UNCHANGED <<askVars, viewerVars, frameVars, sessionVars, sending, stopping>>

\* Mutant: the channel stays open to a second answer.
CommitAnswerKeeps(v, a) ==
    /\ conn[v] = "open" /\ ~Busy(v) /\ Frame(a, "ask") \in got[v]
    /\ a \in perms
    /\ pendingAsks' = pendingAsks \ {a}
    /\ answerer' = [answerer EXCEPT ![a] = v]
    /\ resolving' = [resolving EXCEPT ![a] = "committed"]
    /\ responsive' = TRUE
    /\ UNCHANGED <<perms, answer, asking, outcome, viewerVars, frameVars, sessionVars, sending,
                   stopping>>

\* Mutant: the frame kept for late viewers outlives the ask's channel.
CommitAnswerReplays(v, a) ==
    /\ conn[v] = "open" /\ ~Busy(v) /\ Frame(a, "ask") \in got[v]
    /\ a \in perms
    /\ perms' = perms \ {a}
    /\ answerer' = [answerer EXCEPT ![a] = v]
    /\ resolving' = [resolving EXCEPT ![a] = "committed"]
    /\ responsive' = TRUE
    /\ UNCHANGED <<pendingAsks, answer, asking, outcome, viewerVars, frameVars, sessionVars,
                   sending, stopping>>

\* The critical section that commits an answer.
CommitAnswer(v, a) ==
    /\ conn[v] = "open" /\ ~Busy(v) /\ Frame(a, "ask") \in got[v]
    /\ a \in perms
    /\ perms' = perms \ {a} /\ pendingAsks' = pendingAsks \ {a}
    /\ answerer' = [answerer EXCEPT ![a] = v]
    /\ resolving' = [resolving EXCEPT ![a] = "committed"]
    /\ responsive' = TRUE
    /\ UNCHANGED <<answer, asking, outcome, viewerVars, frameVars, sessionVars, sending, stopping>>

\* The answer goes into the ask's channel.
PassAnswer(a) ==
    /\ resolving[a] = "committed" /\ ~answer[a]
    /\ answer' = [answer EXCEPT ![a] = TRUE]
    /\ resolving' = [resolving EXCEPT ![a] = "announcing"]
    /\ UNCHANGED <<perms, pendingAsks, asking, outcome, answerer, viewerVars, frameVars,
                   sessionVars, responsive, sending, stopping>>

\* emitAskResolution of an answered ask.
EmitAnswered(a) ==
    /\ resolving[a] = "announcing"
    /\ SnapshotViewers(Frame(a, "answered"))
    /\ resolving' = [resolving EXCEPT ![a] = "announced"]
    /\ UNCHANGED <<perms, pendingAsks, answer, asking, outcome, answerer, viewerVars, frameVars,
                   sessionVars, responsive, stopping>>

-----------------------------------------------------------------------------
(* Stop.                                                                    *)

StopBegin ==
    /\ stopping = "no"
    /\ stopping' = "done"
    /\ UNCHANGED <<askVars, viewerVars, frameVars, sessionVars, responsive, sending>>

\* stopped is set, and the viewers to close are copied, under the lock.
StopMark ==
    /\ stopping = "done"
    /\ stopping' = "draining"
    /\ UNCHANGED <<askVars, viewerVars, frameVars, sessionVars, responsive, sending>>

\* The writers have drained their queues, or shutdownFlushTimeout is up.
StopFinish ==
    /\ stopping = "draining"
    /\ stopping' = "complete"
    /\ conn' = [v \in Viewers |-> IF v \in viewers THEN "closed" ELSE conn[v]]
    /\ UNCHANGED <<askVars, frameVars, sessionVars, viewers, responsive, sending>>

-----------------------------------------------------------------------------
Raise(a) == ForwardNobody(a) \/ Register(a)

AskStep(a) ==
    \/ Offer(a) \/ TakeAnswer(a) \/ TakeDone(a) \/ EmitCancelled(a) \/ Return(a)
    \/ Latch(a) \/ Reply(a)

ResolveStep(a) == PassAnswer(a) \/ EmitAnswered(a)

ViewerStep(v) == Attach(v) \/ AddViewer(v) \/ Detach(v) \/ Write(v)

ClientStep(v, a) == ErrorAnswer(v, a) \/ LateAnswer(v, a) \/ CommitAnswer(v, a)

Next ==
    \/ \E a \in Asks : Raise(a) \/ AskStep(a) \/ TakeTimeout(a) \/ ResolveStep(a)
    \/ \E v \in Viewers : ViewerStep(v)
    \/ \E v \in Viewers, a \in Asks : ClientStep(v, a)
    \/ \E f \in Frames, v \in Viewers : Enqueue(f, v)
    \/ StopBegin \/ StopMark \/ StopFinish

Spec == Init /\ [][Next]_vars

\* Goroutines that can go on do so, and a socket the tee has closed fails its
\* reader.  Nothing is assumed of goose, of the clients or of the timeouts.
Fairness ==
    /\ \A a \in Asks : WF_vars(AskStep(a)) /\ WF_vars(ResolveStep(a))
    /\ \A f \in Frames, v \in Viewers : WF_vars(Enqueue(f, v))
    /\ \A v \in Viewers : WF_vars(AddViewer(v)) /\ WF_vars(conn[v] = "closed" /\ Detach(v))
    /\ WF_vars(StopMark) /\ WF_vars(StopFinish)

FairSpec == Spec /\ Fairness

-----------------------------------------------------------------------------
(* Properties.                                                              *)

\* Every variable stays in its range; no queue outgrows its capacity.
TypeOK ==
    /\ viewers \subseteq Viewers
    /\ conn \in [Viewers -> {"absent", "attaching", "open", "closed"}]
    /\ out \in [Viewers -> Seq(Frames)] /\ \A v \in Viewers : Len(out[v]) <= QueueCap
    /\ got \in [Viewers -> SUBSET Frames]
    /\ perms \subseteq Asks /\ pendingAsks \subseteq Asks
    /\ responsive \in BOOLEAN /\ hitlUnanswered \in BOOLEAN
    /\ answer \in [Asks -> BOOLEAN]
    /\ asking \in [Asks -> {"idle", "registered", "offered", "cancelling", "leaving", "returned",
                            "latched", "over"}]
    /\ outcome \in [Asks -> Outcomes]
    /\ answerer \in [Asks -> Viewers \cup {NoViewer}]
    /\ resolving \in [Asks -> {"idle", "committed", "announcing", "announced"}]
    /\ sending \in [Frames -> SUBSET Viewers]
    /\ stopping \in {"no", "done", "draining", "complete"}
    /\ reply \in [Asks -> {"none", "answered", "denied"}]

\* The backlog offers no ask whose answer channel is gone: a viewer that
\* attaches at any moment is only asked what resolveAsk would still accept.
PendingIsAnswerable == pendingAsks \subseteq perms

\* goose is told that a human agreed only if one answered: no timeout, stop or
\* loss of viewers turns into an approval.
FailsClosed == \A a \in Asks : reply[a] = "answered" => answerer[a] # NoViewer

\* goose is not unparked from a question nobody answered before the run is
\* marked as failed on it.
GateLatched == \A a \in Elicitations : reply[a] = "denied" => hitlUnanswered

\* An ask that is over leaves nothing behind in the tee's maps.
NothingLeaks ==
    \A a \in Asks : asking[a] \in {"returned", "latched", "over"} => a \notin perms \cup pendingAsks

\* The first answer to an ask wins, and so the only send on its channel of
\* capacity one never blocks the viewer's reader.
FirstAnswerWins ==
    [][\A a \in Asks : answerer[a] # NoViewer => answerer'[a] = answerer[a]]_vars

\* Stop releases an ask that waits for a human, whatever its timeout.
StopReleasesAsks == \A a \in Asks : Done /\ asking[a] # "idle" ~> asking[a] = "over"

\* forwardAsk does not block past its own timeout: with a timer that fires,
\* goose always gets its reply.
AsksReturn ==
    (\A a \in Asks : WF_vars(TakeTimeout(a)))
        => \A a \in Asks : asking[a] = "registered" ~> asking[a] = "over"

\* After Stop no viewer stays connected, one that was attaching included.
StopClosesViewers == Done ~> [](viewers = {} /\ \A v \in Viewers : conn[v] # "open")

\* Stop is complete: no ask stays parked and no viewer stays connected.
StopCompletes == StopReleasesAsks /\ StopClosesViewers

\* Not an invariant (README, scenario): an ask the viewers are told was answered
\* is one whose answer goose gets.
AnswersAreHeeded ==
    \A a \in Asks, v \in Viewers :
        Frame(a, "answered") \in got[v] => outcome[a] \in {"none", "answered"}

=============================================================================
