----------------------------- MODULE TeeProofs -----------------------------
(***************************************************************************)
(* Proofs about Tee, for every set of viewers and asks and every capacity.  *)
(***************************************************************************)
EXTENDS Tee, FiniteSetTheorems, TLAPS

-----------------------------------------------------------------------------
(* Type correctness.                                                        *)

\* A backlog of pending asks is a queue that fits: what Attach gives a viewer.
LEMMA BacklogFits ==
    ASSUME pendingAsks \subseteq Asks,
           NEW backlog \in [1..Cardinality(pendingAsks) -> pendingAsks]
    PROVE  LET q == [i \in DOMAIN backlog |-> Frame(backlog[i], "ask")]
           IN  q \in Seq(Frames) /\ Len(q) <= QueueCap
<1>1. /\ IsFiniteSet(pendingAsks)
      /\ Cardinality(pendingAsks) <= Cardinality(Asks)
  BY FS_Subset, TeeAssumption
<1>2. Cardinality(pendingAsks) \in Nat /\ Cardinality(Asks) \in Nat
  BY <1>1, FS_CardinalityType, TeeAssumption
<1>3. Cardinality(pendingAsks) <= QueueCap
  BY <1>1, <1>2, TeeAssumption
<1> DEFINE q == [i \in DOMAIN backlog |-> Frame(backlog[i], "ask")]
<1>4. DOMAIN q = 1..Cardinality(pendingAsks)
  OBVIOUS
<1>5. \A i \in DOMAIN q : q[i] \in Frames
  BY <1>4 DEF Frame, Frames, FrameKinds
<1>6. q \in [1..Cardinality(pendingAsks) -> Frames]
  BY <1>4, <1>5
<1>7. q \in Seq(Frames) /\ Len(q) = Cardinality(pendingAsks)
  BY <1>2, <1>6
<1> QED BY <1>3, <1>7

\* The goroutines that answer goose keep every variable in its range.
LEMMA AskType ==
    ASSUME TypeOK, NEW a \in Asks, Raise(a) \/ AskStep(a) \/ TakeTimeout(a) \/ ResolveStep(a)
    PROVE  TypeOK'
<1> USE DEF TypeOK, askVars, viewerVars, frameVars, sessionVars, Outcomes
<1>1. CASE ForwardNobody(a) BY <1>1 DEF ForwardNobody
<1>2. CASE Register(a) BY <1>2 DEF Register
<1>3. CASE Offer(a)
  BY <1>3 DEF Offer, SnapshotViewers, Frame, Frames, FrameKinds
<1>4. CASE TakeAnswer(a) BY <1>4 DEF TakeAnswer
<1>5. CASE TakeDone(a) BY <1>5 DEF TakeDone
<1>6. CASE TakeTimeout(a) BY <1>6 DEF TakeTimeout
<1>7. CASE EmitCancelled(a)
  BY <1>7 DEF EmitCancelled, SnapshotViewers, Frame, Frames, FrameKinds
<1>8. CASE Return(a) BY <1>8 DEF Return
<1>9. CASE Latch(a) BY <1>9 DEF Latch
<1>10. CASE Reply(a) BY <1>10 DEF Reply
<1>11. CASE PassAnswer(a) BY <1>11 DEF PassAnswer
<1>12. CASE EmitAnswered(a)
  BY <1>12 DEF EmitAnswered, SnapshotViewers, Frame, Frames, FrameKinds
<1> QED
  BY <1>1, <1>2, <1>3, <1>4, <1>5, <1>6, <1>7, <1>8, <1>9, <1>10, <1>11, <1>12
  DEF Raise, AskStep, ResolveStep

\* So do the goroutines that serve a viewer.
LEMMA ViewerType ==
    ASSUME TypeOK, NEW v \in Viewers, ViewerStep(v)
    PROVE  TypeOK'
<1> USE DEF TypeOK, askVars, viewerVars, frameVars, sessionVars
<1>1. CASE Attach(v)
  <2>1. PICK backlog \in [1..Cardinality(pendingAsks) -> pendingAsks] :
             out' = [out EXCEPT ![v] = [i \in DOMAIN backlog |-> Frame(backlog[i], "ask")]]
    BY <1>1 DEF Attach
  <2>2. /\ out'[v] \in Seq(Frames) /\ Len(out'[v]) <= QueueCap
        /\ out' = [out EXCEPT ![v] = out'[v]]
    BY <2>1, BacklogFits
  <2> QED BY <1>1, <2>2 DEF Attach
<1>2. CASE AddViewer(v)
  <2>1. responsive' \in BOOLEAN BY <1>2 DEF AddViewer
  <2>2. /\ viewers' \subseteq Viewers
        /\ conn' \in [Viewers -> {"absent", "attaching", "open", "closed"}]
    BY <1>2 DEF AddViewer, Stopped
  <2> QED BY <1>2, <2>1, <2>2 DEF AddViewer
<1>3. CASE Detach(v) BY <1>3 DEF Detach
<1>4. CASE Write(v)
  <2>1. Head(out[v]) \in Frames /\ Tail(out[v]) \in Seq(Frames) /\ Len(Tail(out[v])) <= QueueCap
    BY <1>4, TeeAssumption DEF Write
  <2>2. got' \in [Viewers -> SUBSET Frames]
    BY <1>4, <2>1 DEF Write
  <2> QED BY <1>4, <2>1, <2>2 DEF Write
<1> QED BY <1>1, <1>2, <1>3, <1>4 DEF ViewerStep

\* So does a client's response.
LEMMA ClientType ==
    ASSUME TypeOK, NEW v \in Viewers, NEW a \in Asks, ClientStep(v, a)
    PROVE  TypeOK'
<1> USE DEF TypeOK, askVars, viewerVars, frameVars, sessionVars
<1>1. CASE ErrorAnswer(v, a) BY <1>1 DEF ErrorAnswer
<1>2. CASE LateAnswer(v, a) BY <1>2 DEF LateAnswer
<1>3. CASE CommitAnswer(v, a) BY <1>3 DEF CommitAnswer
<1> QED BY <1>1, <1>2, <1>3 DEF ClientStep

\* So does enqueue, which never grows a queue beyond its capacity.
LEMMA EnqueueType ==
    ASSUME TypeOK, NEW f \in Frames, NEW v \in Viewers, Enqueue(f, v)
    PROVE  TypeOK'
<1> USE DEF TypeOK, askVars, viewerVars, frameVars, sessionVars
<1>1. CASE conn[v] = "open" /\ Len(out[v]) < QueueCap
  <2>1. Append(out[v], f) \in Seq(Frames) /\ Len(Append(out[v], f)) <= QueueCap
    BY <1>1, TeeAssumption
  <2> QED BY <1>1, <2>1 DEF Enqueue
<1>2. CASE ~(conn[v] = "open" /\ Len(out[v]) < QueueCap)
  BY <1>2 DEF Enqueue
<1> QED BY <1>1, <1>2

\* So does Stop.
LEMMA StopType ==
    ASSUME TypeOK, StopBegin \/ StopMark \/ StopFinish
    PROVE  TypeOK'
  BY DEF TypeOK, askVars, viewerVars, frameVars, sessionVars, StopBegin, StopMark, StopFinish

\* Every reachable state of the tee is well typed; in particular no viewer, however slow, makes
\* its queue grow beyond QueueCap.
THEOREM TypeCorrect == Spec => []TypeOK
<1>1. Init => TypeOK
  <2> SUFFICES ASSUME Init PROVE TypeOK
    OBVIOUS
  <2>1. out \in [Viewers -> Seq(Frames)] /\ \A v \in Viewers : Len(out[v]) <= QueueCap
    BY TeeAssumption DEF Init
  <2>2. got \in [Viewers -> SUBSET Frames] /\ sending \in [Frames -> SUBSET Viewers]
    BY DEF Init
  <2>3. /\ conn \in [Viewers -> {"absent", "attaching", "open", "closed"}]
        /\ answer \in [Asks -> BOOLEAN]
        /\ answerer \in [Asks -> Viewers \cup {NoViewer}]
    BY DEF Init
  <2> QED BY <2>1, <2>2, <2>3 DEF Init, TypeOK, Outcomes
<1>2. TypeOK /\ [Next]_vars => TypeOK'
  <2> SUFFICES ASSUME TypeOK, [Next]_vars PROVE TypeOK'
    OBVIOUS
  <2>1. CASE UNCHANGED vars
    BY <2>1 DEF TypeOK, vars, askVars, viewerVars, frameVars, sessionVars
  <2>2. CASE Next
    <3>1. CASE \E a \in Asks : Raise(a) \/ AskStep(a) \/ TakeTimeout(a) \/ ResolveStep(a)
      BY <3>1, AskType
    <3>2. CASE \E v \in Viewers : ViewerStep(v)
      BY <3>2, ViewerType
    <3>3. CASE \E v \in Viewers, a \in Asks : ClientStep(v, a)
      BY <3>3, ClientType
    <3>4. CASE \E f \in Frames, v \in Viewers : Enqueue(f, v)
      BY <3>4, EnqueueType
    <3>5. CASE StopBegin \/ StopMark \/ StopFinish
      BY <3>5, StopType
    <3> QED BY <2>2, <3>1, <3>2, <3>3, <3>4, <3>5 DEF Next
  <2> QED BY <2>1, <2>2
<1> QED BY <1>1, <1>2, PTL DEF Spec

-----------------------------------------------------------------------------
(* What an answer, a reply and an open ask say of each other.               *)

\* An ask whose channel is open is one forwardAsk is at work on, and nobody has
\* answered it yet; whatever claims an answer has a viewer who gave it; the
\* session replies to an unanswered question only once the failure is latched.
AskInv ==
    /\ pendingAsks = perms
    /\ \A a \in perms : /\ asking[a] \in {"registered", "offered", "cancelling", "leaving"}
                        /\ answerer[a] = NoViewer
    /\ \A a \in Asks :
         /\ asking[a] = "idle" => answerer[a] = NoViewer
         /\ resolving[a] # "idle" => answerer[a] # NoViewer
         /\ answer[a] => answerer[a] # NoViewer
         /\ outcome[a] = "answered" => answerer[a] # NoViewer
         /\ reply[a] = "answered" => answerer[a] # NoViewer
         /\ asking[a] = "latched" => hitlUnanswered
         /\ a \in Elicitations /\ reply[a] = "denied" => hitlUnanswered

\* A step that leaves the asks and the session alone leaves AskInv alone.
LEMMA AskInvUnchanged ==
    ASSUME AskInv, UNCHANGED <<askVars, sessionVars>>
    PROVE  AskInv'
  BY DEF AskInv, askVars, sessionVars

\* The goroutines that answer goose preserve AskInv.
LEMMA AskStepInv ==
    ASSUME TypeOK, AskInv, NEW a \in Asks,
           Raise(a) \/ AskStep(a) \/ TakeTimeout(a) \/ ResolveStep(a)
    PROVE  AskInv'
<1> USE DEF AskInv, TypeOK, sessionVars
<1>1. CASE ForwardNobody(a) BY <1>1 DEF ForwardNobody
<1>2. CASE Register(a) BY <1>2 DEF Register
<1>3. CASE Offer(a) BY <1>3 DEF Offer
<1>4. CASE TakeAnswer(a) BY <1>4 DEF TakeAnswer, Parked
<1>5. CASE TakeDone(a) BY <1>5 DEF TakeDone, Parked
<1>6. CASE TakeTimeout(a) BY <1>6 DEF TakeTimeout, Parked
<1>7. CASE EmitCancelled(a) BY <1>7 DEF EmitCancelled
<1>8. CASE Return(a) BY <1>8 DEF Return
<1>9. CASE Latch(a) BY <1>9 DEF Latch
<1>10. CASE Reply(a) BY <1>10 DEF Reply, Answered
<1>11. CASE PassAnswer(a) BY <1>11 DEF PassAnswer
<1>12. CASE EmitAnswered(a) BY <1>12 DEF EmitAnswered
<1> QED
  BY <1>1, <1>2, <1>3, <1>4, <1>5, <1>6, <1>7, <1>8, <1>9, <1>10, <1>11, <1>12
  DEF Raise, AskStep, ResolveStep

\* So does a client's response: the one that commits an answer takes the ask
\* out of both maps in the same critical section.
LEMMA ClientStepInv ==
    ASSUME TypeOK, AskInv, NEW v \in Viewers, NEW a \in Asks, ClientStep(v, a)
    PROVE  AskInv'
<1>1. CASE CommitAnswer(v, a)
  BY <1>1, TeeAssumption DEF AskInv, TypeOK, sessionVars, CommitAnswer
<1>2. CASE ErrorAnswer(v, a) \/ LateAnswer(v, a)
  BY <1>2, AskInvUnchanged DEF ErrorAnswer, LateAnswer
<1> QED BY <1>1, <1>2 DEF ClientStep

\* AskInv is an invariant of the tee.
THEOREM AsksAreSound == Spec => []AskInv
<1>1. Init => AskInv
  BY DEF Init, AskInv
<1>2. TypeOK /\ AskInv /\ [Next]_vars => AskInv'
  <2> SUFFICES ASSUME TypeOK, AskInv, [Next]_vars PROVE AskInv'
    OBVIOUS
  <2>1. CASE UNCHANGED vars
    BY <2>1, AskInvUnchanged DEF vars
  <2>2. CASE Next
    <3>1. CASE \E a \in Asks : Raise(a) \/ AskStep(a) \/ TakeTimeout(a) \/ ResolveStep(a)
      BY <3>1, AskStepInv
    <3>2. CASE \E v \in Viewers : ViewerStep(v)
      BY <3>2, AskInvUnchanged DEF ViewerStep, Attach, AddViewer, Detach, Write
    <3>3. CASE \E v \in Viewers, a \in Asks : ClientStep(v, a)
      BY <3>3, ClientStepInv
    <3>4. CASE \E f \in Frames, v \in Viewers : Enqueue(f, v)
      BY <3>4, AskInvUnchanged DEF Enqueue
    <3>5. CASE StopBegin \/ StopMark \/ StopFinish
      BY <3>5, AskInvUnchanged DEF StopBegin, StopMark, StopFinish
    <3> QED BY <2>2, <3>1, <3>2, <3>3, <3>4, <3>5 DEF Next
  <2> QED BY <2>1, <2>2
<1> QED BY <1>1, <1>2, TypeCorrect, PTL DEF Spec

\* However asks, answers, timeouts, attaching viewers and Stop interleave, the
\* backlog only offers asks that resolveAsk still accepts.
THEOREM BacklogIsAnswerable == Spec => []PendingIsAnswerable
<1>1. AskInv => PendingIsAnswerable
  BY DEF AskInv, PendingIsAnswerable
<1> QED BY <1>1, AsksAreSound, PTL

\* goose hears of an approval only if a viewer gave one.
THEOREM NeverFailsOpen == Spec => []FailsClosed
<1>1. AskInv => FailsClosed
  BY DEF AskInv, FailsClosed
<1> QED BY <1>1, AsksAreSound, PTL

\* An unanswered question is latched as a failure before goose goes on.
THEOREM GateHolds == Spec => []GateLatched
<1>1. AskInv => GateLatched
  BY TeeAssumption DEF AskInv, GateLatched
<1> QED BY <1>1, AsksAreSound, PTL

\* An ask that is over is in neither of the tee's maps.
THEOREM MapsAreEmptied == Spec => []NothingLeaks
<1>1. TypeOK /\ AskInv => NothingLeaks
  BY DEF TypeOK, AskInv, NothingLeaks
<1> QED BY <1>1, AsksAreSound, TypeCorrect, PTL

\* Only the first answer to an ask is ever committed.
THEOREM OneAnswer == Spec => FirstAnswerWins
<1> DEFINE Kept == \A a \in Asks : answerer[a] # NoViewer => answerer'[a] = answerer[a]
<1>1. AskInv /\ TypeOK /\ [Next]_vars => [Kept]_vars
  <2> SUFFICES ASSUME AskInv, TypeOK, Next PROVE Kept
    OBVIOUS
  <2>1. CASE UNCHANGED answerer
    BY <2>1
  <2>2. CASE \E v \in Viewers, a \in Asks : CommitAnswer(v, a)
    BY <2>2 DEF CommitAnswer, AskInv, TypeOK
  <2>3. UNCHANGED answerer \/ \E v \in Viewers, a \in Asks : CommitAnswer(v, a)
    <3> USE DEF askVars
    <3>1. CASE \E a \in Asks : Raise(a) \/ AskStep(a) \/ TakeTimeout(a) \/ ResolveStep(a)
      BY <3>1 DEF Raise, AskStep, ResolveStep, ForwardNobody, Register, Offer, TakeAnswer,
         TakeDone, TakeTimeout, EmitCancelled, Return, Latch, Reply, PassAnswer, EmitAnswered
    <3>2. CASE \E v \in Viewers : ViewerStep(v)
      BY <3>2 DEF ViewerStep, Attach, AddViewer, Detach, Write
    <3>3. CASE \E v \in Viewers, a \in Asks : ClientStep(v, a)
      BY <3>3 DEF ClientStep, ErrorAnswer, LateAnswer
    <3>4. CASE \E f \in Frames, v \in Viewers : Enqueue(f, v)
      BY <3>4 DEF Enqueue
    <3>5. CASE StopBegin \/ StopMark \/ StopFinish
      BY <3>5 DEF StopBegin, StopMark, StopFinish
    <3> QED BY <3>1, <3>2, <3>3, <3>4, <3>5 DEF Next
  <2> QED BY <2>1, <2>2, <2>3
<1> QED BY <1>1, AsksAreSound, TypeCorrect, PTL DEF Spec, FirstAnswerWins

=============================================================================
