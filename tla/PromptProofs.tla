---------------------------- MODULE PromptProofs ----------------------------
(* Lemmas about the prompt call, SendPrompt, and about the drain of the        *)
(* notifications that are still in its channel.                               *)
EXTENDS Prompt, InductionFacts, SequenceTheorems, TLAPS

-----------------------------------------------------------------------------
(* drainNotifications: the fold that defines it, unfolded.                    *)

\* g is the fold over the first n places of the channel, as a function on the
\* sets of such places.
FoldsTo(g, n) ==
    g = [s \in SUBSET (1..n) |->
          IF s = {} THEN result ELSE Process(g[s \ {Max(s)}], sink[Max(s)])]

\* The largest place of a set that holds the last one.
LEMMA MaxFact ==
    ASSUME NEW n \in Nat, NEW s \in SUBSET (1..n), n \in s
    PROVE  Max(s) = n
<1>1. \A y \in s : n >= y
    OBVIOUS
<1>2. Max(s) \in s /\ \A y \in s : Max(s) >= y
  <2>1. \E x \in s : \A y \in s : x >= y
      BY <1>1
  <2>. QED BY <2>1, Zenon DEF Max
<1>3. PICK k : k = Max(s)
    OBVIOUS
<1>4. k \in 1..n /\ k >= n
    BY <1>2, <1>3
<1>. QED BY <1>3, <1>4

\* There is such a function: the recursion of the fold is well founded.
LEMMA FoldExists ==
    ASSUME NEW n \in Nat
    PROVE  \E g : FoldsTo(g, n)
<1>. DEFINE S == {m \in Nat : \E g : FoldsTo(g, m)}
<1>1. 0 \in S
  <2>. DEFINE g == [s \in SUBSET (1..0) |-> result]
  <2>1. 1..0 = {}
      OBVIOUS
  <2>2. \A s \in SUBSET (1..0) : s = {}
      BY <2>1
  <2>3. FoldsTo(g, 0)
      BY <2>2 DEF FoldsTo
  <2>. QED BY <2>3
<1>2. ASSUME NEW m \in Nat, m \in S PROVE m + 1 \in S
  <2>1. PICK g : FoldsTo(g, m)
      BY <1>2
  <2>2. \A s \in SUBSET (1..m) :
          g[s] = IF s = {} THEN result ELSE Process(g[s \ {Max(s)}], sink[Max(s)])
      BY <2>1, Zenon DEF FoldsTo
  <2>. DEFINE h == [s \in SUBSET (1..(m + 1)) |->
                      IF m + 1 \in s THEN Process(g[s \ {m + 1}], sink[m + 1]) ELSE g[s]]
  <2>3. ASSUME NEW s \in SUBSET (1..(m + 1))
        PROVE  h[s] = IF s = {} THEN result ELSE Process(h[s \ {Max(s)}], sink[Max(s)])
    <3>1. CASE m + 1 \in s
      <4>1. Max(s) = m + 1
          BY <3>1, MaxFact
      <4>2. s \ {m + 1} \in SUBSET (1..(m + 1)) /\ m + 1 \notin s \ {m + 1}
          OBVIOUS
      <4>3. h[s \ {m + 1}] = g[s \ {m + 1}]
          BY <4>2
      <4>4. h[s] = Process(g[s \ {m + 1}], sink[m + 1])
          BY <3>1
      <4>. HIDE DEF h
      <4>5. h[s] = Process(h[s \ {Max(s)}], sink[Max(s)])
          BY <4>1, <4>3, <4>4, Zenon
      <4>. QED BY <3>1, <4>5, Zenon
    <3>2. CASE m + 1 \notin s
      <4>1. s \in SUBSET (1..m) /\ s \ {Max(s)} \in SUBSET (1..(m + 1)) /\ m + 1 \notin s \ {Max(s)}
        <5>1. \A x \in s : x \in 1..(m + 1) /\ x # m + 1
            BY <3>2
        <5>2. \A x \in 1..(m + 1) : x # m + 1 => x \in 1..m
            OBVIOUS
        <5>3. \A x \in s : x \in 1..m
            BY <5>1, <5>2
        <5>. QED BY <5>1, <5>3, Zenon
      <4>2. h[s] = g[s] /\ h[s \ {Max(s)}] = g[s \ {Max(s)}]
          BY <3>2, <4>1
      <4>. HIDE DEF h
      <4>. QED BY <2>2, <4>1, <4>2, Zenon
    <3>. QED BY <3>1, <3>2
  <2>4. FoldsTo(h, m + 1)
    <3>1. h = [s \in SUBSET (1..(m + 1)) |-> h[s]]
        OBVIOUS
    <3>. HIDE DEF h
    <3>. QED BY <2>3, <3>1, Zenon DEF FoldsTo
  <2>. HIDE DEF h
  <2>. QED BY <2>4
<1>. HIDE DEF S
<1>3. Nat \subseteq S
    BY <1>1, <1>2, SetInduction
<1>. QED BY <1>3 DEF S

\* drainNotifications processes what is in the channel one by one, in order.
LEMMA DrainedFact ==
    ASSUME sink \in Seq(Notifications)
    PROVE  \E d : /\ d[0] = result /\ Drained = d[Len(sink)]
                  /\ \A i \in 1..Len(sink) : d[i] = Process(d[i - 1], sink[i])
<1>0. Len(sink) \in Nat /\ DOMAIN sink = 1..Len(sink)
    OBVIOUS
<1>1. Drained = (CHOOSE g : g = [s \in SUBSET (DOMAIN sink) |->
          IF s = {} THEN result ELSE Process(g[s \ {Max(s)}], sink[Max(s)])])[DOMAIN sink]
    BY DEF Drained, FoldLeft, MapThenFoldSet
<1>2. PICK g : FoldsTo(g, Len(sink)) /\ Drained = g[1..Len(sink)]
  <2>1. \E g : FoldsTo(g, Len(sink))
      BY <1>0, FoldExists
  <2>2. FoldsTo(CHOOSE g : FoldsTo(g, Len(sink)), Len(sink))
      BY <2>1, Zenon
  <2>3. Drained = (CHOOSE g : FoldsTo(g, Len(sink)))[1..Len(sink)]
      BY <1>0, <1>1 DEF FoldsTo
  <2>. QED BY <2>2, <2>3
<1>3. \A s \in SUBSET (1..Len(sink)) :
        g[s] = IF s = {} THEN result ELSE Process(g[s \ {Max(s)}], sink[Max(s)])
    BY <1>2, Zenon DEF FoldsTo
<1>. DEFINE d == [i \in 0..Len(sink) |-> g[1..i]]
<1>4. d[0] = result
  <2>1. 0 \in 0..Len(sink) /\ 1..0 = {} /\ {} \in SUBSET (1..Len(sink))
      BY <1>0
  <2>2. g[{}] = result
      BY <1>3, <2>1
  <2>. QED BY <2>1, <2>2
<1>5. d[Len(sink)] = g[1..Len(sink)]
    BY <1>0
<1>6. ASSUME NEW i \in 1..Len(sink) PROVE d[i] = Process(d[i - 1], sink[i])
  <2>1. i \in Nat /\ i \in 0..Len(sink) /\ i - 1 \in 0..Len(sink) /\ i \in 1..i
      BY <1>0
  <2>2. 1..i \in SUBSET (1..Len(sink)) /\ 1..i \in SUBSET (1..i) /\ 1..i # {}
    <3>1. \A x \in 1..i : x \in 1..Len(sink)
        BY <1>0
    <3>. QED BY <2>1, <3>1, Zenon
  <2>3. Max(1..i) = i
      BY <2>1, <2>2, MaxFact
  <2>4. (1..i) \ {i} = 1..(i - 1)
      BY <2>1
  <2>5. g[1..i] = Process(g[(1..i) \ {Max(1..i)}], sink[Max(1..i)])
      BY <1>3, <2>2, Zenon
  <2>6. g[1..i] = Process(g[1..(i - 1)], sink[i])
      BY <2>3, <2>4, <2>5
  <2>7. d[i] = g[1..i] /\ d[i - 1] = g[1..(i - 1)]
      BY <2>1
  <2>. HIDE DEF d
  <2>. QED BY <2>6, <2>7
<1>. HIDE DEF d
<1>. QED BY <1>2, <1>4, <1>5, <1>6

-----------------------------------------------------------------------------
(* The turns a call has counted and will count.                              *)

Tool(n) == IF n.kind = "tool" THEN 1 ELSE 0

\* c[i] is the number of turns counted once the first i notifications of the
\* channel q have been processed, starting from the result r.
Counts(c, q, r) ==
    /\ c \in [0..Len(q) -> 0..MaxFrames] /\ c[0] = r.turnsUsed
    /\ \A i \in 1..Len(q) : c[i] = c[i - 1] + Tool(q[i])

\* process counts one turn for a tool call, and none for anything else.
LEMMA ProcessFact ==
    ASSUME NEW r \in PromptResults, NEW n \in Notifications, r.turnsUsed + Tool(n) \in 0..MaxFrames
    PROVE  /\ Process(r, n) \in PromptResults
           /\ Process(r, n).turnsUsed = r.turnsUsed + Tool(n)
<1>0. r.turnsUsed \in Nat /\ r.turnsUsed \in 0..MaxFrames /\ n.cost \in 0..MaxFrames
    BY PromptAssumption DEF PromptResults, Notifications
<1>1. CASE n.kind = "tool"
  <2>1. Process(r, n) = [r EXCEPT !.turnsUsed = @ + 1, !.providerError = FALSE]
      BY <1>1 DEF Process
  <2>2. Tool(n) = 1 /\ r.turnsUsed + 1 \in 0..MaxFrames
      BY <1>1 DEF Tool
  <2>3. Process(r, n) \in PromptResults
      BY <2>1, <2>2 DEF PromptResults
  <2>4. Process(r, n).turnsUsed = r.turnsUsed + 1
      BY <2>1 DEF PromptResults
  <2>. QED BY <2>2, <2>3, <2>4
<1>2. CASE n.kind = "usage"
  <2>1. Process(r, n) = [r EXCEPT !.cost = n.cost]
      BY <1>2 DEF Process
  <2>2. Tool(n) = 0
      BY <1>2 DEF Tool
  <2>. QED BY <1>0, <2>1, <2>2 DEF PromptResults
<1>3. CASE n.kind = "providerError"
  <2>1. Process(r, n) = [r EXCEPT !.providerError = TRUE]
      BY <1>3 DEF Process
  <2>2. Tool(n) = 0
      BY <1>3 DEF Tool
  <2>3. Process(r, n) \in PromptResults
      BY <2>1 DEF PromptResults
  <2>4. Process(r, n).turnsUsed = r.turnsUsed
      BY <2>1 DEF PromptResults
  <2>. QED BY <1>0, <2>2, <2>3, <2>4
<1>. QED BY <1>1, <1>2, <1>3 DEF Notifications

\* The drain counts what is in the channel.
LEMMA DrainCount ==
    ASSUME sink \in Seq(Notifications), result \in PromptResults, NEW c, Counts(c, sink, result)
    PROVE  Drained \in PromptResults /\ Drained.turnsUsed = c[Len(sink)]
<1>0. /\ Len(sink) \in Nat /\ c \in [0..Len(sink) -> 0..MaxFrames] /\ c[0] = result.turnsUsed
      /\ \A i \in 1..Len(sink) : c[i] = c[i - 1] + Tool(sink[i])
      /\ \A i \in 1..Len(sink) : sink[i] \in Notifications
    BY DEF Counts
<1>1. PICK d : /\ d[0] = result /\ Drained = d[Len(sink)]
               /\ \A i \in 1..Len(sink) : d[i] = Process(d[i - 1], sink[i])
    BY DrainedFact
<1>. DEFINE S == {m \in Nat : m <= Len(sink) => d[m] \in PromptResults /\ d[m].turnsUsed = c[m]}
<1>2. 0 \in S
    BY <1>0, <1>1
<1>3. ASSUME NEW m \in Nat, m \in S PROVE m + 1 \in S
  <2>. SUFFICES ASSUME m + 1 <= Len(sink)
               PROVE  d[m + 1] \in PromptResults /\ d[m + 1].turnsUsed = c[m + 1]
      OBVIOUS
  <2>1. m <= Len(sink) /\ m + 1 \in 1..Len(sink) /\ m + 1 \in 0..Len(sink) /\ (m + 1) - 1 = m
      BY <1>0
  <2>2. d[m] \in PromptResults /\ d[m].turnsUsed = c[m]
      BY <1>3, <2>1
  <2>3. /\ d[m + 1] = Process(d[m], sink[m + 1]) /\ c[m + 1] = c[m] + Tool(sink[m + 1])
        /\ sink[m + 1] \in Notifications /\ c[m + 1] \in 0..MaxFrames
      BY <1>0, <1>1, <2>1
  <2>4. d[m].turnsUsed + Tool(sink[m + 1]) \in 0..MaxFrames
      BY <2>2, <2>3
  <2>. QED BY <2>2, <2>3, <2>4, ProcessFact
<1>. HIDE DEF S
<1>4. Nat \subseteq S
    BY <1>2, <1>3, SetInduction
<1>5. Len(sink) \in S
    BY <1>0, <1>4
<1>. QED BY <1>0, <1>1, <1>5 DEF S

\* What is in the channel makes up, with what has been counted and what was
\* dropped, for every tool call of the turn.
Counted == \E c : Counts(c, sink, result) /\ c[Len(sink)] + sent.lost = sent.tools

\* What a call returned makes up for them.
Told == ~call.waiting /\ HasResult(returned) => returned.result.turnsUsed + sent.lost = sent.tools

Counting ==
    /\ sent.tools <= frames /\ spent <= frames
    /\ call.waiting => Counted
    /\ Told

\* Before the first call nothing has been sent.
LEMMA PromptInitFact ==
    ASSUME PromptInit
    PROVE  PromptTypeOK /\ Counting
<1>1. /\ conn = "up" /\ call = [waiting |-> FALSE, costLimit |-> 0]
      /\ resp = "none" /\ result = EmptyResult /\ returned = NothingReturned
      /\ ask = "none" /\ hitlUnanswered = FALSE /\ turn = "idle" /\ cancelled = FALSE
    BY DEF PromptInit
<1>2. spent = 0 /\ frames = 0 /\ sent = [tools |-> 0, lost |-> 0] /\ sink = <<>>
    BY DEF PromptInit
<1>3. EmptyResult \in PromptResults
    BY PromptAssumption DEF EmptyResult, PromptResults
<1>4. NothingReturned \in Returns /\ ~HasResult(NothingReturned)
    BY <1>3 DEF NothingReturned, Returns, Errors, HasResult
<1>5. /\ spent \in 0..MaxFrames /\ frames \in 0..MaxFrames
      /\ sent \in [tools : 0..MaxFrames, lost : 0..MaxFrames] /\ sent.tools <= frames /\ spent <= frames
      /\ sink \in Seq(Notifications) /\ Len(sink) <= SinkSize
    BY <1>2, PromptAssumption
<1>6. ~call.waiting
    BY <1>1
<1>7. PromptTypeOK
    BY <1>1, <1>3, <1>4, <1>5 DEF PromptTypeOK, Responses
<1>. QED BY <1>1, <1>4, <1>5, <1>6, <1>7 DEF Counting, Told

\* The types of the numbers, for arithmetic.
LEMMA NumbersFact ==
    ASSUME PromptTypeOK
    PROVE  /\ MaxFrames \in Nat /\ frames \in Nat /\ frames <= MaxFrames /\ spent \in Nat
           /\ sent.tools \in Nat /\ sent.lost \in Nat
           /\ sent.tools <= MaxFrames /\ sent.lost <= MaxFrames
BY PromptAssumption DEF PromptTypeOK

\* A step that touches neither the call nor its count.
LEMMA Uncounted ==
    ASSUME PromptTypeOK, Counting, UNCHANGED <<call, sink, result, returned, sent, spent>>,
           frames' \in Nat, frames' >= frames
    PROVE  Counting'
<1>1. sent'.tools <= frames' /\ spent' <= frames'
    BY NumbersFact DEF Counting
<1>2. Counted => Counted'
    BY DEF Counted
<1>3. Told'
    BY DEF Counting, Told
<1>. QED BY <1>1, <1>2, <1>3 DEF Counting

\* A call begins with nothing counted and nothing sent.
LEMMA SendPromptFact ==
    ASSUME PromptTypeOK, Counting, NEW limit \in {0, CostLimit, MaxCost}, SendPrompt(limit),
           ~call.waiting
    PROVE  PromptTypeOK' /\ Counting'
<1>1. /\ sink' = <<>> /\ resp' = "none" /\ result' = EmptyResult
      /\ UNCHANGED <<conn, ask, hitlUnanswered, spent, frames>>
    BY DEF SendPrompt
<1>2. EmptyResult \in PromptResults /\ EmptyResult.turnsUsed = 0
    BY PromptAssumption DEF EmptyResult, PromptResults
<1>3. NothingReturned \in Returns /\ ~HasResult(NothingReturned)
    BY <1>2 DEF NothingReturned, Returns, Errors, HasResult
<1>4. Len(<<>>) = 0 /\ <<>> \in Seq(Notifications) /\ 0 <= SinkSize
    BY PromptAssumption
<1>5. CASE conn = "up"
  <2>1. /\ call' = [waiting |-> TRUE, costLimit |-> limit] /\ turn' = "running" /\ cancelled' = FALSE
        /\ returned' = returned
      BY <1>5 DEF SendPrompt
  <2>2. sent' = [tools |-> 0, lost |-> 0]
      BY <1>5 DEF SendPrompt
  <2>3. sent'.tools = 0 /\ sent'.lost = 0 /\ sent' \in [tools : 0..MaxFrames, lost : 0..MaxFrames]
      BY <2>2, PromptAssumption
  <2>4. PromptTypeOK'
      BY <1>1, <1>2, <1>4, <2>1, <2>3 DEF PromptTypeOK, Responses
  <2>5. Counted'
    <3>. DEFINE c == [i \in 0..0 |-> 0]
    <3>1. c \in [0..0 -> 0..MaxFrames] /\ c[0] = 0 /\ 1..0 = {}
        BY PromptAssumption
    <3>. HIDE DEF c
    <3>2. Counts(c, sink', result') /\ Len(sink') = 0
        BY <1>1, <1>2, <1>4, <3>1 DEF Counts
    <3>3. c[Len(sink')] + sent'.lost = sent'.tools
        BY <2>3, <3>1, <3>2
    <3>. QED BY <3>2, <3>3 DEF Counted
  <2>6. call'.waiting
      BY <2>1
  <2>7. sent'.tools <= frames' /\ spent' <= frames'
      BY <1>1, <2>3, NumbersFact DEF Counting
  <2>. QED BY <2>4, <2>5, <2>6, <2>7 DEF Counting, Told
<1>6. CASE conn # "up"
  <2>1. returned' = NothingReturned /\ UNCHANGED <<call, turn, cancelled, sent>>
      BY <1>6 DEF SendPrompt
  <2>2. PromptTypeOK'
      BY <1>1, <1>2, <1>3, <1>4, <2>1 DEF PromptTypeOK, Responses
  <2>3. ~call'.waiting /\ ~HasResult(returned')
      BY <1>3, <2>1
  <2>4. sent'.tools <= frames' /\ spent' <= frames'
      BY <1>1, <2>1 DEF Counting
  <2>. QED BY <2>2, <2>3, <2>4 DEF Counting, Told
<1>. QED BY <1>5, <1>6

\* A call returns with a result that makes up for the turn, or without one.
LEMMA ReturnFact ==
    ASSUME PromptTypeOK, Counting, NEW err \in Errors, NEW r \in PromptResults, Return(err, r),
           err \notin {"ctx", "send"} => r.turnsUsed + sent.lost = sent.tools
    PROVE  PromptTypeOK' /\ Counting'
<1>1. /\ returned' = [err |-> err, result |-> r] /\ call' = [waiting |-> FALSE, costLimit |-> 0]
      /\ sink' = <<>> /\ resp' = "none" /\ result' = EmptyResult
      /\ UNCHANGED <<conn, ask, hitlUnanswered, turn, cancelled, sent, spent, frames>>
    BY DEF Return, gooseVars
<1>2. EmptyResult \in PromptResults
    BY PromptAssumption DEF EmptyResult, PromptResults
<1>3. returned' \in Returns /\ returned'.err = err /\ returned'.result = r /\ ~call'.waiting
    BY <1>1 DEF Returns
<1>4. PromptTypeOK'
  <2>1. Len(<<>>) = 0 /\ <<>> \in Seq(Notifications) /\ 0 <= SinkSize
      BY PromptAssumption
  <2>. QED BY <1>1, <1>2, <1>3, <2>1 DEF PromptTypeOK, Responses
<1>5. Told'
    BY <1>1, <1>3 DEF Told, HasResult
<1>. QED BY <1>1, <1>3, <1>4, <1>5 DEF Counting

\* Whichever case of the select ends the call, what was in the channel counts:
\* after the response, after the loss of the connection, and not after the
\* context, whose result is none.
LEMMA CallEndsFact ==
    ASSUME PromptTypeOK, Counting, ReceiveResponse \/ ConnectionDone \/ ContextDone
    PROVE  PromptTypeOK' /\ Counting'
<1>1. CASE ContextDone
  <2>1. EmptyResult \in PromptResults /\ "ctx" \in Errors
      BY PromptAssumption DEF EmptyResult, PromptResults, Errors
  <2>2. Return("ctx", EmptyResult)
      BY <1>1 DEF ContextDone
  <2>. QED BY <2>1, <2>2, ReturnFact
<1>2. CASE ReceiveResponse \/ ConnectionDone
  <2>1. call.waiting
      BY <1>2 DEF ReceiveResponse, ConnectionDone
  <2>2. PICK c : Counts(c, sink, result) /\ c[Len(sink)] + sent.lost = sent.tools
      BY <2>1 DEF Counting, Counted
  <2>3. Drained \in PromptResults /\ Drained.turnsUsed + sent.lost = sent.tools
      BY <2>2, DrainCount DEF PromptTypeOK
  <2>. DEFINE answered == [Drained EXCEPT !.stopReason = resp]
  <2>4. \/ Return("rpc", Drained) \/ Return("lost", Drained)
        \/ resp \in StopReasons /\ Return("nil", answered)
      BY <1>2 DEF ReceiveResponse, ConnectionDone, Response, PromptTypeOK, Responses
  <2>5. "rpc" \in Errors /\ "lost" \in Errors /\ "nil" \in Errors
      BY DEF Errors
  <2>6. ASSUME resp \in StopReasons
        PROVE  answered \in PromptResults /\ answered.turnsUsed = Drained.turnsUsed
      BY <2>3, <2>6 DEF PromptResults
  <2>. HIDE DEF answered
  <2>7. CASE Return("rpc", Drained) \/ Return("lost", Drained)
      BY <2>3, <2>5, <2>7, ReturnFact
  <2>8. CASE resp \in StopReasons /\ Return("nil", answered)
    <3>1. answered \in PromptResults /\ answered.turnsUsed + sent.lost = sent.tools
        BY <2>3, <2>6, <2>8
    <3>. QED BY <2>5, <2>8, <3>1, ReturnFact
  <2>. QED BY <2>4, <2>7, <2>8
<1>. QED BY <1>1, <1>2

\* A notification goes from the channel into the result.
LEMMA ReceiveFact ==
    ASSUME PromptTypeOK, Counting, ReceiveNotification
    PROVE  PromptTypeOK' /\ Counting'
<1>. DEFINE r == Process(result, Head(sink))
            over == call.costLimit > 0 /\ ~r.costLimitReached /\ r.cost >= call.costLimit
            told == [r EXCEPT !.costLimitReached = @ \/ over]
<1>1. /\ call.waiting /\ sink # <<>> /\ sink' = Tail(sink) /\ result' = told
      /\ cancelled' = (cancelled \/ (over /\ conn = "up" /\ turn = "running"))
      /\ UNCHANGED <<conn, call, resp, returned, ask, hitlUnanswered, turn, sent, spent, frames>>
    BY DEF ReceiveNotification
<1>2. /\ sink \in Seq(Notifications) /\ Len(sink) \in Nat \ {0} /\ Head(sink) = sink[1]
      /\ sink[1] \in Notifications /\ Len(sink) <= SinkSize /\ SinkSize \in Nat
      /\ Tail(sink) \in Seq(Notifications) /\ Len(Tail(sink)) = Len(sink) - 1
      /\ \A i \in 1..(Len(sink) - 1) : Tail(sink)[i] = sink[i + 1]
  <2>1. sink \in Seq(Notifications) /\ Len(sink) <= SinkSize /\ SinkSize \in Nat /\ sink # <<>>
      BY <1>1, PromptAssumption DEF PromptTypeOK
  <2>2. /\ Tail(sink) \in Seq(Notifications) /\ Len(Tail(sink)) = Len(sink) - 1
        /\ \A i \in 1..Len(Tail(sink)) : Tail(sink)[i] = sink[i + 1]
      BY <2>1, HeadTailProperties
  <2>. QED BY <2>1, <2>2
<1>3. PICK c : Counts(c, sink, result) /\ c[Len(sink)] + sent.lost = sent.tools
    BY <1>1 DEF Counting, Counted
<1>4. /\ c \in [0..Len(sink) -> 0..MaxFrames] /\ c[0] = result.turnsUsed
      /\ \A i \in 1..Len(sink) : c[i] = c[i - 1] + Tool(sink[i])
    BY <1>3 DEF Counts
<1>5. c[1] = result.turnsUsed + Tool(Head(sink)) /\ c[1] \in 0..MaxFrames
  <2>1. 1 \in 1..Len(sink) /\ 1 \in 0..Len(sink) /\ 1 - 1 = 0
      BY <1>2
  <2>. QED BY <1>2, <1>4, <2>1
<1>6. r \in PromptResults /\ r.turnsUsed = c[1]
    BY <1>2, <1>5, ProcessFact DEF PromptTypeOK
<1>7. told \in PromptResults /\ told.turnsUsed = c[1]
  <2>1. over \in BOOLEAN
      OBVIOUS
  <2>. HIDE DEF r, over
  <2>2. r.costLimitReached \in BOOLEAN
      BY <1>6 DEF PromptResults
  <2>3. (r.costLimitReached \/ over) \in BOOLEAN
      BY <2>1, <2>2, Zenon
  <2>4. PICK v \in BOOLEAN : v = (r.costLimitReached \/ over)
      BY <2>3, Zenon
  <2>5. told = [r EXCEPT !.costLimitReached = v]
      BY <2>4, Zenon
  <2>. HIDE DEF told
  <2>6. told \in PromptResults
      BY <1>6, <2>5 DEF PromptResults
  <2>7. told.turnsUsed = r.turnsUsed
      BY <1>6, <2>5 DEF PromptResults
  <2>. QED BY <1>6, <2>6, <2>7
<1>8. cancelled' \in BOOLEAN
  <2>1. cancelled \in BOOLEAN
      BY DEF PromptTypeOK
  <2>. HIDE DEF over
  <2>. QED BY <1>1, <2>1, Zenon
<1>. HIDE DEF told, over, r
<1>9. PromptTypeOK'
  <2>1. sink' \in Seq(Notifications) /\ Len(sink') <= SinkSize
      BY <1>1, <1>2
  <2>. QED BY <1>1, <1>7, <1>8, <2>1 DEF PromptTypeOK
<1>10. Counted'
  <2>. DEFINE e == [i \in 0..(Len(sink) - 1) |-> c[i + 1]]
  <2>1. e \in [0..(Len(sink) - 1) -> 0..MaxFrames]
    <3>1. \A i \in 0..(Len(sink) - 1) : i + 1 \in 0..Len(sink)
        BY <1>2
    <3>. QED BY <1>4, <3>1
  <2>2. e[0] = c[1] /\ e[Len(sink) - 1] = c[Len(sink)]
    <3>1. 0 \in 0..(Len(sink) - 1) /\ Len(sink) - 1 \in 0..(Len(sink) - 1)
        BY <1>2
    <3>2. 0 + 1 = 1 /\ (Len(sink) - 1) + 1 = Len(sink)
        BY <1>2
    <3>. QED BY <3>1, <3>2
  <2>3. ASSUME NEW i \in 1..(Len(sink) - 1) PROVE e[i] = e[i - 1] + Tool(Tail(sink)[i])
    <3>1. /\ i \in 0..(Len(sink) - 1) /\ i - 1 \in 0..(Len(sink) - 1) /\ i + 1 \in 1..Len(sink)
          /\ (i - 1) + 1 = i /\ (i + 1) - 1 = i
        BY <1>2
    <3>2. e[i] = c[i + 1] /\ e[i - 1] = c[i]
        BY <3>1
    <3>3. c[i + 1] = c[i] + Tool(sink[i + 1])
        BY <1>4, <3>1
    <3>. HIDE DEF e
    <3>. QED BY <1>2, <3>2, <3>3
  <2>. HIDE DEF e
  <2>4. Len(sink') = Len(sink) - 1
      BY <1>1, <1>2
  <2>5. Counts(e, sink', result')
      BY <1>1, <1>7, <2>1, <2>2, <2>3, <2>4 DEF Counts
  <2>6. e[Len(sink')] + sent'.lost = sent'.tools
      BY <1>1, <1>3, <2>2, <2>4
  <2>. QED BY <2>5, <2>6 DEF Counted
<1>11. call'.waiting /\ sent'.tools <= frames' /\ spent' <= frames'
    BY <1>1 DEF Counting
<1>. QED BY <1>9, <1>10, <1>11 DEF Counting, Told

\* goose sends a notification: it joins the channel, or it is dropped and, if a
\* tool call, is one of those that were lost.
LEMMA NotifyFact ==
    ASSUME PromptTypeOK, Counting, NEW kind \in {"tool", "usage", "providerError"}, Notify(kind)
    PROVE  PromptTypeOK' /\ Counting'
<1>0. /\ MaxFrames \in Nat /\ frames \in Nat /\ frames <= MaxFrames /\ spent \in Nat
      /\ sent.tools \in Nat /\ sent.lost \in Nat /\ sent.tools <= MaxFrames /\ sent.lost <= MaxFrames
      /\ sent.tools <= frames /\ spent <= frames
    BY NumbersFact DEF Counting
<1>1. /\ call.waiting /\ frames < MaxFrames /\ frames' = frames + 1
      /\ UNCHANGED <<conn, call, resp, result, returned, ask, hitlUnanswered, turn, cancelled>>
    BY DEF Notify
<1>2. spent' = spent \/ spent' = spent + 1
    BY DEF Notify
<1>. DEFINE n == [kind |-> kind, cost |-> IF kind = "usage" THEN spent' ELSE 0]
<1>3. \/ sink' = Append(sink, n) /\ Len(sink) < SinkSize
      \/ sink' = sink
    BY DEF Notify
<1>4. sent' = [tools |-> IF kind = "tool" THEN sent.tools + 1 ELSE sent.tools,
               lost |-> IF kind = "tool" /\ sink' = sink THEN sent.lost + 1 ELSE sent.lost]
    BY DEF Notify
<1>5. n \in Notifications /\ n.kind = kind
  <2>1. (IF kind = "usage" THEN spent' ELSE 0) \in 0..MaxFrames
      BY <1>0, <1>1, <1>2
  <2>. QED BY <2>1 DEF Notifications
<1>6. Tool(n) \in {0, 1} /\ (kind = "tool" => Tool(n) = 1) /\ (kind # "tool" => Tool(n) = 0)
    BY <1>5 DEF Tool
<1>. HIDE DEF n
<1>7. /\ sent'.tools = sent.tools + Tool(n)
      /\ sent'.lost = IF sink' = sink THEN sent.lost + Tool(n) ELSE sent.lost
      /\ sent' = [tools |-> sent'.tools, lost |-> sent'.lost]
  <2>1. CASE kind = "tool"
      BY <1>0, <1>4, <1>6, <2>1
  <2>2. CASE kind # "tool"
      BY <1>0, <1>4, <1>6, <2>2
  <2>. QED BY <2>1, <2>2
<1>8. PICK c : Counts(c, sink, result) /\ c[Len(sink)] + sent.lost = sent.tools
    BY <1>1 DEF Counting, Counted
<1>9. /\ c \in [0..Len(sink) -> 0..MaxFrames] /\ c[0] = result.turnsUsed
      /\ \A i \in 1..Len(sink) : c[i] = c[i - 1] + Tool(sink[i])
      /\ sink \in Seq(Notifications) /\ Len(sink) \in Nat /\ Len(sink) <= SinkSize /\ SinkSize \in Nat
    BY <1>8, PromptAssumption DEF Counts, PromptTypeOK
<1>10. c[Len(sink)] \in Nat /\ sent.lost <= sent.tools
  <2>1. Len(sink) \in 0..Len(sink)
      BY <1>9
  <2>2. c[Len(sink)] \in 0..MaxFrames
      BY <1>9, <2>1
  <2>. QED BY <1>0, <1>8, <2>2
<1>11. /\ sent'.tools \in 0..MaxFrames /\ sent'.lost \in 0..MaxFrames
       /\ sent'.tools <= frames' /\ spent' <= frames' /\ frames' \in 0..MaxFrames
       /\ spent' \in 0..MaxFrames
  <2>1. frames + 1 <= MaxFrames /\ sent.tools + Tool(n) <= frames + 1
      BY <1>0, <1>1, <1>6
  <2>2. sent.lost + Tool(n) <= frames + 1
      BY <1>0, <1>6, <1>10
  <2>. QED BY <1>0, <1>1, <1>2, <1>6, <1>7, <2>1, <2>2
<1>12. sink' \in Seq(Notifications) /\ Len(sink') <= SinkSize
  <2>1. CASE sink' = sink
      BY <1>9, <2>1
  <2>2. CASE sink' = Append(sink, n) /\ Len(sink) < SinkSize
    <3>1. sink' \in Seq(Notifications) /\ Len(sink') = Len(sink) + 1
        BY <1>5, <1>9, <2>2, AppendProperties
    <3>. QED BY <1>9, <2>2, <3>1
  <2>. QED BY <1>3, <2>1, <2>2
<1>13. PromptTypeOK'
    BY <1>1, <1>7, <1>11, <1>12 DEF PromptTypeOK
<1>14. Counted'
  <2>1. CASE sink' = sink
    <3>1. c[Len(sink)] + sent'.lost = sent'.tools
        BY <1>0, <1>6, <1>7, <1>8, <1>10, <2>1
    <3>. QED BY <1>1, <1>8, <2>1, <3>1 DEF Counted
  <2>2. CASE sink' # sink
    <3>1. /\ sink' = Append(sink, n) /\ Len(sink') = Len(sink) + 1 /\ sink'[Len(sink) + 1] = n
          /\ \A i \in 1..Len(sink) : sink'[i] = sink[i]
        BY <1>3, <1>5, <1>9, <2>2, AppendProperties
    <3>. DEFINE e == [i \in 0..(Len(sink) + 1) |->
                       IF i = Len(sink) + 1 THEN c[Len(sink)] + Tool(n) ELSE c[i]]
    <3>2. c[Len(sink)] + Tool(n) \in 0..MaxFrames
      <4>1. sent.tools + Tool(n) <= MaxFrames
          BY <1>7, <1>11
      <4>2. Tool(n) \in Nat
          BY <1>6
      <4>. QED BY <1>0, <1>8, <1>10, <4>1, <4>2
    <3>3. /\ \A i \in 0..Len(sink) : i \in 0..(Len(sink) + 1) /\ i # Len(sink) + 1
          /\ \A i \in 0..(Len(sink) + 1) : i = Len(sink) + 1 \/ i \in 0..Len(sink)
          /\ Len(sink) + 1 \in 0..(Len(sink) + 1) /\ 0 \in 0..Len(sink) /\ Len(sink) \in 0..Len(sink)
        BY <1>9
    <3>4. e[Len(sink) + 1] = c[Len(sink)] + Tool(n)
        BY <3>3
    <3>5. \A i \in 0..Len(sink) : e[i] = c[i]
        BY <3>3
    <3>6. e \in [0..(Len(sink) + 1) -> 0..MaxFrames]
        BY <1>9, <3>2, <3>3
    <3>. HIDE DEF e
    <3>7. ASSUME NEW i \in 1..(Len(sink) + 1) PROVE e[i] = e[i - 1] + Tool(sink'[i])
      <4>1. CASE i = Len(sink) + 1
        <5>1. i - 1 = Len(sink) /\ e[i - 1] = c[Len(sink)]
            BY <1>9, <3>3, <3>5, <4>1
        <5>. QED BY <3>1, <3>4, <4>1, <5>1
      <4>2. CASE i # Len(sink) + 1
        <5>1. i \in 1..Len(sink) /\ i \in 0..Len(sink) /\ i - 1 \in 0..Len(sink)
            BY <1>9, <4>2
        <5>. QED BY <1>9, <3>1, <3>5, <5>1
      <4>. QED BY <4>1, <4>2
    <3>8. Counts(e, sink', result')
      <4>1. e[0] = result'.turnsUsed
          BY <1>1, <1>9, <3>3, <3>5
      <4>. QED BY <3>1, <3>6, <3>7, <4>1 DEF Counts
    <3>9. e[Len(sink')] + sent'.lost = sent'.tools
      <4>1. sent'.lost = sent.lost /\ sent'.tools = sent.tools + Tool(n)
          BY <1>7, <2>2
      <4>2. e[Len(sink')] = c[Len(sink)] + Tool(n)
          BY <3>1, <3>4
      <4>. QED BY <1>0, <1>6, <1>8, <1>10, <4>1, <4>2
    <3>. QED BY <3>8, <3>9 DEF Counted
  <2>. QED BY <2>1, <2>2
<1>15. call'.waiting
    BY <1>1
<1>. QED BY <1>11, <1>13, <1>14, <1>15 DEF Counting, Told

\* The rest of the session: questions and their answers, the end of a turn, a
\* cancellation and the loss of the connection.
Aside ==
    \/ AnswerElicitation \/ AnswerSteps \/ AskUser \/ ViewerCancel \/ LoseConnection
    \/ TurnFinishesUnheard \/ \E stop \in StopReasons \cup {"error"} : EndTurn(stop)

\* It counts nothing.
LEMMA AsideFact ==
    ASSUME PromptTypeOK, Counting, Aside
    PROVE  PromptTypeOK' /\ Counting'
<1>1. UNCHANGED <<call, sink, result, returned, sent, spent>>
    BY DEF Aside, AnswerElicitation, AnswerSteps, LatchUnanswered, CancelElicitation, CancelTurn, AskUser,
           ViewerCancel, LoseConnection, TurnFinishesUnheard, EndTurn, unasked, gooseVars
<1>2. frames' = frames \/ (frames < MaxFrames /\ frames' = frames + 1)
    BY DEF Aside, AnswerElicitation, AnswerSteps, LatchUnanswered, CancelElicitation, CancelTurn, AskUser,
           ViewerCancel, LoseConnection, TurnFinishesUnheard, EndTurn, unasked, gooseVars
<1>3. frames' \in 0..MaxFrames /\ frames' \in Nat /\ frames' >= frames
    BY <1>2, NumbersFact
<1>4. /\ conn' \in {"up", "lost"} /\ ask' \in {"none", "open", "latched", "released"}
      /\ turn' \in {"idle", "running"} /\ resp' \in Responses
    BY DEF Aside, AnswerElicitation, AnswerSteps, LatchUnanswered, CancelElicitation, CancelTurn, AskUser,
           ViewerCancel, LoseConnection, TurnFinishesUnheard, EndTurn, unasked, gooseVars, PromptTypeOK,
           Responses, StopReasons
<1>5. cancelled' \in BOOLEAN /\ hitlUnanswered' \in BOOLEAN
  <2>1. cancelled \in BOOLEAN /\ hitlUnanswered \in BOOLEAN
      BY DEF PromptTypeOK
  <2>2. CASE AnswerElicitation \/ CancelElicitation \/ LatchUnanswered
      BY <2>1, <2>2 DEF AnswerElicitation, CancelElicitation, LatchUnanswered
  <2>3. CASE CancelTurn
      BY <2>1, <2>3, Zenon DEF CancelTurn
  <2>4. CASE AskUser \/ ViewerCancel \/ TurnFinishesUnheard
      BY <2>1, <2>4 DEF AskUser, ViewerCancel, TurnFinishesUnheard
  <2>5. CASE LoseConnection
      BY <2>1, <2>5 DEF LoseConnection, gooseVars
  <2>6. CASE \E stop \in StopReasons \cup {"error"} : EndTurn(stop)
      BY <2>1, <2>6 DEF EndTurn
  <2>. QED BY <2>2, <2>3, <2>4, <2>5, <2>6 DEF Aside, AnswerSteps
<1>6. PromptTypeOK'
    BY <1>1, <1>3, <1>4, <1>5 DEF PromptTypeOK
<1>. QED BY <1>1, <1>3, <1>6, Uncounted
=============================================================================
