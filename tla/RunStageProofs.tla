--------------------------- MODULE RunStageProofs ---------------------------
(* Proofs about RunStage, for every configuration, every limit and every      *)
(* number of commits.                                                         *)
EXTENDS RunStage, PromptProofs

-----------------------------------------------------------------------------
(* Histories.                                                                *)

\* One history begins another just when it is no longer and agrees with it.
LEMMA PrefixFact ==
    ASSUME NEW s \in Seq(Nat), NEW t \in Seq(Nat)
    PROVE  IsPrefix(s, t) <=> Len(s) <= Len(t) /\ \A i \in 1..Len(s) : s[i] = t[i]
BY DEF IsPrefix

\* The base begins every history, and only the base begins the base.
LEMMA BasePrefix ==
    /\ Base \in Seq(Nat) /\ NoBranch \in Seq(Nat) /\ NoBranch # Base
    /\ \A t \in Seq(Nat) : IsPrefix(Base, t)
    /\ \A s \in Seq(Nat) : IsPrefix(s, Base) => s = Base
<1>1. Base \in Seq(Nat) /\ NoBranch \in Seq(Nat) /\ NoBranch # Base /\ Len(Base) = 0
    BY DEF Base, NoBranch
<1>2. ASSUME NEW t \in Seq(Nat) PROVE IsPrefix(Base, t)
  <2>1. Len(Base) <= Len(t) /\ 1..Len(Base) = {}
      BY <1>1
  <2>. QED BY <1>1, <2>1, PrefixFact
<1>3. ASSUME NEW s \in Seq(Nat), IsPrefix(s, Base) PROVE s = Base
  <2>1. Len(s) <= Len(Base)
      BY <1>1, <1>3, PrefixFact
  <2>2. Len(s) = 0
      BY <1>1, <2>1
  <2>. QED BY <2>2 DEF Base
<1>. QED BY <1>1, <1>2, <1>3

\* The branch when its last commit is given up.
LEMMA FrontFact ==
    ASSUME NEW s \in Seq(Nat), s # Base
    PROVE  /\ Front(s) \in Seq(Nat) /\ Len(Front(s)) = Len(s) - 1
           /\ \A i \in 1..(Len(s) - 1) : Front(s)[i] = s[i]
<1>1. Len(s) \in Nat \ {0} /\ \A i \in 1..(Len(s) - 1) : s[i] \in Nat
    BY DEF Base
<1>2. /\ SubSeq(s, 1, Len(s) - 1) \in Seq(Nat)
      /\ Len(SubSeq(s, 1, Len(s) - 1)) = IF 1 <= Len(s) - 1 THEN (Len(s) - 1) - 1 + 1 ELSE 0
      /\ \A i \in 1..((Len(s) - 1) - 1 + 1) : SubSeq(s, 1, Len(s) - 1)[i] = s[1 + i - 1]
  <2>1. 1 \in Int /\ Len(s) - 1 \in Int
      BY <1>1
  <2>. QED BY <1>1, <2>1, SubSeqProperties
<1>. DEFINE f == SubSeq(s, 1, Len(s) - 1)
<1>3. f \in Seq(Nat)
    BY <1>2
<1>4. Len(f) = Len(s) - 1
  <2>1. PICK n \in Nat \ {0} : n = Len(s)
      BY <1>1
  <2>2. Len(f) = IF 1 <= n - 1 THEN (n - 1) - 1 + 1 ELSE 0
      BY <1>2, <2>1
  <2>. HIDE DEF f
  <2>3. (IF 1 <= n - 1 THEN (n - 1) - 1 + 1 ELSE 0) = n - 1
      OBVIOUS
  <2>. QED BY <2>1, <2>2, <2>3
<1>5. \A i \in 1..(Len(s) - 1) : f[i] = s[i]
  <2>1. (Len(s) - 1) - 1 + 1 = Len(s) - 1 /\ \A i \in Nat : 1 + i - 1 = i
      BY <1>1
  <2>. QED BY <1>2, <2>1
<1>. QED BY <1>3, <1>4, <1>5 DEF Front

\* A history all of whose commits had been made by then.
Made(h, n) == h \in Seq(Nat) /\ \A i \in 1..Len(h) : h[i] <= n

\* A commit is in no history made before it, so what the branch has given up
\* never comes back.
LEMMA CommitFact ==
    ASSUME NEW n \in Nat, NEW h, Made(h, n), NEW b \in Seq(Nat), IsPrefix(h, Append(b, n + 1))
    PROVE  IsPrefix(h, b)
<1>1. h \in Seq(Nat) /\ \A i \in 1..Len(h) : h[i] <= n
    BY DEF Made
<1>2. /\ Append(b, n + 1) \in Seq(Nat) /\ Len(Append(b, n + 1)) = Len(b) + 1
      /\ \A i \in 1..Len(b) : Append(b, n + 1)[i] = b[i]
      /\ Append(b, n + 1)[Len(b) + 1] = n + 1
    BY AppendProperties
<1>3. Len(h) <= Len(b) + 1 /\ \A i \in 1..Len(h) : h[i] = Append(b, n + 1)[i]
    BY <1>1, <1>2, PrefixFact
<1>4. Len(h) # Len(b) + 1
  <2>. SUFFICES ASSUME Len(h) = Len(b) + 1 PROVE FALSE
      OBVIOUS
  <2>1. Len(b) + 1 \in 1..Len(h)
      BY <1>1
  <2>2. h[Len(b) + 1] = n + 1 /\ h[Len(b) + 1] <= n
    <3>1. h[Len(b) + 1] = Append(b, n + 1)[Len(b) + 1]
        BY <1>3, <2>1
    <3>. QED BY <1>1, <1>2, <2>1, <3>1
  <2>. QED BY <2>2
<1>5. Len(h) <= Len(b) /\ \A i \in 1..Len(h) : h[i] = b[i]
    BY <1>1, <1>2, <1>3, <1>4
<1>. QED BY <1>1, <1>5, PrefixFact

\* What begins the rest began the whole.
LEMMA RewriteFact ==
    ASSUME NEW h \in Seq(Nat), NEW b \in Seq(Nat), b # Base, IsPrefix(h, Front(b))
    PROVE  IsPrefix(h, b)
<1>1. /\ Front(b) \in Seq(Nat) /\ Len(Front(b)) = Len(b) - 1
      /\ \A i \in 1..(Len(b) - 1) : Front(b)[i] = b[i]
    BY FrontFact
<1>2. Len(h) <= Len(b) - 1 /\ \A i \in 1..Len(h) : h[i] = Front(b)[i]
    BY <1>1, PrefixFact
<1>3. Len(h) <= Len(b) /\ \A i \in 1..Len(h) : h[i] = b[i]
    BY <1>1, <1>2
<1>. QED BY <1>3, PrefixFact

\* The set of histories, and when a history belongs to it.
LEMMA HistoriesFact ==
    /\ \A h \in Histories : h \in Seq(Nat)
    /\ \A h \in Seq(1..MaxCommits) : Len(h) <= MaxCommits => h \in Histories
<1>1. ASSUME NEW h \in Histories PROVE h \in Seq(Nat)
  <2>1. PICK n \in 0..MaxCommits : h \in [1..n -> 1..MaxCommits]
      BY DEF Histories
  <2>2. n \in Nat /\ h \in [1..n -> Nat]
      BY <2>1, RunStageAssumption
  <2>. QED BY <2>2, SeqDef
<1>2. ASSUME NEW h \in Seq(1..MaxCommits), Len(h) <= MaxCommits PROVE h \in Histories
  <2>1. h \in [1..Len(h) -> 1..MaxCommits] /\ Len(h) \in 0..MaxCommits
      BY <1>2, LenProperties, RunStageAssumption
  <2>. QED BY <2>1 DEF Histories
<1>. QED BY <1>1, <1>2

\* A history of commits made during the stage, n of them so far.
Since(h, n) == h \in Seq(Nat) /\ Len(h) <= n /\ \A i \in 1..Len(h) : h[i] \in 1..n

\* The same, or no branch at all.
Known(h, n) == h = NoBranch \/ Since(h, n)

\* Such a history is one of the bounded ones of the model.
LEMMA SinceFact ==
    ASSUME NEW n \in 0..MaxCommits, NEW h
    PROVE  /\ Since(h, n) => h \in Histories
           /\ Known(h, n) => h \in Seq(Nat) /\ Made(h, n) /\ h \in Histories \cup {NoBranch}
<1>0. n \in Nat /\ n <= MaxCommits
    BY RunStageAssumption
<1>1. ASSUME Since(h, n) PROVE h \in Histories /\ Made(h, n) /\ h \in Seq(Nat)
  <2>1. h \in Seq(Nat) /\ Len(h) <= n /\ \A i \in 1..Len(h) : h[i] \in 1..n
      BY <1>1 DEF Since
  <2>2. Len(h) \in Nat /\ h \in [1..Len(h) -> Nat]
      BY <2>1, LenProperties
  <2>3. h \in [1..Len(h) -> 1..MaxCommits] /\ Len(h) \in 0..MaxCommits
      BY <1>0, <2>1, <2>2, RunStageAssumption
  <2>4. h \in Histories
      BY <2>3 DEF Histories
  <2>. QED BY <1>0, <2>1, <2>4 DEF Made
<1>2. Made(NoBranch, n) /\ NoBranch \in Seq(Nat)
    BY <1>0 DEF Made, NoBranch
<1>. QED BY <1>1, <1>2 DEF Known

\* A commit, a reset of the last commit and a new branch keep it one.
LEMMA SinceGrows ==
    ASSUME NEW n \in Nat, NEW h
    PROVE  /\ Since(h, n) => Since(h, n + 1) /\ Since(Append(h, n + 1), n + 1)
           /\ Since(h, n) /\ h # Base => Since(Front(h), n)
           /\ Known(h, n) => Known(h, n + 1)
           /\ Since(Base, n)
<1>1. ASSUME Since(h, n) PROVE Since(h, n + 1)
    BY <1>1 DEF Since
<1>2. ASSUME Since(h, n) PROVE Since(Append(h, n + 1), n + 1)
  <2>1. h \in Seq(Nat) /\ Len(h) <= n /\ \A i \in 1..Len(h) : h[i] \in 1..n
      BY <1>2 DEF Since
  <2>2. /\ Append(h, n + 1) \in Seq(Nat) /\ Len(Append(h, n + 1)) = Len(h) + 1
        /\ \A i \in 1..Len(h) : Append(h, n + 1)[i] = h[i]
        /\ Append(h, n + 1)[Len(h) + 1] = n + 1
      BY <2>1, AppendProperties
  <2>3. ASSUME NEW i \in 1..(Len(h) + 1) PROVE Append(h, n + 1)[i] \in 1..(n + 1)
    <3>1. CASE i = Len(h) + 1
        BY <2>2, <3>1
    <3>2. CASE i # Len(h) + 1
      <4>1. i \in 1..Len(h)
          BY <2>1, <3>2
      <4>. QED BY <2>1, <2>2, <4>1
    <3>. QED BY <3>1, <3>2
  <2>4. Len(h) + 1 <= n + 1
      BY <2>1
  <2>. QED BY <2>2, <2>3, <2>4 DEF Since
<1>3. ASSUME Since(h, n), h # Base PROVE Since(Front(h), n)
  <2>1. h \in Seq(Nat) /\ Len(h) <= n /\ \A i \in 1..Len(h) : h[i] \in 1..n
      BY <1>3 DEF Since
  <2>2. /\ Front(h) \in Seq(Nat) /\ Len(Front(h)) = Len(h) - 1
        /\ \A i \in 1..(Len(h) - 1) : Front(h)[i] = h[i]
      BY <1>3, <2>1, FrontFact
  <2>3. \A i \in 1..(Len(h) - 1) : i \in 1..Len(h)
      BY <2>1
  <2>4. Len(h) - 1 <= n
      BY <2>1
  <2>. QED BY <2>1, <2>2, <2>3, <2>4 DEF Since
<1>4. Since(Base, n)
    BY DEF Since, Base
<1>. QED BY <1>1, <1>2, <1>3, <1>4 DEF Known

-----------------------------------------------------------------------------
(* What the verdicts are.                                                    *)

\* Only a stage that succeeded exits 0, and one that failed exits 1.
LEMMA ExitCodeFact ==
    ASSUME NEW o \in Outcomes
    PROVE  ExitCode(o) \in 0..3 /\ (o = "failed" => ExitCode(o) = 1) /\ (ExitCode(o) = 0 <=> o = "succeeded")
BY DEF Outcomes, ExitCode

\* The outcome and the limit the harness names go together.
Consistent(o, l) ==
    /\ o = "limitReached" => l # "none"
    /\ l = "maxTurns" => o = "limitReached"
    /\ o = "failed" => l = "none"

\* classifyOutcome names an outcome and a limit that go together, and finds a
\* limit reached only in a call that returned a result.
LEMMA ClassifyFact ==
    ASSUME NEW r
    PROVE  /\ ClassifyOutcome(r)[1] \in Outcomes /\ ClassifyOutcome(r)[2] \in Limits
           /\ Consistent(ClassifyOutcome(r)[1], ClassifyOutcome(r)[2])
           /\ ClassifyOutcome(r)[1] = "limitReached" => HasResult(r)
<1>1. ClassifyOutcome(r) \in
        {<<"failed", "none">>, <<"succeeded", "maxCost">>, <<"succeeded", "none">>}
          \cup (IF HasResult(r) THEN {<<"limitReached", "maxTurns">>, <<"limitReached", "maxCost">>} ELSE {})
    BY DEF ClassifyOutcome, HasResult
<1>. DEFINE v == ClassifyOutcome(r)
<1>2. \/ v[1] = "failed" /\ v[2] = "none"
      \/ v[1] = "succeeded" /\ v[2] \in {"maxCost", "none"}
      \/ v[1] = "limitReached" /\ v[2] \in {"maxCost", "maxTurns"} /\ HasResult(r)
    BY <1>1
<1>. HIDE DEF v
<1>3. v[1] \in Outcomes /\ v[2] \in Limits
    BY <1>2 DEF Outcomes, Limits
<1>4. Consistent(v[1], v[2])
    BY <1>2 DEF Consistent
<1>5. v[1] = "limitReached" => HasResult(r)
    BY <1>2
<1>. QED BY <1>3, <1>4, <1>5 DEF v

\* The reason written to the termination message is one of those clients know.
LEMMA ReasonFact ==
    ASSUME NEW o, NEW enforced \in BOOLEAN
    PROVE  Reason(o, enforced) \in Reasons
BY DEF Reason, Reasons

\* What is kept of the primary prompt's answer.
LEMMA NoteFact ==
    ASSUME NEW r
    PROVE  Note(r) \in Notes /\ Note(r).hasResult = HasResult(r)
BY DEF Note, Notes, HasResult

-----------------------------------------------------------------------------
(* The state of the stage, but for the prompt's.                             *)

Watches == [loop : {"off", "idle", "pushing"}, dirty : BOOLEAN, stopping : BOOLEAN, sending : Seq(Nat)]
Verifications == [status : VerifyStatuses, commit : Seq(Nat)]

StageTypes ==
    /\ cfg \in Configs /\ signalled \in BOOLEAN /\ chatting \in BOOLEAN /\ baseKnown \in BOOLEAN
    /\ goose \in {"none", "up", "dead"} /\ tree \in {"clean", "dirty", "elsewhere"}
    /\ watch \in Watches /\ verified \in Verifications
    /\ branch \in Seq(Nat) /\ pushing \in Seq(Nat)
    /\ outcome \in Outcomes /\ limit \in Limits
    /\ primary \in Notes /\ term \in Blobs /\ log \in Blobs /\ code \in 0..3 /\ stageSucceeded \in BOOLEAN
    /\ token \in {"none", "unregistered", "live", "revoked", "revokeFailed"}

\* What the session, goose's end, the signal and the viewers leave alone.
core == <<cfg, pc, gitVars, baseKnown, watch, judged, term, code, stageSucceeded, token, log>>

Background == SessionStep \/ GooseDies \/ Signal \/ ViewerPrompt \/ ViewerPromptEnds

\* The session, the end of goose, a signal and the viewers touch neither the
\* repository nor the verdict.
LEMMA BackgroundFact ==
    ASSUME StageTypes, Background
    PROVE  UNCHANGED core /\ StageTypes'
<1>1. CASE SessionStep
    BY <1>1 DEF SessionStep, unsaid, core, gitVars, judged, StageTypes
<1>2. CASE GooseDies
    BY <1>2 DEF GooseDies, core, gitVars, judged, StageTypes
<1>3. CASE Signal
    BY <1>3 DEF Signal, core, gitVars, judged, StageTypes
<1>4. CASE ViewerPrompt
    BY <1>4 DEF ViewerPrompt, core, gitVars, judged, StageTypes
<1>5. CASE ViewerPromptEnds
    BY <1>5 DEF ViewerPromptEnds, core, gitVars, judged, StageTypes
<1>. QED BY <1>1, <1>2, <1>3, <1>4, <1>5 DEF Background

\* What the agent does to the clone.
LEMMA AgentFact ==
    ASSUME StageTypes, Agent, commits \in Nat
    PROVE  StageTypes' /\ UNCHANGED unagented /\ watch'.loop = watch.loop /\ watch'.sending = watch.sending
<1>1. /\ UNCHANGED unagented
      /\ \/ watch' = watch
         \/ watch' = [watch EXCEPT !.dirty = watch.loop # "off"]
      /\ tree' \in {"clean", "dirty", "elsewhere"}
    BY DEF Agent, Edit, Commit, Checkout, Rewrite, StageTypes
<1>2. watch' \in Watches /\ watch'.loop = watch.loop /\ watch'.sending = watch.sending
    BY <1>1 DEF StageTypes, Watches
<1>3. branch' \in Seq(Nat)
  <2>1. CASE Commit
      BY <2>1 DEF Commit, StageTypes
  <2>2. CASE Rewrite
      BY <2>2, FrontFact DEF Rewrite, StageTypes
  <2>3. CASE UNCHANGED branch
      BY <2>3 DEF StageTypes
  <2>. QED BY <2>1, <2>2, <2>3 DEF Agent, Edit, Checkout
<1>. QED BY <1>1, <1>2, <1>3 DEF unagented, judged, StageTypes

\* The watcher's loop.
LEMMA WatcherFact ==
    ASSUME StageTypes, WatcherStep
    PROVE  StageTypes' /\ UNCHANGED <<unwatched, pc>> /\ watch.loop # "off"
<1>1. UNCHANGED <<unwatched, pc>> /\ watch.loop # "off"
    BY DEF WatcherStep, WatcherPush, WatcherPushed, WatcherExits
<1>2. watch' \in Watches
  <2>1. NoBranch \in Seq(Nat) /\ branch \in Seq(Nat) /\ watch \in Watches
      BY BasePrefix DEF StageTypes
  <2>2. CASE WatcherPush
      BY <2>1, <2>2 DEF WatcherPush, Watches
  <2>3. CASE WatcherPushed
      BY <2>1, <2>3 DEF WatcherPushed, Watches
  <2>4. CASE WatcherExits
      BY <2>1, <2>4 DEF WatcherExits, Watches
  <2>. QED BY <2>2, <2>3, <2>4 DEF WatcherStep
<1>. QED BY <1>1, <1>2 DEF unwatched, judged, StageTypes

\* The blob of a setup that failed.
SetupTerm == [term EXCEPT !.reason = "setup"]

\* It changes the reason alone.
LEMMA SetupTermFact ==
    ASSUME term \in Blobs
    PROVE  /\ SetupTerm \in Blobs
           /\ SetupTerm.exitCode = term.exitCode /\ SetupTerm.outcome = term.outcome
           /\ SetupTerm.limitReached = term.limitReached
           /\ SetupTerm.verification = term.verification
           /\ SetupTerm.reason = "setup"
BY DEF SetupTerm, Blobs, Reasons

\* The setup: config, clone, goose, connection.
Setup == LoadConfig \/ PrepareClone \/ StartServe \/ Connect

\* What a setup step leaves alone; and either it goes on or it gives up.
LEMMA SetupFact ==
    ASSUME StageTypes, Setup
    PROVE  /\ StageTypes'
           /\ UNCHANGED <<cfg, gitVars, judged, log, stageSucceeded>>
           /\ pc \in {"config", "clone", "goose", "connect"}
           /\ \/ /\ pc' \in {"clone", "goose", "connect"} /\ UNCHANGED <<code, term, watch>>
              \/ /\ pc' = "prompt" /\ UNCHANGED <<code, term>> /\ watch'.sending = watch.sending
                 /\ watch'.loop = "idle"
              \/ pc' = "unwind" /\ code' = 1 /\ term' = SetupTerm /\ UNCHANGED watch
<1>1. UNCHANGED <<cfg, gitVars, judged, log, stageSucceeded, signalled, chatting>>
    BY DEF Setup, LoadConfig, PrepareClone, StartServe, Connect, FailSetup, unreturned
<1>2. pc \in {"config", "clone", "goose", "connect"}
    BY DEF Setup, LoadConfig, PrepareClone, StartServe, Connect, At
<1>3. \/ pc' \in {"clone", "goose", "connect"} /\ UNCHANGED <<code, term, watch>>
      \/ pc' = "prompt" /\ UNCHANGED <<code, term>> /\ watch' = [watch EXCEPT !.loop = "idle"]
      \/ pc' = "unwind" /\ code' = 1 /\ term' = SetupTerm /\ UNCHANGED watch
  <2>1. CASE LoadConfig \/ PrepareClone \/ StartServe
      BY <2>1 DEF LoadConfig, PrepareClone, StartServe, Goto, FailSetup, unreturned, SetupTerm
  <2>2. CASE Connect
      BY <2>2 DEF Connect, Goto, FailSetup, unreturned, SetupTerm
  <2>. QED BY <2>1, <2>2 DEF Setup
<1>4. /\ [watch EXCEPT !.loop = "idle"] \in Watches
      /\ [watch EXCEPT !.loop = "idle"].loop = "idle"
      /\ [watch EXCEPT !.loop = "idle"].sending = watch.sending
    BY DEF StageTypes, Watches
<1>5. term' \in Blobs /\ code' \in 0..3 /\ watch' \in Watches
  <2>1. term \in Blobs /\ code \in 0..3 /\ watch \in Watches
      BY DEF StageTypes
  <2>2. SetupTerm \in Blobs /\ 1 \in 0..3
      BY <2>1, SetupTermFact
  <2>. QED BY <1>3, <1>4, <2>1, <2>2
<1>6. /\ goose' \in {"none", "up", "dead"} /\ baseKnown' \in BOOLEAN
      /\ token' \in {"none", "unregistered", "live", "revoked", "revokeFailed"}
    BY DEF Setup, LoadConfig, PrepareClone, StartServe, Connect, StageTypes
<1>7. StageTypes'
    BY <1>1, <1>5, <1>6 DEF StageTypes, gitVars, judged
<1>. QED BY <1>1, <1>2, <1>3, <1>4, <1>7

\* The prompts and the judgement of what came back.
Prompting == SendPrimary \/ Classify \/ SendHandoff \/ HandoffReturned \/ CheckHealth

\* They move the stage forward, push nothing, and keep the outcome consistent
\* with the limit that was hit.
LEMMA PromptingFact ==
    ASSUME StageTypes, Prompting
    PROVE  /\ StageTypes' /\ UNCHANGED prompted
           /\ \/ /\ pc = "prompt" /\ pc' = "prompting"
                 /\ UNCHANGED <<outcome, limit, primary, work>>
              \/ /\ pc = "prompting" /\ pc' \in {"handoff", "health"} /\ work' = branch
                 /\ Consistent(outcome', limit')
                 /\ outcome' = "limitReached" => primary'.hasResult
              \/ /\ pc = "handoff" /\ pc' = "handingOff"
                 /\ UNCHANGED <<outcome, limit, primary, work>>
              \/ /\ pc = "handingOff" /\ pc' = "health" /\ work' = branch
                 /\ UNCHANGED <<outcome, limit, primary>>
              \/ /\ pc = "health" /\ pc' = "stopWatcher" /\ UNCHANGED <<primary, work>>
                 /\ Consistent(outcome, limit) => Consistent(outcome', limit')
                 /\ outcome' = "limitReached" => outcome = "limitReached"
<1>0. ASSUME UNCHANGED prompted, outcome' \in Outcomes, limit' \in Limits, primary' \in Notes
      PROVE  StageTypes'
    BY <1>0 DEF StageTypes, prompted, gitVars
<1>1. CASE SendPrimary \/ SendHandoff
  <2>1. /\ UNCHANGED prompted /\ UNCHANGED <<outcome, limit, primary, work>>
        /\ \/ pc = "prompt" /\ pc' = "prompting"
           \/ pc = "handoff" /\ pc' = "handingOff"
      BY <1>1 DEF SendPrimary, SendHandoff, At, Goto
  <2>2. StageTypes'
      BY <1>0, <2>1 DEF StageTypes
  <2>. QED BY <2>1, <2>2
<1>2. CASE Classify
  <2>. DEFINE v == ClassifyOutcome(returned)
  <2>1. /\ UNCHANGED prompted /\ pc = "prompting" /\ pc' \in {"handoff", "health"} /\ work' = branch
        /\ outcome' = v[1] /\ limit' = v[2] /\ primary' = Note(returned)
      BY <1>2 DEF Classify, At, Goto
  <2>2. /\ v[1] \in Outcomes /\ v[2] \in Limits /\ Consistent(v[1], v[2])
        /\ v[1] = "limitReached" => HasResult(returned)
      BY ClassifyFact
  <2>. HIDE DEF v
  <2>3. Note(returned) \in Notes /\ Note(returned).hasResult = HasResult(returned)
      BY NoteFact
  <2>4. outcome' = "limitReached" => primary'.hasResult
      BY <2>1, <2>2, <2>3, Zenon
  <2>5. StageTypes'
      BY <1>0, <2>1, <2>2, <2>3
  <2>. QED BY <2>1, <2>2, <2>4, <2>5
<1>3. CASE HandoffReturned
  <2>1. /\ UNCHANGED prompted /\ UNCHANGED <<outcome, limit, primary>> /\ work' = branch
        /\ pc = "handingOff" /\ pc' = "health"
      BY <1>3 DEF HandoffReturned, At, Goto
  <2>2. StageTypes'
      BY <1>0, <2>1 DEF StageTypes
  <2>. QED BY <2>1, <2>2
<1>4. CASE CheckHealth
  <2>1. /\ UNCHANGED prompted /\ UNCHANGED <<primary, work>> /\ pc = "health" /\ pc' = "stopWatcher"
        /\ \/ outcome' = "failed" /\ limit' = "none"
           \/ outcome = "succeeded" /\ outcome' = "refused" /\ limit' = limit
           \/ outcome' = outcome /\ limit' = limit
      BY <1>4 DEF CheckHealth, At, Goto
  <2>2. outcome' \in Outcomes /\ limit' \in Limits
      BY <2>1 DEF StageTypes, Outcomes, Limits
  <2>3. StageTypes'
      BY <1>0, <2>1, <2>2 DEF StageTypes
  <2>4. /\ Consistent(outcome, limit) => Consistent(outcome', limit')
        /\ outcome' = "limitReached" => outcome = "limitReached"
      BY <2>1 DEF Consistent
  <2>. QED BY <2>1, <2>3, <2>4
<1>. QED BY <1>1, <1>2, <1>3, <1>4 DEF Prompting

\* The harness stops the watcher, before the verification or at the end.
LEMMA StopFact ==
    ASSUME StageTypes, StopWatcher \/ UnwindWatcher
    PROVE  /\ StageTypes' /\ UNCHANGED <<unwatched, remote>>
           /\ watch'.loop = watch.loop /\ watch'.sending = watch.sending
           /\ \/ pc \in {"stopWatcher", "unwind"} /\ pc' = pc
              \/ pc = "stopWatcher" /\ pc' = "verify" /\ watch.loop = "off"
              \/ pc = "unwind" /\ pc' = "stopGoose" /\ watch.loop = "off"
<1>1. /\ UNCHANGED <<unwatched, remote>>
      /\ watch' = watch \/ watch' = [watch EXCEPT !.stopping = TRUE]
      /\ \/ pc \in {"stopWatcher", "unwind"} /\ pc' = pc
         \/ pc = "stopWatcher" /\ pc' = "verify" /\ watch.loop = "off"
         \/ pc = "unwind" /\ pc' = "stopGoose" /\ watch.loop = "off"
    BY DEF StopWatcher, UnwindWatcher, At, Goto
<1>2. watch' \in Watches /\ watch'.loop = watch.loop /\ watch'.sending = watch.sending
    BY <1>1 DEF StageTypes, Watches
<1>3. StageTypes'
    BY <1>1, <1>2 DEF StageTypes, unwatched, judged
<1>. QED BY <1>1, <1>2, <1>3

\* The verification: what it measures is the branch, and the blob says what it
\* found and what follows.
LEMMA VerifyFact ==
    ASSUME StageTypes, Verify, Consistent(outcome, limit),
           outcome = "limitReached" => primary.hasResult
    PROVE  /\ StageTypes' /\ pc = "verify" /\ pc' = "push"
           /\ UNCHANGED <<cfg, gitVars, baseKnown, watch, pushing, work, code, stageSucceeded, token,
                          log>>
           /\ verified' = NotVerified \/ verified'.commit = branch
           /\ term'.outcome = outcome' /\ term'.exitCode = ExitCode(outcome')
           /\ term'.verification = verified'.status
           /\ Consistent(outcome', term'.limitReached)
           /\ cfg.enforce /\ ~cfg.intermediate /\ outcome' = "succeeded" =>
                verified'.status \notin {"failed", "incomplete"}
<1>1. PICK v \in Verifications, o \in Outcomes, l \in Limits :
        /\ v = NotVerified \/ v.commit = branch
        /\ verified' = v /\ outcome' = o /\ limit' = l
        /\ \/ Enforced(v) /\ o = "failed" /\ l = "none"
           \/ ~Enforced(v) /\ o = outcome /\ l = limit
        /\ term' = [exitCode |-> ExitCode(o), outcome |-> o,
                     limitReached |-> IF primary.hasResult THEN l ELSE "none",
                     reason |-> Reason(o, Enforced(v)), verification |-> v.status]
  <2>1. PICK v \in Measured \cup {NotVerified} :
          /\ verified' = v
          /\ outcome' = IF Enforced(v) THEN "failed" ELSE outcome
          /\ limit' = IF Enforced(v) THEN "none" ELSE limit
          /\ term' = [exitCode |-> ExitCode(IF Enforced(v) THEN "failed" ELSE outcome),
                       outcome |-> IF Enforced(v) THEN "failed" ELSE outcome,
                       limitReached |-> IF primary.hasResult
                                        THEN IF Enforced(v) THEN "none" ELSE limit ELSE "none",
                       reason |-> Reason(IF Enforced(v) THEN "failed" ELSE outcome, Enforced(v)),
                       verification |-> v.status]
      BY Zenon DEF Verify
  <2>2. v \in Verifications /\ (v = NotVerified \/ v.commit = branch)
    <3>1. \/ v = NotVerified
          \/ \E status \in VerifyStatuses : v = [status |-> status, commit |-> branch]
        BY DEF Measured, VerifyStatuses
    <3>2. NotVerified \in Verifications
        BY BasePrefix DEF NotVerified, Verifications, VerifyStatuses
    <3>3. branch \in Seq(Nat)
        BY DEF StageTypes
    <3>. QED BY <3>1, <3>2, <3>3 DEF Verifications
  <2>3. "failed" \in Outcomes /\ "none" \in Limits /\ outcome \in Outcomes /\ limit \in Limits
      BY DEF StageTypes, Outcomes, Limits
  <2>4. CASE Enforced(v)
      BY <2>1, <2>2, <2>3, <2>4, Zenon
  <2>5. CASE ~Enforced(v)
      BY <2>1, <2>2, <2>3, <2>5, Zenon
  <2>. QED BY <2>4, <2>5
<1>2. /\ pc = "verify" /\ pc' = "push" /\ primary' = NotPrompted
      /\ UNCHANGED <<cfg, signalled, goose, chatting, gitVars, baseKnown, watch, pushing, work, code,
                     stageSucceeded, token, log>>
    BY DEF Verify, At, Goto
<1>3. ExitCode(o) \in 0..3 /\ Reason(o, Enforced(v)) \in Reasons /\ v.status \in VerifyStatuses
  <2>1. Enforced(v) \in BOOLEAN
      BY DEF Enforced
  <2>. QED BY <2>1, ExitCodeFact, ReasonFact DEF Verifications
<1>. DEFINE shown == IF primary.hasResult THEN l ELSE "none"
<1>4. shown \in Limits /\ Consistent(o, shown)
  <2>1. Consistent(o, l) /\ (Consistent(o, "none") \/ primary.hasResult)
      BY <1>1 DEF Consistent
  <2>2. "none" \in Limits
      BY DEF Limits
  <2>. QED BY <2>1, <2>2
<1>5. /\ term' \in Blobs /\ term'.outcome = o /\ term'.exitCode = ExitCode(o)
      /\ term'.verification = v.status /\ term'.limitReached = shown
  <2>. HIDE DEF shown
  <2>1. term' = [exitCode |-> ExitCode(o), outcome |-> o, limitReached |-> shown,
                 reason |-> Reason(o, Enforced(v)), verification |-> v.status]
      BY <1>1 DEF shown
  <2>. QED BY <1>3, <1>4, <2>1 DEF Blobs
<1>. HIDE DEF shown
<1>6. NotPrompted \in Notes
    BY DEF NotPrompted, Notes
<1>7. StageTypes'
    BY <1>1, <1>2, <1>5, <1>6 DEF StageTypes, gitVars
<1>8. cfg.enforce /\ ~cfg.intermediate /\ o = "succeeded" => v.status \notin {"failed", "incomplete"}
    BY <1>1 DEF Enforced
<1>. QED BY <1>1, <1>2, <1>4, <1>5, <1>7, <1>8

\* The blob of a final push that failed.
PushTerm == [term EXCEPT !.exitCode = 1, !.outcome = "failed", !.limitReached = "none", !.reason = "push"]

\* It keeps the record of the verification, and says the stage failed.
LEMMA PushTermFact ==
    ASSUME term \in Blobs
    PROVE  /\ PushTerm \in Blobs
           /\ PushTerm.exitCode = 1 /\ PushTerm.outcome = "failed"
           /\ PushTerm.limitReached = "none" /\ PushTerm.reason = "push"
           /\ PushTerm.verification = term.verification
<1>1. 1 \in 0..3 /\ "failed" \in Outcomes /\ "none" \in Limits /\ "push" \in Reasons
    BY DEF Reasons, Outcomes, Limits
<1>2. PushTerm \in Blobs
    BY <1>1 DEF PushTerm, Blobs
<1>3. PushTerm.exitCode = 1
    BY DEF PushTerm, Blobs
<1>4. /\ PushTerm.outcome = "failed" /\ PushTerm.limitReached = "none" /\ PushTerm.reason = "push"
      /\ PushTerm.verification = term.verification
    BY DEF PushTerm, Blobs
<1>. QED BY <1>2, <1>3, <1>4

\* The final push, the return and the deferred calls after the watcher's.
Finish == FinalPush \/ FinalPushed \/ ReturnOutcome \/ StopGoose \/ RevokeToken \/ WriteTerminationLog

\* What each of them changes.
Finishes ==
    \/ /\ pc = "push" /\ pc' = "return" /\ SkipsPush
       /\ UNCHANGED <<remote, pushing, code, stageSucceeded, term, token, log>>
    \/ /\ pc = "push" /\ pc' = "pushing" /\ ~SkipsPush /\ pushing' = branch
       /\ UNCHANGED <<remote, code, stageSucceeded, term, token, log>>
    \/ /\ pc = "pushing" /\ pc' = "return" /\ remote' = pushing
       /\ UNCHANGED <<code, stageSucceeded, term, token, log>>
    \/ /\ pc = "pushing" /\ pc' = "unwind" /\ code' = 1 /\ term' = PushTerm
       /\ UNCHANGED <<remote, stageSucceeded, token, log>>
    \/ /\ pc = "return" /\ pc' = "unwind" /\ code' = ExitCode(outcome)
       /\ stageSucceeded' = (outcome = "succeeded")
       /\ UNCHANGED <<remote, term, token, log>>
    \/ /\ pc = "stopGoose" /\ pc' = "revoke"
       /\ UNCHANGED <<remote, code, stageSucceeded, term, token, log>>
    \/ /\ pc = "revoke" /\ pc' = "log"
       /\ \/ token' = token /\ (token # "live" \/ KeepsToken)
          \/ token' \in {"revoked", "revokeFailed"} /\ ~KeepsToken
       /\ UNCHANGED <<remote, code, stageSucceeded, term, log>>
    \/ /\ pc = "log" /\ pc' = "exited" /\ log' = term
       /\ UNCHANGED <<remote, code, stageSucceeded, term, token>>

\* They leave the clone and the verdict alone.
LEMMA FinishFact ==
    ASSUME StageTypes, Finish
    PROVE  /\ StageTypes' /\ Finishes
           /\ UNCHANGED <<cfg, branch, tree, commits, baseKnown, watch, outcome, limit, verified,
                          primary, work>>
<1>1. /\ UNCHANGED <<cfg, branch, tree, commits, baseKnown, watch, outcome, limit, verified, primary,
                     work, signalled>>
      /\ pushing' \in {pushing, branch, NoBranch} /\ goose' \in {goose, "none"}
      /\ chatting' \in {chatting, FALSE}
    BY DEF Finish, FinalPush, FinalPushed, ReturnOutcome, StopGoose, RevokeToken, WriteTerminationLog,
           unpushed, gitVars, judged
<1>2. ASSUME FinalPush PROVE Finishes
    BY <1>2 DEF FinalPush, At, Goto, unpushed, unreturned, Finishes
<1>3. ASSUME FinalPushed PROVE Finishes
    BY <1>3 DEF FinalPushed, PushFailed, At, Goto, unpushed, unreturned, Finishes, PushTerm
<1>4. ASSUME ReturnOutcome PROVE Finishes
    BY <1>4 DEF ReturnOutcome, At, Goto, unpushed, Finishes
<1>5. ASSUME StopGoose PROVE Finishes
    BY <1>5 DEF StopGoose, At, Goto, gitVars, judged, Finishes
<1>6. ASSUME RevokeToken PROVE Finishes
    BY <1>6 DEF RevokeToken, At, Goto, gitVars, judged, Finishes
<1>7. ASSUME WriteTerminationLog PROVE Finishes
    BY <1>7 DEF WriteTerminationLog, At, Goto, gitVars, judged, Finishes
<1>8. Finishes
    BY <1>2, <1>3, <1>4, <1>5, <1>6, <1>7 DEF Finish
<1>9. /\ code' \in 0..3 /\ term' \in Blobs /\ log' \in Blobs
      /\ token' \in {"none", "unregistered", "live", "revoked", "revokeFailed"}
  <2>1. 1 \in 0..3 /\ ExitCode(outcome) \in 0..3 /\ PushTerm \in Blobs
      BY ExitCodeFact, PushTermFact DEF StageTypes
  <2>2. /\ code \in 0..3 /\ term \in Blobs /\ log \in Blobs
        /\ token \in {"none", "unregistered", "live", "revoked", "revokeFailed"}
      BY DEF StageTypes
  <2>3. code' \in {code, 1, ExitCode(outcome)}
      BY <1>8 DEF Finishes
  <2>4. term' \in {term, PushTerm} /\ log' \in {log, term}
      BY <1>8 DEF Finishes
  <2>5. token' \in {token, "revoked", "revokeFailed"}
      BY <1>8 DEF Finishes
  <2>. QED BY <2>1, <2>2, <2>3, <2>4, <2>5
<1>10. pushing' \in Seq(Nat)
    BY <1>1, BasePrefix DEF StageTypes
<1>11. stageSucceeded' \in BOOLEAN
  <2>1. stageSucceeded' = stageSucceeded \/ stageSucceeded' = (outcome = "succeeded")
      BY <1>8 DEF Finishes
  <2>. QED BY <2>1 DEF StageTypes
<1>12. StageTypes'
    BY <1>1, <1>9, <1>10, <1>11 DEF StageTypes
<1>. QED BY <1>1, <1>8, <1>12

-----------------------------------------------------------------------------
(* What the stage says of itself: the watcher, the verdict, the token.       *)

Watching == {"prompt", "prompting", "handoff", "handingOff", "health", "stopWatcher"}
Unjudged == {"config", "clone", "goose", "connect", "verify"} \cup Watching
Ending == {"unwind", "stopGoose", "revoke", "log", "exited"}

\* The watcher's loop runs only while the prompts do, and until it is stopped.
Stops == watch.loop # "off" => pc \in Watching

\* A blob whose parts go together, and that claims no success over an unmet
\* verification that is enforced.
Truthful(t) ==
    /\ Consistent(t.outcome, t.limitReached)
    /\ cfg.enforce /\ ~cfg.intermediate /\ t.outcome = "succeeded" =>
         t.verification \notin {"failed", "incomplete"}

\* The blob is the default one until the verdict stands, and then agrees with
\* the outcome, and with the code once there is one.
Reports ==
    /\ pc \in Unjudged =>
         /\ term = DefaultTerm /\ Consistent(outcome, limit)
         /\ outcome = "limitReached" => primary.hasResult
    /\ pc \in {"push", "pushing", "return"} =>
         term.outcome = outcome /\ term.exitCode = ExitCode(outcome) /\ Truthful(term)
    /\ pc \in Ending => term.exitCode = code /\ ExitCode(term.outcome) = code /\ Truthful(term)
    /\ pc = "exited" => log = term

\* The flag is set on the way to exit 0 and on no other: not before the push,
\* which may still fail.
Flagged ==
    /\ pc \notin Ending => ~stageSucceeded
    /\ pc \in Ending => (stageSucceeded <=> code = 0)

\* The token's revocation is decided once, and the code is then what it is when
\* the stage exits.
TokenKept ==
    /\ pc \notin {"log", "exited"} => token \in {"none", "unregistered", "live"}
    /\ pc \in {"log", "exited"} /\ token \notin {"none", "unregistered"} =>
         (token = "live") = (cfg.intermediate /\ code = 0)

\* The steps of the stage and of what runs beside it, by group.
LEMMA Steps ==
    ASSUME Next
    PROVE  \/ Background \/ Agent \/ WatcherStep \/ Setup \/ Prompting
           \/ StopWatcher \/ UnwindWatcher \/ Verify \/ Finish
BY DEF Next, Advance, Background, Setup, Prompting, Finish

\* What a stage starts with.
LEMMA InitFact ==
    ASSUME Init
    PROVE  StageTypes /\ Stops /\ Reports /\ Flagged /\ TokenKept
<1>1. /\ cfg \in Configs /\ pc = "config" /\ signalled = FALSE /\ goose = "none" /\ chatting = FALSE
      /\ branch = Base /\ tree = "clean" /\ baseKnown = FALSE /\ outcome = "failed" /\ limit = "none"
      /\ watch = [loop |-> "off", dirty |-> FALSE, stopping |-> FALSE, sending |-> NoBranch]
      /\ verified = NotVerified /\ pushing = NoBranch /\ primary = NotPrompted
      /\ term = DefaultTerm /\ log = NoLog
      /\ token \in {"unregistered", "none"}
    BY DEF Init
<1>2. code = 0 /\ code \in 0..3 /\ stageSucceeded = FALSE
    BY DEF Init
<1>3. watch \in Watches /\ watch.loop = "off"
    BY <1>1, BasePrefix DEF Watches
<1>4. verified \in Verifications /\ primary \in Notes
    BY <1>1, BasePrefix DEF Verifications, NotVerified, VerifyStatuses, NotPrompted, Notes
<1>5. DefaultTerm \in Blobs /\ NoLog \in Blobs
    BY DEF DefaultTerm, NoLog, Blobs, Outcomes, Limits, Reasons
<1>6. StageTypes
    BY <1>1, <1>2, <1>3, <1>4, <1>5, BasePrefix DEF StageTypes, Outcomes, Limits
<1>7. Stops
    BY <1>3 DEF Stops
<1>8. Reports
    BY <1>1 DEF Reports, Consistent, Ending
<1>9. TokenKept
    BY <1>1 DEF TokenKept
<1>10. Flagged
    BY <1>1, <1>2 DEF Flagged, Ending
<1>. QED BY <1>6, <1>7, <1>8, <1>9, <1>10

\* The types and the reports keep each other: the verification is typed because
\* the verdict it starts from is consistent.
LEMMA TypesStep ==
    ASSUME StageTypes, Reports, commits \in Nat, [Next]_vars
    PROVE  StageTypes'
<1>1. CASE Background
    BY <1>1, BackgroundFact
<1>2. CASE Agent
    BY <1>2, AgentFact
<1>3. CASE WatcherStep
    BY <1>3, WatcherFact
<1>4. CASE Setup
    BY <1>4, SetupFact
<1>5. CASE Prompting
    BY <1>5, PromptingFact
<1>6. CASE StopWatcher \/ UnwindWatcher
    BY <1>6, StopFact
<1>7. CASE Verify
  <2>1. pc = "verify"
      BY <1>7 DEF Verify, At
  <2>2. Consistent(outcome, limit) /\ (outcome = "limitReached" => primary.hasResult)
      BY <2>1 DEF Reports, Unjudged
  <2>. QED BY <1>7, <2>2, VerifyFact
<1>8. CASE Finish
    BY <1>8, FinishFact
<1>9. CASE UNCHANGED vars
    BY <1>9 DEF vars, stageVars, StageTypes
<1>. QED BY <1>1, <1>2, <1>3, <1>4, <1>5, <1>6, <1>7, <1>8, <1>9, Steps

\* No step starts the watcher elsewhere or leaves its prompts with it running.
LEMMA StopsStep ==
    ASSUME StageTypes, Reports, Stops, commits \in Nat, [Next]_vars
    PROVE  Stops'
<1>1. CASE Background
  <2>1. UNCHANGED <<pc, watch>>
      BY <1>1, BackgroundFact DEF core
  <2>. QED BY <2>1 DEF Stops
<1>2. CASE Agent
  <2>1. pc' = pc /\ watch'.loop = watch.loop
      BY <1>2, AgentFact DEF unagented
  <2>. QED BY <2>1 DEF Stops
<1>3. CASE WatcherStep
  <2>1. pc' = pc /\ watch.loop # "off"
      BY <1>3, WatcherFact
  <2>. QED BY <2>1 DEF Stops
<1>4. CASE Setup
  <2>1. /\ pc \in {"config", "clone", "goose", "connect"}
        /\ pc' = "prompt" \/ watch' = watch
      BY <1>4, SetupFact
  <2>. QED BY <2>1 DEF Stops, Watching
<1>5. CASE Prompting
  <2>1. pc' \in Watching
      BY <1>5, PromptingFact DEF Watching
  <2>. QED BY <2>1 DEF Stops
<1>6. CASE StopWatcher \/ UnwindWatcher
  <2>1. watch'.loop = watch.loop /\ (pc' = pc \/ watch.loop = "off")
      BY <1>6, StopFact
  <2>. QED BY <2>1 DEF Stops
<1>7. CASE Verify
  <2>1. pc = "verify" /\ watch' = watch
      BY <1>7 DEF Verify, At
  <2>. QED BY <2>1 DEF Stops, Watching
<1>8. CASE Finish
  <2>1. watch' = watch /\ pc \notin Watching
      BY <1>8, FinishFact DEF Finishes, Watching
  <2>. QED BY <2>1 DEF Stops
<1>9. CASE UNCHANGED vars
    BY <1>9 DEF vars, stageVars, Stops
<1>. QED BY <1>1, <1>2, <1>3, <1>4, <1>5, <1>6, <1>7, <1>8, <1>9, Steps

\* Only the return sets the flag, and the code with it; the failures on the way
\* return another code and leave it alone.
LEMMA FlagStep ==
    ASSUME StageTypes, Reports, Flagged, commits \in Nat, [Next]_vars
    PROVE  Flagged'
<1>1. ASSUME UNCHANGED <<pc, code, stageSucceeded>> PROVE Flagged'
    BY <1>1 DEF Flagged
<1>2. CASE Background
  <2>1. UNCHANGED <<pc, code, stageSucceeded>>
      BY <1>2, BackgroundFact DEF core
  <2>. QED BY <1>1, <2>1
<1>3. CASE Agent
  <2>1. UNCHANGED <<pc, code, stageSucceeded>>
      BY <1>3, AgentFact DEF unagented
  <2>. QED BY <1>1, <2>1
<1>4. CASE WatcherStep
  <2>1. UNCHANGED <<pc, code, stageSucceeded>>
      BY <1>4, WatcherFact DEF unwatched
  <2>. QED BY <1>1, <2>1
<1>5. CASE Setup
  <2>1. /\ pc \notin Ending /\ stageSucceeded' = stageSucceeded
        /\ pc' \notin Ending \/ (pc' \in Ending /\ code' = 1)
      BY <1>5, SetupFact DEF Ending
  <2>. QED BY <2>1 DEF Flagged
<1>6. CASE Prompting
  <2>1. pc \notin Ending /\ pc' \notin Ending /\ stageSucceeded' = stageSucceeded
      BY <1>6, PromptingFact DEF prompted, Ending
  <2>. QED BY <2>1 DEF Flagged
<1>7. CASE StopWatcher \/ UnwindWatcher
  <2>1. UNCHANGED <<code, stageSucceeded>> /\ (pc \in Ending <=> pc' \in Ending)
      BY <1>7, StopFact DEF unwatched, Ending
  <2>. QED BY <2>1 DEF Flagged
<1>8. CASE Verify
  <2>1. pc = "verify" /\ pc' = "push" /\ stageSucceeded' = stageSucceeded
      BY <1>8 DEF Verify, At, Goto
  <2>. QED BY <2>1 DEF Flagged, Ending
<1>9. CASE Finish
  <2>1. Finishes
      BY <1>9, FinishFact
  <2>2. CASE pc \in {"push", "pushing"}
    <3>1. /\ pc \notin Ending /\ stageSucceeded' = stageSucceeded
          /\ pc' \notin Ending \/ (pc' \in Ending /\ code' = 1)
        BY <2>1, <2>2 DEF Finishes, Ending
    <3>. QED BY <3>1 DEF Flagged
  <2>3. CASE pc = "return"
    <3>1. pc' = "unwind" /\ code' = ExitCode(outcome) /\ stageSucceeded' = (outcome = "succeeded")
        BY <2>1, <2>3 DEF Finishes
    <3>2. ExitCode(outcome) = 0 <=> outcome = "succeeded"
        BY ExitCodeFact DEF StageTypes
    <3>3. stageSucceeded' <=> code' = 0
        BY <3>1, <3>2
    <3>. QED BY <3>1, <3>3 DEF Flagged, Ending
  <2>4. CASE pc \in {"stopGoose", "revoke", "log"}
    <3>1. pc \in Ending /\ pc' \in Ending /\ UNCHANGED <<code, stageSucceeded>>
        BY <2>1, <2>4 DEF Finishes, Ending
    <3>. QED BY <3>1 DEF Flagged
  <2>. QED BY <2>1, <2>2, <2>3, <2>4 DEF Finishes
<1>10. CASE UNCHANGED vars
    BY <1>1, <1>10 DEF vars, stageVars
<1>. QED BY <1>2, <1>3, <1>4, <1>5, <1>6, <1>7, <1>8, <1>9, <1>10, Steps

\* The token is touched by the first step and by its revocation only.
LEMMA TokenStep ==
    ASSUME StageTypes, Reports, Flagged, TokenKept, commits \in Nat, [Next]_vars
    PROVE  TokenKept'
<1>1. CASE Background
  <2>1. UNCHANGED <<pc, cfg, code, token>>
      BY <1>1, BackgroundFact DEF core
  <2>. QED BY <2>1 DEF TokenKept
<1>2. CASE Agent
  <2>1. UNCHANGED <<pc, cfg, code, token>>
      BY <1>2, AgentFact DEF unagented
  <2>. QED BY <2>1 DEF TokenKept
<1>3. CASE WatcherStep
  <2>1. UNCHANGED <<pc, cfg, code, token>>
      BY <1>3, WatcherFact DEF unwatched
  <2>. QED BY <2>1 DEF TokenKept
<1>4. CASE Setup
  <2>1. pc \in {"config", "clone", "goose", "connect"} /\ pc' \notin {"log", "exited"}
      BY <1>4, SetupFact
  <2>2. token' \in {token, "live"}
      BY <1>4 DEF Setup, LoadConfig, PrepareClone, StartServe, Connect
  <2>. QED BY <2>1, <2>2 DEF TokenKept
<1>5. CASE Prompting
  <2>1. pc \notin {"log", "exited"} /\ pc' \notin {"log", "exited"} /\ token' = token
      BY <1>5, PromptingFact DEF prompted
  <2>. QED BY <2>1 DEF TokenKept
<1>6. CASE StopWatcher \/ UnwindWatcher
  <2>1. pc \notin {"log", "exited"} /\ pc' \notin {"log", "exited"} /\ token' = token
      BY <1>6, StopFact DEF unwatched
  <2>. QED BY <2>1 DEF TokenKept
<1>7. CASE Verify
  <2>1. pc = "verify" /\ pc' = "push" /\ token' = token
      BY <1>7 DEF Verify, At, Goto
  <2>. QED BY <2>1 DEF TokenKept
<1>8. CASE Finish
  <2>1. Finishes /\ cfg' = cfg
      BY <1>8, FinishFact
  <2>2. CASE pc \in {"push", "pushing", "return", "stopGoose"}
    <3>1. pc \notin {"log", "exited"} /\ pc' \notin {"log", "exited"} /\ token' = token
        BY <2>1, <2>2 DEF Finishes
    <3>. QED BY <3>1 DEF TokenKept
  <2>3. CASE pc = "revoke"
    <3>1. /\ pc' = "log" /\ code' = code
          /\ \/ token' = token /\ (token # "live" \/ KeepsToken)
             \/ token' \in {"revoked", "revokeFailed"} /\ ~KeepsToken
        BY <2>1, <2>3 DEF Finishes
    <3>2. token \in {"none", "unregistered", "live"}
        BY <2>3 DEF TokenKept
    <3>3. \/ token' \in {"none", "unregistered"}
          \/ token' = "live" /\ KeepsToken
          \/ token' # "live" /\ ~KeepsToken
        BY <3>1, <3>2
    <3>4. KeepsToken <=> (cfg'.intermediate /\ code' = 0)
      <4>1. stageSucceeded <=> code = 0
          BY <2>3 DEF Flagged, Ending
      <4>. QED BY <2>1, <3>1, <4>1, Zenon DEF KeepsToken
    <3>5. token' \notin {"none", "unregistered"} => ((token' = "live") <=> (cfg'.intermediate /\ code' = 0))
        BY <3>3, <3>4, Zenon
    <3>6. token' \notin {"none", "unregistered"} => ((token' = "live") = (cfg'.intermediate /\ code' = 0))
        BY <3>5
    <3>. QED BY <3>1, <3>6 DEF TokenKept
  <2>4. CASE pc = "log"
    <3>1. pc' = "exited" /\ token' = token /\ code' = code
        BY <2>1, <2>4 DEF Finishes
    <3>. QED BY <2>1, <2>4, <3>1 DEF TokenKept
  <2>. QED BY <2>1, <2>2, <2>3, <2>4 DEF Finishes
<1>9. CASE UNCHANGED vars
    BY <1>9 DEF vars, stageVars, TokenKept
<1>. QED BY <1>1, <1>2, <1>3, <1>4, <1>5, <1>6, <1>7, <1>8, <1>9, Steps

\* What is said of the stage stays true as it goes on.
LEMMA ReportsStep ==
    ASSUME StageTypes, Reports, commits \in Nat, [Next]_vars
    PROVE  Reports'
<1>0. term \in Blobs /\ outcome \in Outcomes
    BY DEF StageTypes
<1>1. ASSUME UNCHANGED <<pc, cfg, term, outcome, limit, primary, code, log>> PROVE Reports'
    BY <1>1 DEF Reports, Truthful
<1>2. CASE Background
  <2>1. UNCHANGED <<pc, cfg, term, outcome, limit, primary, code, log>>
      BY <1>2, BackgroundFact DEF core, judged
  <2>. QED BY <1>1, <2>1
<1>3. CASE Agent
  <2>1. UNCHANGED <<pc, cfg, term, outcome, limit, primary, code, log>>
      BY <1>3, AgentFact DEF unagented, judged
  <2>. QED BY <1>1, <2>1
<1>4. CASE WatcherStep
  <2>1. UNCHANGED <<pc, cfg, term, outcome, limit, primary, code, log>>
      BY <1>4, WatcherFact DEF unwatched, judged
  <2>. QED BY <1>1, <2>1
<1>5. CASE Setup
  <2>1. /\ pc \in Unjudged /\ UNCHANGED <<outcome, limit, primary>>
        /\ \/ pc' \in Unjudged /\ term' = term
           \/ pc' = "unwind" /\ code' = 1 /\ term' = SetupTerm
      BY <1>5, SetupFact DEF Unjudged, Watching, judged
  <2>2. term = DefaultTerm /\ Consistent(outcome, limit) /\ (outcome = "limitReached" => primary.hasResult)
      BY <2>1 DEF Reports
  <2>3. CASE pc' \in Unjudged /\ term' = term
      BY <2>1, <2>2, <2>3 DEF Reports, Unjudged, Watching, Ending
  <2>4. CASE pc' = "unwind" /\ code' = 1 /\ term' = SetupTerm
    <3>1. DefaultTerm.exitCode = 1
        BY DEF DefaultTerm
    <3>2. DefaultTerm.outcome = "failed" /\ DefaultTerm.limitReached = "none"
        BY DEF DefaultTerm
    <3>3. term'.exitCode = 1 /\ term'.outcome = "failed" /\ term'.limitReached = "none"
        BY <1>0, <2>2, <2>4, <3>1, <3>2, SetupTermFact, Zenon
    <3>4. ExitCode(term'.outcome) = 1
        BY <3>3, ExitCodeFact DEF Outcomes
    <3>5. Truthful(term)'
        BY <3>3 DEF Truthful, Consistent
    <3>. QED BY <2>4, <3>3, <3>4, <3>5 DEF Reports, Unjudged, Watching
  <2>. QED BY <2>1, <2>3, <2>4
<1>6. CASE Prompting
  <2>1. /\ pc \in Unjudged /\ pc' \in Unjudged /\ UNCHANGED prompted
        /\ Consistent(outcome, limit) => Consistent(outcome', limit')
      BY <1>6, PromptingFact DEF Unjudged, Watching
  <2>2. outcome' = "limitReached" => primary'.hasResult \/ (outcome = "limitReached" /\ primary' = primary)
      BY <1>6, PromptingFact, Zenon
  <2>3. term = DefaultTerm /\ Consistent(outcome, limit) /\ (outcome = "limitReached" => primary.hasResult)
      BY <2>1 DEF Reports
  <2>4. outcome' = "limitReached" => primary'.hasResult
      BY <2>2, <2>3, Zenon
  <2>. QED BY <2>1, <2>3, <2>4 DEF Reports, Unjudged, Watching, Ending, prompted
<1>7. CASE StopWatcher \/ UnwindWatcher
  <2>1. /\ UNCHANGED <<cfg, term, outcome, limit, primary, code, log>>
        /\ \/ pc' = pc
           \/ pc = "stopWatcher" /\ pc' = "verify"
           \/ pc = "unwind" /\ pc' = "stopGoose"
      BY <1>7, StopFact DEF unwatched, judged
  <2>2. CASE pc' = pc
      BY <1>1, <2>1, <2>2
  <2>3. CASE pc = "stopWatcher" /\ pc' = "verify"
      BY <2>1, <2>3 DEF Reports, Unjudged, Watching, Ending
  <2>4. CASE pc = "unwind" /\ pc' = "stopGoose"
    <3>1. term.exitCode = code /\ ExitCode(term.outcome) = code /\ Truthful(term)
        BY <2>4 DEF Reports, Ending
    <3>2. Truthful(term)'
        BY <2>1, <3>1 DEF Truthful
    <3>. QED BY <2>1, <2>4, <3>1, <3>2 DEF Reports, Unjudged, Watching
  <2>. QED BY <2>1, <2>2, <2>3, <2>4
<1>8. CASE Verify
  <2>1. pc = "verify"
      BY <1>8 DEF Verify, At
  <2>2. Consistent(outcome, limit) /\ (outcome = "limitReached" => primary.hasResult)
      BY <2>1 DEF Reports, Unjudged
  <2>3. /\ pc' = "push" /\ cfg' = cfg /\ term'.outcome = outcome' /\ term'.exitCode = ExitCode(outcome')
        /\ term'.verification = verified'.status /\ Consistent(outcome', term'.limitReached)
        /\ cfg.enforce /\ ~cfg.intermediate /\ outcome' = "succeeded" =>
             verified'.status \notin {"failed", "incomplete"}
      BY <1>8, <2>2, VerifyFact
  <2>4. Truthful(term)'
      BY <2>3, Zenon DEF Truthful
  <2>. QED BY <2>3, <2>4 DEF Reports, Unjudged, Watching, Ending
<1>9. CASE Finish
  <2>1. Finishes /\ UNCHANGED <<cfg, outcome>>
      BY <1>9, FinishFact
  <2>2. ASSUME Truthful(term), term' = term PROVE Truthful(term)'
      BY <2>1, <2>2 DEF Truthful
  <2>3. CASE pc \in {"push", "pushing"} /\ pc' \in {"pushing", "return"} /\ term' = term
    <3>1. term.outcome = outcome /\ term.exitCode = ExitCode(outcome) /\ Truthful(term)
        BY <2>3 DEF Reports
    <3>. QED BY <2>1, <2>2, <2>3, <3>1 DEF Reports, Unjudged, Watching, Ending
  <2>4. CASE pc = "pushing" /\ pc' = "unwind" /\ code' = 1 /\ term' = PushTerm
    <3>1. term'.exitCode = 1 /\ term'.outcome = "failed" /\ term'.limitReached = "none"
        BY <1>0, <2>4, PushTermFact
    <3>2. ExitCode(term'.outcome) = 1
        BY <3>1, ExitCodeFact DEF Outcomes
    <3>3. Truthful(term)'
        BY <3>1 DEF Truthful, Consistent
    <3>. QED BY <2>4, <3>1, <3>2, <3>3 DEF Reports, Unjudged, Watching
  <2>5. CASE pc = "return" /\ pc' = "unwind" /\ code' = ExitCode(outcome) /\ term' = term
    <3>1. term.outcome = outcome /\ term.exitCode = ExitCode(outcome) /\ Truthful(term)
        BY <2>5 DEF Reports
    <3>. QED BY <2>1, <2>2, <2>5, <3>1 DEF Reports, Unjudged, Watching
  <2>6. CASE pc \in {"stopGoose", "revoke"} /\ pc' \in {"revoke", "log"} /\ UNCHANGED <<code, term>>
    <3>1. term.exitCode = code /\ ExitCode(term.outcome) = code /\ Truthful(term)
        BY <2>6 DEF Reports, Ending
    <3>. QED BY <2>2, <2>6, <3>1 DEF Reports, Unjudged, Watching
  <2>7. CASE pc = "log" /\ pc' = "exited" /\ log' = term /\ UNCHANGED <<code, term>>
    <3>1. term.exitCode = code /\ ExitCode(term.outcome) = code /\ Truthful(term)
        BY <2>7 DEF Reports, Ending
    <3>. QED BY <2>2, <2>7, <3>1 DEF Reports, Unjudged, Watching
  <2>. QED BY <2>1, <2>3, <2>4, <2>5, <2>6, <2>7 DEF Finishes
<1>10. CASE UNCHANGED vars
    BY <1>1, <1>10 DEF vars, stageVars
<1>. QED BY <1>2, <1>3, <1>4, <1>5, <1>6, <1>7, <1>8, <1>9, <1>10, Steps

-----------------------------------------------------------------------------
(* What becomes of the commits.                                              *)

\* Every history in sight is made of commits of this stage, of which the
\* unfinished edits will still make one.
Tracked ==
    /\ commits \in 0..MaxCommits /\ (tree = "dirty" => commits < MaxCommits)
    /\ Since(branch, commits) /\ Since(work, commits)
    /\ Known(remote, commits) /\ Known(pushing, commits)
    /\ Known(watch.sending, commits) /\ Known(verified.commit, commits)

\* Every step tracks the histories: only the agent makes one, and everything
\* else copies.
LEMMA TrackedStep ==
    ASSUME StageTypes, Reports, Tracked, [Next]_vars
    PROVE  Tracked'
<1>0. commits \in Nat /\ MaxCommits \in Nat /\ commits <= MaxCommits
    BY RunStageAssumption DEF Tracked
<1>1. ASSUME UNCHANGED <<commits, tree, branch>>, work' \in {work, branch},
             remote' \in {remote, pushing, watch.sending}, pushing' \in {pushing, branch, NoBranch},
             watch'.sending \in {watch.sending, branch, NoBranch},
             verified'.commit \in {verified.commit, branch, NoBranch}
      PROVE  Tracked'
    BY <1>1 DEF Tracked, Known
<1>2. CASE Background
  <2>1. UNCHANGED <<gitVars, watch, judged>>
      BY <1>2, BackgroundFact DEF core
  <2>. QED BY <1>1, <2>1 DEF gitVars, judged
<1>3. CASE Agent
  <2>1. UNCHANGED <<work, remote, pushing, verified>> /\ watch'.sending = watch.sending
      BY <1>0, <1>3, AgentFact DEF unagented, judged
  <2>2. CASE Edit
    <3>1. commits' = commits /\ branch' = branch /\ commits < MaxCommits
        BY <2>2 DEF Edit
    <3>. QED BY <2>1, <3>1 DEF Tracked
  <2>3. CASE Commit
    <3>1. /\ tree = "dirty" /\ tree' = "clean" /\ commits' = commits + 1
          /\ branch' = Append(branch, commits + 1)
        BY <2>3 DEF Commit
    <3>2. commits + 1 \in 0..MaxCommits
        BY <1>0, <3>1 DEF Tracked
    <3>3. Since(branch, commits) /\ Since(work, commits)
        BY DEF Tracked
    <3>4. Since(Append(branch, commits + 1), commits + 1) /\ Since(work, commits + 1)
        BY <1>0, <3>3, SinceGrows
    <3>5. /\ Known(remote, commits) /\ Known(pushing, commits)
          /\ Known(watch.sending, commits) /\ Known(verified.commit, commits)
        BY DEF Tracked
    <3>6. /\ Known(remote, commits + 1) /\ Known(pushing, commits + 1)
          /\ Known(watch.sending, commits + 1) /\ Known(verified.commit, commits + 1)
        BY <1>0, <3>5, SinceGrows
    <3>7. tree' # "dirty"
        BY <3>1
    <3>. QED BY <2>1, <3>1, <3>2, <3>4, <3>6, <3>7 DEF Tracked
  <2>4. CASE Checkout
    <3>1. commits' = commits /\ branch' = branch /\ tree' # "dirty"
        BY <2>4 DEF Checkout, StageTypes
    <3>. QED BY <2>1, <3>1 DEF Tracked
  <2>5. CASE Rewrite
    <3>1. commits' = commits /\ branch' = Front(branch) /\ branch # Base /\ tree' = tree
        BY <2>5 DEF Rewrite
    <3>2. Since(Front(branch), commits)
        BY <1>0, <3>1, SinceGrows DEF Tracked
    <3>. QED BY <2>1, <3>1, <3>2 DEF Tracked
  <2>. QED BY <1>3, <2>2, <2>3, <2>4, <2>5 DEF Agent
<1>4. CASE WatcherStep
  <2>1. UNCHANGED <<commits, tree, branch, work, pushing, verified>>
      BY <1>4, WatcherFact DEF unwatched, judged
  <2>2. remote' \in {remote, watch.sending}
      BY <1>4 DEF WatcherStep, WatcherPush, WatcherPushed, WatcherExits
  <2>3. watch'.sending \in {watch.sending, branch, NoBranch}
      BY <1>4 DEF WatcherStep, WatcherPush, WatcherPushed, WatcherExits, StageTypes, Watches
  <2>. QED BY <1>1, <2>1, <2>2, <2>3
<1>5. CASE Setup
  <2>1. UNCHANGED <<gitVars, judged>> /\ watch'.sending = watch.sending
      BY <1>5, SetupFact
  <2>. QED BY <1>1, <2>1 DEF gitVars, judged
<1>6. CASE Prompting
  <2>1. UNCHANGED <<gitVars, watch, verified, pushing>> /\ work' \in {work, branch}
      BY <1>6, PromptingFact DEF prompted
  <2>. QED BY <1>1, <2>1 DEF gitVars
<1>7. CASE StopWatcher \/ UnwindWatcher
  <2>1. /\ UNCHANGED <<commits, tree, branch, work, remote, pushing, verified>>
        /\ watch'.sending = watch.sending
      BY <1>7, StopFact DEF unwatched, judged
  <2>. QED BY <1>1, <2>1
<1>8. CASE Verify
  <2>1. pc = "verify"
      BY <1>8 DEF Verify, At
  <2>2. Consistent(outcome, limit) /\ (outcome = "limitReached" => primary.hasResult)
      BY <2>1 DEF Reports, Unjudged
  <2>3. /\ UNCHANGED <<gitVars, watch, pushing, work>>
        /\ verified' = NotVerified \/ verified'.commit = branch
      BY <1>8, <2>2, VerifyFact
  <2>4. NotVerified.commit = NoBranch
      BY DEF NotVerified
  <2>. QED BY <1>1, <2>3, <2>4 DEF gitVars
<1>9. CASE Finish
  <2>1. UNCHANGED <<commits, tree, branch, work, watch, verified>> /\ Finishes
      BY <1>9, FinishFact
  <2>2. remote' \in {remote, pushing}
      BY <2>1 DEF Finishes
  <2>3. pushing' \in {pushing, branch, NoBranch}
      BY <1>9 DEF Finish, FinalPush, FinalPushed, ReturnOutcome, StopGoose, RevokeToken,
                  WriteTerminationLog, judged
  <2>. QED BY <1>1, <2>1, <2>2, <2>3
<1>10. CASE UNCHANGED vars
  <2>1. UNCHANGED <<commits, tree, branch, work, remote, watch, pushing, verified>>
      BY <1>10 DEF vars, stageVars
  <2>. QED BY <1>1, <2>1
<1>. QED BY <1>2, <1>3, <1>4, <1>5, <1>6, <1>7, <1>8, <1>9, <1>10, Steps

\* What is at r holds h, or the agent has given h up.
Landed(h, r) == IsPrefix(h, r) \/ ~IsPrefix(h, branch)

\* So it is with the work of the run and with what a verification measured.
Lands(r) ==
    /\ Landed(work, r)
    /\ verified.status = "passed" => Landed(verified.commit, r)

\* The final push sends what must land, and it has landed when the stage ends
\* without having failed to set up or to push.
Pushed ==
    /\ pc = "pushing" => Lands(pushing)
    /\ pc = "return" => Lands(remote)
    /\ pc \in {"push", "pushing", "return"} => term.verification = verified.status
    /\ pc \in Ending /\ term.reason \notin {"setup", "push"} =>
         Lands(remote) /\ term.verification = verified.status

\* What has landed is not lost by what the agent does next: a new commit does
\* not bring back an old one.
LEMMA LandedFact ==
    ASSUME StageTypes, Tracked, Agent, NEW h, Known(h, commits), NEW r, Landed(h, r)
    PROVE  IsPrefix(h, r) \/ ~IsPrefix(h, branch')
<1>0. commits \in 0..MaxCommits /\ commits \in Nat
    BY RunStageAssumption DEF Tracked
<1>1. h \in Seq(Nat) /\ Made(h, commits) /\ branch \in Seq(Nat)
    BY <1>0, SinceFact DEF StageTypes
<1>2. IsPrefix(h, branch') => IsPrefix(h, branch)
  <2>1. CASE Commit
    <3>1. branch' = Append(branch, commits + 1)
        BY <2>1 DEF Commit
    <3>. QED BY <1>0, <1>1, <3>1, CommitFact
  <2>2. CASE Rewrite
    <3>1. branch' = Front(branch) /\ branch # Base
        BY <2>2 DEF Rewrite
    <3>. QED BY <1>1, <3>1, RewriteFact
  <2>3. CASE Edit \/ Checkout
    <3>1. branch' = branch
        BY <2>3 DEF Edit, Checkout
    <3>. QED BY <3>1
  <2>. QED BY <2>1, <2>2, <2>3 DEF Agent
<1>. QED BY <1>2 DEF Landed

\* Every step keeps what must land on its way.
LEMMA PushedStep ==
    ASSUME StageTypes, Reports, Tracked, Stops, Pushed, [Next]_vars
    PROVE  Pushed'
<1>0. commits \in Nat /\ branch \in Seq(Nat) /\ work \in Seq(Nat) /\ verified.commit \in Seq(Nat)
  <2>1. commits \in 0..MaxCommits /\ Known(verified.commit, commits)
      BY DEF Tracked
  <2>. QED BY <2>1, SinceFact, RunStageAssumption DEF Tracked, Since
<1>1. ASSUME UNCHANGED <<pc, term, branch, work, verified, pushing, remote>> PROVE Pushed'
    BY <1>1 DEF Pushed, Lands, Landed
<1>2. ASSUME pc' \in Unjudged PROVE Pushed'
    BY <1>2 DEF Pushed, Unjudged, Watching, Ending
<1>3. CASE Background
  <2>1. UNCHANGED <<pc, term, branch, work, verified, pushing, remote>>
      BY <1>3, BackgroundFact DEF core, gitVars, judged
  <2>. QED BY <1>1, <2>1
<1>4. CASE Agent
  <2>1. UNCHANGED <<pc, term, work, verified, pushing, remote>>
      BY <1>0, <1>4, AgentFact DEF unagented, judged
  <2>2. Known(work, commits) /\ Known(verified.commit, commits)
      BY DEF Tracked, Known
  <2>3. ASSUME NEW r, Lands(r)
        PROVE  /\ IsPrefix(work, r) \/ ~IsPrefix(work, branch')
               /\ verified.status = "passed" =>
                    IsPrefix(verified.commit, r) \/ ~IsPrefix(verified.commit, branch')
      BY <1>4, <2>2, <2>3, LandedFact DEF Lands
  <2>4. (Lands(pushing) => Lands(pushing)') /\ (Lands(remote) => Lands(remote)')
      BY <2>1, <2>3 DEF Lands, Landed
  <2>. QED BY <2>1, <2>4 DEF Pushed
<1>5. CASE WatcherStep
  <2>1. pc' = pc /\ watch.loop # "off"
      BY <1>5, WatcherFact
  <2>2. pc' \in Unjudged
      BY <2>1 DEF Stops, Unjudged
  <2>. QED BY <1>2, <2>2
<1>6. CASE Setup
  <2>1. \/ pc' \in Unjudged
        \/ pc' = "unwind" /\ term' = SetupTerm
      BY <1>6, SetupFact DEF Unjudged, Watching
  <2>2. CASE pc' = "unwind" /\ term' = SetupTerm
    <3>1. term'.reason = "setup"
        BY <2>2, SetupTermFact DEF StageTypes
    <3>. QED BY <2>2, <3>1 DEF Pushed
  <2>. QED BY <1>2, <2>1, <2>2
<1>7. CASE Prompting
  <2>1. pc' \in Unjudged
      BY <1>7, PromptingFact DEF Unjudged, Watching
  <2>. QED BY <1>2, <2>1
<1>8. CASE StopWatcher \/ UnwindWatcher
  <2>1. /\ UNCHANGED <<term, branch, work, verified, pushing, remote>>
        /\ \/ pc' = pc
           \/ pc = "stopWatcher" /\ pc' = "verify"
           \/ pc = "unwind" /\ pc' = "stopGoose"
      BY <1>8, StopFact DEF unwatched, judged
  <2>2. CASE pc' = pc
      BY <1>1, <2>1, <2>2
  <2>3. CASE pc = "stopWatcher" /\ pc' = "verify"
      BY <1>2, <2>3 DEF Unjudged
  <2>4. CASE pc = "unwind" /\ pc' = "stopGoose"
      BY <2>1, <2>4 DEF Pushed, Lands, Landed, Ending
  <2>. QED BY <2>1, <2>2, <2>3, <2>4
<1>9. CASE Verify
  <2>1. pc = "verify"
      BY <1>9 DEF Verify, At
  <2>2. Consistent(outcome, limit) /\ (outcome = "limitReached" => primary.hasResult)
      BY <2>1 DEF Reports, Unjudged
  <2>3. pc' = "push" /\ term'.verification = verified'.status
      BY <1>9, <2>2, VerifyFact
  <2>. QED BY <2>3 DEF Pushed, Ending
<1>10. CASE Finish
  <2>1. UNCHANGED <<branch, baseKnown, work, verified>> /\ Finishes
      BY <1>10, FinishFact
  <2>2. \A r \in Seq(Nat) : branch = Base => Lands(r)
    <3>. SUFFICES ASSUME NEW r \in Seq(Nat), branch = Base PROVE Lands(r)
        OBVIOUS
    <3>1. \A h \in Seq(Nat) : Landed(h, r)
        BY BasePrefix, Zenon DEF Landed
    <3>. QED BY <1>0, <3>1 DEF Lands
  <2>3. Lands(branch)
      BY DEF Lands, Landed
  <2>4. ASSUME NEW r, Lands(r)
        PROVE  /\ IsPrefix(work', r) \/ ~IsPrefix(work', branch')
               /\ verified'.status = "passed" =>
                    IsPrefix(verified'.commit, r) \/ ~IsPrefix(verified'.commit, branch')
      BY <2>1, <2>4 DEF Lands, Landed
  <2>5. CASE pc = "push" /\ pc' = "return" /\ SkipsPush /\ UNCHANGED <<remote, term>>
    <3>1. remote \in Seq(Nat) /\ branch = Base
      <4>1. commits \in 0..MaxCommits /\ Known(remote, commits)
          BY DEF Tracked
      <4>. QED BY <2>5, <4>1, SinceFact DEF SkipsPush
    <3>2. Lands(remote)
        BY <2>2, <3>1
    <3>3. Lands(remote)'
        BY <2>4, <2>5, <3>2 DEF Lands, Landed
    <3>4. term'.verification = verified'.status
        BY <2>1, <2>5 DEF Pushed
    <3>. QED BY <2>5, <3>3, <3>4 DEF Pushed, Ending
  <2>6. CASE pc = "push" /\ pc' = "pushing" /\ pushing' = branch /\ term' = term
    <3>1. Lands(pushing)'
        BY <2>3, <2>4, <2>6 DEF Lands, Landed
    <3>2. term'.verification = verified'.status
        BY <2>1, <2>6 DEF Pushed
    <3>. QED BY <2>6, <3>1, <3>2 DEF Pushed, Ending
  <2>7. CASE pc = "pushing" /\ pc' = "return" /\ remote' = pushing /\ term' = term
    <3>1. Lands(pushing) /\ term.verification = verified.status
        BY <2>7 DEF Pushed
    <3>2. Lands(remote)'
        BY <2>4, <2>7, <3>1 DEF Lands, Landed
    <3>. QED BY <2>1, <2>7, <3>1, <3>2 DEF Pushed, Ending
  <2>8. CASE pc = "pushing" /\ pc' = "unwind" /\ term' = PushTerm
    <3>1. term'.reason = "push"
        BY <2>8, PushTermFact DEF StageTypes
    <3>. QED BY <2>8, <3>1 DEF Pushed
  <2>9. CASE pc = "return" /\ pc' = "unwind" /\ UNCHANGED <<remote, term>>
    <3>1. Lands(remote) /\ term.verification = verified.status
        BY <2>9 DEF Pushed
    <3>2. Lands(remote)'
        BY <2>4, <2>9, <3>1 DEF Lands, Landed
    <3>. QED BY <2>1, <2>9, <3>1, <3>2 DEF Pushed
  <2>10. CASE pc \in Ending /\ pc' \in Ending /\ UNCHANGED <<remote, term>>
    <3>1. Lands(remote) => Lands(remote)'
        BY <2>4, <2>10 DEF Lands, Landed
    <3>. QED BY <2>1, <2>10, <3>1 DEF Pushed, Ending
  <2>11. \/ pc = "push" /\ pc' = "return" /\ SkipsPush /\ UNCHANGED <<remote, term>>
         \/ pc = "push" /\ pc' = "pushing" /\ pushing' = branch /\ term' = term
         \/ pc = "pushing" /\ pc' = "return" /\ remote' = pushing /\ term' = term
         \/ pc = "pushing" /\ pc' = "unwind" /\ term' = PushTerm
         \/ pc = "return" /\ pc' = "unwind" /\ UNCHANGED <<remote, term>>
         \/ pc \in Ending /\ pc' \in Ending /\ UNCHANGED <<remote, term>>
      BY <2>1 DEF Finishes, Ending
  <2>. QED BY <2>5, <2>6, <2>7, <2>8, <2>9, <2>10, <2>11
<1>11. CASE UNCHANGED vars
    BY <1>1, <1>11 DEF vars, stageVars
<1>. QED BY <1>3, <1>4, <1>5, <1>6, <1>7, <1>8, <1>9, <1>10, <1>11, Steps

\* A push of the bare base happens only where the base was not known, and the
\* remote has the base without it only if the branch was there from the start.
Unborn ==
    /\ watch.loop = "pushing" /\ watch.sending = Base => ~baseKnown
    /\ pc = "pushing" /\ pushing = Base => ~baseKnown
    /\ pc \in {"config", "clone"} /\ remote = Base => cfg.published
    /\ remote = Base => cfg.published \/ ~baseKnown

\* Every step keeps it: the base is looked up before anything can be pushed.
LEMMA UnbornStep ==
    ASSUME StageTypes, Reports, Tracked, Stops, Unborn, [Next]_vars
    PROVE  Unborn'
<1>0. commits \in Nat
    BY RunStageAssumption DEF Tracked
<1>1. ASSUME UNCHANGED <<cfg, pc, remote, baseKnown, pushing>>, watch'.loop = watch.loop,
             watch'.sending = watch.sending
      PROVE  Unborn'
    BY <1>1 DEF Unborn
<1>2. CASE Background
  <2>1. UNCHANGED <<cfg, pc, remote, baseKnown, pushing, watch>>
      BY <1>2, BackgroundFact DEF core, gitVars, judged
  <2>. QED BY <1>1, <2>1
<1>3. CASE Agent
  <2>1. /\ UNCHANGED <<cfg, pc, remote, baseKnown, pushing>> /\ watch'.loop = watch.loop
        /\ watch'.sending = watch.sending
      BY <1>0, <1>3, AgentFact DEF unagented, judged
  <2>. QED BY <1>1, <2>1
<1>4. CASE WatcherStep
  <2>1. UNCHANGED <<cfg, pc, baseKnown, pushing, branch>> /\ watch.loop # "off" /\ pc \in Watching
      BY <1>4, WatcherFact DEF unwatched, judged, Stops
  <2>2. pc \notin {"config", "clone", "pushing"}
      BY <2>1 DEF Watching
  <2>3. CASE WatcherPush
    <3>1. remote' = remote /\ watch.loop = "idle"
        BY <2>3 DEF WatcherPush
    <3>2. \/ watch'.loop = "idle"
          \/ watch'.sending = branch /\ ~(baseKnown /\ branch = Base)
      <4>1. \/ watch' = [watch EXCEPT !.dirty = FALSE]
            \/ watch' = [watch EXCEPT !.loop = "pushing", !.sending = branch] /\ ~SkipsPush
          BY <2>3 DEF WatcherPush
      <4>2. watch \in Watches
          BY DEF StageTypes
      <4>. QED BY <3>1, <4>1, <4>2 DEF Watches, SkipsPush
    <3>. QED BY <2>1, <2>2, <3>1, <3>2 DEF Unborn
  <2>4. CASE WatcherPushed
    <3>1. watch.loop = "pushing" /\ remote' \in {remote, watch.sending}
        BY <2>4 DEF WatcherPushed
    <3>2. watch'.loop = "idle"
        BY <2>4 DEF WatcherPushed, StageTypes, Watches
    <3>. QED BY <2>1, <2>2, <3>1, <3>2 DEF Unborn
  <2>5. CASE WatcherExits
    <3>1. remote' = remote /\ watch'.loop = "off"
        BY <2>5 DEF WatcherExits, StageTypes, Watches
    <3>. QED BY <2>1, <2>2, <3>1 DEF Unborn
  <2>. QED BY <1>4, <2>3, <2>4, <2>5 DEF WatcherStep
<1>5. CASE Setup
  <2>1. /\ UNCHANGED <<cfg, gitVars, judged>> /\ pc \in {"config", "clone", "goose", "connect"}
        /\ watch'.loop = "idle" \/ watch' = watch
        /\ pc' # "pushing"
      BY <1>5, SetupFact
  <2>2. watch.loop = "off"
      BY <2>1 DEF Stops, Watching
  <2>3. watch'.loop # "pushing"
      BY <2>1, <2>2
  <2>4. \/ pc \in {"config", "clone"}
        \/ baseKnown' = baseKnown /\ pc' \notin {"config", "clone"}
      BY <1>5 DEF Setup, LoadConfig, PrepareClone, StartServe, Connect, At, Goto, FailSetup
  <2>. QED BY <2>1, <2>3, <2>4 DEF Unborn, gitVars, judged
<1>6. CASE Prompting
  <2>1. /\ UNCHANGED <<cfg, remote, baseKnown, pushing, watch>>
        /\ pc' \notin {"config", "clone", "pushing"}
      BY <1>6, PromptingFact DEF prompted, gitVars
  <2>. QED BY <2>1 DEF Unborn
<1>7. CASE StopWatcher \/ UnwindWatcher
  <2>1. /\ UNCHANGED <<cfg, remote, baseKnown, pushing>> /\ pc' \notin {"config", "clone", "pushing"}
        /\ watch'.loop = watch.loop /\ watch'.sending = watch.sending
      BY <1>7, StopFact DEF unwatched, judged
  <2>. QED BY <2>1 DEF Unborn
<1>8. CASE Verify
  <2>1. UNCHANGED <<cfg, remote, baseKnown, watch>> /\ pc' = "push"
      BY <1>8 DEF Verify, Goto, gitVars
  <2>. QED BY <2>1 DEF Unborn
<1>9. CASE Finish
  <2>1. UNCHANGED <<cfg, branch, baseKnown, watch>> /\ Finishes
      BY <1>9, FinishFact
  <2>2. CASE pc' = "pushing"
    <3>1. ~SkipsPush /\ pushing' = branch /\ remote' = remote
        BY <2>1, <2>2 DEF Finishes
    <3>. QED BY <2>1, <2>2, <3>1 DEF Unborn, SkipsPush
  <2>3. CASE pc' # "pushing"
    <3>1. /\ pc' \notin {"config", "clone"}
          /\ remote' = remote \/ (pc = "pushing" /\ remote' = pushing)
        BY <2>1 DEF Finishes
    <3>. QED BY <2>1, <2>3, <3>1 DEF Unborn
  <2>. QED BY <2>2, <2>3
<1>10. CASE UNCHANGED vars
    BY <1>1, <1>10 DEF vars, stageVars
<1>. QED BY <1>2, <1>3, <1>4, <1>5, <1>6, <1>7, <1>8, <1>9, <1>10, Steps

-----------------------------------------------------------------------------
(* The prompt's call and goose.                                              *)

Calling == {"prompting", "handingOff"}

\* A call is in flight, and its tool calls counted, only while the stage waits.
Idle == pc \notin Calling => ~call.waiting /\ sent.tools = 0

\* A goose that is not up runs no turn, one that died took the connection with
\* it, and the prompts are sent to one that was started.
Tied ==
    /\ goose # "up" => turn = "idle" /\ ~chatting
    /\ goose = "dead" => conn = "lost"
    /\ pc \in {"connect"} \cup Watching => goose # "none"

\* The steps of the stage that leave the session alone.
Silent ==
    \/ Setup \/ WatcherStep \/ StopWatcher \/ UnwindWatcher \/ Verify \/ Agent
    \/ Signal \/ ViewerPrompt \/ ViewerPromptEnds
    \/ FinalPush \/ FinalPushed \/ ReturnOutcome \/ RevokeToken \/ WriteTerminationLog

\* How such a step moves the stage and goose: it ends no call and begins none,
\* starts goose before it connects, and lets a viewer prompt only a goose that
\* is up.
Moves ==
    /\ UNCHANGED promptVars
    /\ \/ pc' = pc
       \/ /\ pc \notin Calling
          /\ pc' \in {"clone", "goose", "connect", "prompt", "verify", "push", "pushing", "return", "unwind",
                       "stopGoose", "log", "exited"}
    /\ goose' = goose \/ goose' = "up"
    /\ \/ chatting' = chatting
       \/ chatting' = TRUE /\ goose = "up" /\ goose' = "up"
       \/ chatting' = FALSE
    /\ pc' \in {"connect", "prompt"} => pc' = pc \/ goose' = "up"

\* So does each of the silent steps.
LEMMA SilentMoves ==
    ASSUME Silent
    PROVE  Moves
<1>1. CASE Setup
    BY <1>1 DEF Setup, LoadConfig, PrepareClone, StartServe, Connect, FailSetup, At, Goto, Moves, Calling
<1>2. CASE WatcherStep
    BY <1>2 DEF WatcherStep, WatcherPush, WatcherPushed, WatcherExits, unwatched, Moves
<1>3. CASE StopWatcher \/ UnwindWatcher
    BY <1>3 DEF StopWatcher, UnwindWatcher, At, Goto, unwatched, Moves, Calling
<1>4. CASE Agent
    BY <1>4 DEF Agent, Edit, Commit, Checkout, Rewrite, unagented, Moves
<1>5. CASE Signal \/ ViewerPrompt \/ ViewerPromptEnds
    BY <1>5 DEF Signal, ViewerPrompt, ViewerPromptEnds, Moves
<1>6. CASE Verify \/ RevokeToken \/ WriteTerminationLog
    BY <1>6 DEF Verify, RevokeToken, WriteTerminationLog, At, Goto, Moves, Calling
<1>7. CASE FinalPush \/ FinalPushed \/ ReturnOutcome
    BY <1>7 DEF FinalPush, FinalPushed, PushFailed, ReturnOutcome, At, Goto, unpushed, Moves, Calling
<1>. QED BY <1>1, <1>2, <1>3, <1>4, <1>5, <1>6, <1>7 DEF Silent

\* They keep the count, and goose's turn stays with a goose that is up.
LEMMA SilentFact ==
    ASSUME Silent, PromptTypeOK, Counting, Idle, Tied
    PROVE  PromptTypeOK' /\ Counting' /\ Idle' /\ Tied'
<1>1. Moves
    BY SilentMoves
<1>2. PromptTypeOK' /\ Counting'
    BY <1>1 DEF Moves, promptVars, PromptTypeOK, Counting, Counted, Told
<1>3. Idle'
    BY <1>1 DEF Moves, promptVars, Idle, Calling
<1>4. Tied'
  <2>1. goose' # "up" => turn' = "idle"
      BY <1>1 DEF Moves, promptVars, Tied
  <2>2. goose' # "up" => ~chatting'
      BY <1>1 DEF Moves, Tied
  <2>3. goose' = "dead" => conn' = "lost"
      BY <1>1 DEF Moves, promptVars, Tied
  <2>4. pc' \in {"connect"} \cup Watching => goose' # "none"
      BY <1>1 DEF Moves, Tied, Watching
  <2>. QED BY <2>1, <2>2, <2>3, <2>4 DEF Tied
<1>. QED BY <1>2, <1>3, <1>4

\* The session's own steps.
LEMMA SessionFact ==
    ASSUME SessionStep, PromptTypeOK, Counting, Idle, Tied
    PROVE  PromptTypeOK' /\ Counting' /\ Idle' /\ Tied'
<1>1. \/ ReceiveNotification
      \/ ReceiveResponse \/ ConnectionDone \/ ContextDone
      \/ goose = "up" /\ \E kind \in {"tool", "usage", "providerError"} : Notify(kind)
      \/ Aside /\ (goose = "up" \/ UNCHANGED <<conn, turn>>)
    BY DEF SessionStep, PromptStep, SignalEndsPrompt, GooseEndsTurn, Aside, AnswerElicitation, AnswerSteps,
           LatchUnanswered, CancelElicitation, CancelTurn, unasked
<1>2. PromptTypeOK' /\ Counting'
    BY <1>1, ReceiveFact, CallEndsFact, NotifyFact, AsideFact
<1>3. pc' = pc /\ goose' = goose /\ chatting' = chatting
    BY DEF SessionStep, unsaid
<1>4. /\ call'.waiting => call.waiting
      /\ call.waiting \/ sent' = sent
  <2>1. CASE ReceiveNotification
      BY <2>1 DEF ReceiveNotification
  <2>2. CASE ReceiveResponse \/ ConnectionDone \/ ContextDone
    <3>1. call.waiting
        BY <2>2 DEF ReceiveResponse, ConnectionDone, ContextDone
    <3>. QED BY <3>1
  <2>3. CASE \E kind \in {"tool", "usage", "providerError"} : Notify(kind)
      BY <2>3 DEF Notify
  <2>4. CASE Aside
      BY <2>4 DEF Aside, AnswerElicitation, AnswerSteps, LatchUnanswered, CancelElicitation, CancelTurn,
                  AskUser, ViewerCancel, LoseConnection, TurnFinishesUnheard, EndTurn, unasked, gooseVars
  <2>. QED BY <1>1, <2>1, <2>2, <2>3, <2>4
<1>5. Idle'
    BY <1>3, <1>4 DEF Idle
<1>6. goose = "up" \/ UNCHANGED <<conn, turn>>
  <2>1. CASE ReceiveNotification
      BY <2>1 DEF ReceiveNotification
  <2>2. CASE ReceiveResponse \/ ConnectionDone \/ ContextDone
      BY <2>2 DEF ReceiveResponse, ConnectionDone, ContextDone, Response, Return, gooseVars
  <2>. QED BY <1>1, <2>1, <2>2
<1>7. Tied'
  <2>1. CASE goose = "up"
      BY <1>3, <2>1 DEF Tied
  <2>2. CASE UNCHANGED <<conn, turn>>
      BY <1>3, <2>2 DEF Tied
  <2>. QED BY <1>6, <2>1, <2>2
<1>. QED BY <1>2, <1>5, <1>7

\* goose ends, by itself or because the harness stops it.
LEMMA GooseEndsFact ==
    ASSUME GooseDies \/ StopGoose, PromptTypeOK, Counting, Idle, Tied
    PROVE  PromptTypeOK' /\ Counting' /\ Idle' /\ Tied'
<1>1. /\ UNCHANGED <<call, sink, resp, result, returned, ask, hitlUnanswered, sent, spent, frames>>
      /\ chatting' = FALSE /\ conn' = "lost" /\ turn' = "idle" /\ cancelled' = FALSE
      /\ \/ goose' = "dead" /\ pc' = pc
         \/ goose' = "none" /\ pc = "stopGoose" /\ pc' = "revoke"
    BY DEF GooseDies, StopGoose, At, Goto
<1>2. PromptTypeOK'
    BY <1>1 DEF PromptTypeOK
<1>3. frames' \in Nat /\ frames' >= frames
    BY <1>1, NumbersFact
<1>4. Counting'
    BY <1>1, <1>3, Uncounted
<1>5. Idle'
    BY <1>1 DEF Idle, Calling
<1>6. Tied'
    BY <1>1 DEF Tied, Watching
<1>. QED BY <1>2, <1>4, <1>5, <1>6

\* The harness's prompts: a call is sent when none is in flight, and what it
\* returned is read once.
LEMMA CallsFact ==
    ASSUME StageTypes, Prompting, PromptTypeOK, Counting, Idle, Tied
    PROVE  PromptTypeOK' /\ Counting' /\ Idle' /\ Tied'
<1>0. UNCHANGED <<goose, chatting>>
    BY DEF Prompting, SendPrimary, Classify, SendHandoff, HandoffReturned, CheckHealth, prompted
<1>1. CASE SendPrimary \/ SendHandoff
  <2>1. PICK most \in {0, CostLimit, MaxCost} : SendPrompt(most)
      BY <1>1 DEF SendPrimary, SendHandoff
  <2>2. pc \in {"prompt", "handoff"} /\ pc' \in Calling
      BY <1>1 DEF SendPrimary, SendHandoff, At, Goto, Calling
  <2>3. ~call.waiting
      BY <2>2 DEF Idle, Calling
  <2>4. PromptTypeOK' /\ Counting'
      BY <2>1, <2>3, SendPromptFact
  <2>5. goose # "none"
      BY <2>2 DEF Tied, Watching
  <2>6. conn' = conn /\ (turn' = turn \/ conn = "up")
      BY <2>1 DEF SendPrompt
  <2>7. Tied'
    <3>1. CASE goose = "up"
        BY <1>0, <3>1 DEF Tied
    <3>2. CASE goose = "dead"
      <4>1. conn = "lost" /\ turn = "idle" /\ ~chatting
          BY <3>2 DEF Tied
      <4>2. turn' = "idle" /\ conn' = "lost"
          BY <2>6, <4>1
      <4>. QED BY <1>0, <3>2, <4>1, <4>2 DEF Tied
    <3>. QED BY <2>5, <3>1, <3>2 DEF StageTypes
  <2>8. Idle'
      BY <2>2 DEF Idle
  <2>. QED BY <2>4, <2>7, <2>8
<1>2. CASE Classify \/ HandoffReturned
  <2>1. /\ ~call.waiting /\ pc \in Calling /\ pc' \in {"handoff", "health"}
        /\ returned' = NothingReturned
        /\ UNCHANGED <<conn, call, sink, resp, result, ask, hitlUnanswered, turn, cancelled, spent, frames>>
      BY <1>2 DEF Classify, HandoffReturned, PromptOver, At, Goto, Calling
  <2>2. sent' = [tools |-> 0, lost |-> 0]
      BY <1>2 DEF Classify, HandoffReturned, PromptOver
  <2>3. /\ sent'.tools = 0 /\ sent' \in [tools : 0..MaxFrames, lost : 0..MaxFrames]
        /\ sent'.tools <= frames' /\ spent' <= frames'
      BY <2>1, <2>2, NumbersFact DEF Counting
  <2>4. NothingReturned \in Returns /\ ~HasResult(NothingReturned)
      BY PromptAssumption DEF NothingReturned, Returns, Errors, HasResult, EmptyResult, PromptResults
  <2>5. PromptTypeOK'
      BY <2>1, <2>3, <2>4 DEF PromptTypeOK
  <2>6. Counting'
      BY <2>1, <2>3, <2>4 DEF Counting, Told
  <2>7. Idle'
      BY <2>1, <2>3 DEF Idle
  <2>8. goose # "none"
      BY <2>1 DEF Tied, Watching, Calling
  <2>9. Tied'
      BY <1>0, <2>1, <2>8 DEF Tied
  <2>. QED BY <2>5, <2>6, <2>7, <2>9
<1>3. CASE CheckHealth
  <2>1. /\ pc = "health" /\ pc' = "stopWatcher"
        /\ UNCHANGED <<conn, call, sink, resp, result, returned, ask, hitlUnanswered, turn, cancelled, sent>>
      BY <1>3 DEF CheckHealth, At, Goto
  <2>2. spent' = 0 /\ frames' = 0
      BY <1>3 DEF CheckHealth
  <2>3. ~call.waiting /\ sent.tools = 0
      BY <2>1 DEF Idle, Calling
  <2>4. PromptTypeOK'
    <3>1. spent' \in 0..MaxFrames /\ frames' \in 0..MaxFrames
        BY <2>2, PromptAssumption
    <3>. QED BY <2>1, <3>1 DEF PromptTypeOK
  <2>5. sent'.tools <= frames' /\ spent' <= frames'
      BY <2>1, <2>2, <2>3
  <2>6. Counting'
      BY <2>1, <2>3, <2>5 DEF Counting, Told
  <2>7. Idle'
      BY <2>1, <2>3 DEF Idle
  <2>8. goose # "none"
      BY <2>1 DEF Tied, Watching
  <2>9. Tied'
      BY <1>0, <2>1, <2>8 DEF Tied
  <2>. QED BY <2>4, <2>6, <2>7, <2>9
<1>. QED BY <1>1, <1>2, <1>3 DEF Prompting

\* Every step of the stage keeps the count.
LEMMA SessionKeeps ==
    ASSUME StageTypes, PromptTypeOK, Counting, Idle, Tied, [Next]_vars
    PROVE  PromptTypeOK' /\ Counting' /\ Idle' /\ Tied'
<1>1. CASE UNCHANGED vars
    BY <1>1 DEF vars, promptVars, stageVars, PromptTypeOK, Counting, Counted, Told, Idle, Tied
<1>2. CASE Next
    BY <1>2, SilentFact, SessionFact, GooseEndsFact, CallsFact
       DEF Next, Advance, Silent, Setup, Prompting
<1>. QED BY <1>1, <1>2

-----------------------------------------------------------------------------
(* The theorems.                                                             *)

StageInv ==
    /\ StageTypes /\ Stops /\ Reports /\ Flagged /\ TokenKept /\ Tracked /\ Pushed /\ Unborn
    /\ PromptTypeOK /\ Counting /\ Idle /\ Tied

\* The invariant that the properties of a stage follow from holds of every
\* behaviour of runStage, whatever goose, the agent, the viewers, the network
\* and the kubelet do.
THEOREM StageKept == Spec => []StageInv
<1>1. ASSUME Init PROVE StageInv
  <2>1. StageTypes /\ Stops /\ Reports /\ Flagged /\ TokenKept
      BY <1>1, InitFact
  <2>2. /\ pc = "config" /\ branch = Base /\ work = Base /\ tree = "clean" /\ pushing = NoBranch
        /\ verified = NotVerified /\ watch.loop = "off" /\ watch.sending = NoBranch
        /\ remote = NoBranch \/ (remote = Base /\ cfg.published)
      BY <1>1 DEF Init
  <2>3. commits = 0 /\ commits \in 0..MaxCommits
      BY <1>1, RunStageAssumption DEF Init
  <2>4. Since(Base, 0)
      BY SinceGrows
  <2>5. NotVerified.commit = NoBranch
      BY DEF NotVerified
  <2>6. Tracked
      BY <2>2, <2>3, <2>4, <2>5 DEF Tracked, Known
  <2>7. Pushed
      BY <2>2 DEF Pushed, Ending
  <2>8. Unborn
      BY <2>2, BasePrefix DEF Unborn
  <2>9. PromptTypeOK /\ Counting
    <3>1. PromptInit
        BY <1>1 DEF Init
    <3>. QED BY <3>1, PromptInitFact
  <2>10. Idle
    <3>1. call = [waiting |-> FALSE, costLimit |-> 0] /\ sent = [tools |-> 0, lost |-> 0]
        BY <1>1 DEF Init, PromptInit
    <3>. QED BY <3>1 DEF Idle
  <2>11. Tied
    <3>1. goose = "none" /\ turn = "idle" /\ chatting = FALSE
        BY <1>1 DEF Init, PromptInit
    <3>. QED BY <2>2, <3>1 DEF Tied, Watching
  <2>. QED BY <2>1, <2>6, <2>7, <2>8, <2>9, <2>10, <2>11 DEF StageInv
<1>2. ASSUME StageInv, [Next]_vars PROVE StageInv'
  <2>1. /\ StageTypes /\ Stops /\ Reports /\ Flagged /\ TokenKept /\ Tracked /\ Pushed /\ Unborn
        /\ PromptTypeOK /\ Counting /\ Idle /\ Tied
        /\ commits \in Nat
      BY <1>2, RunStageAssumption DEF StageInv, Tracked
  <2>2. StageTypes' /\ Stops'
      BY <1>2, <2>1, TypesStep, StopsStep
  <2>3. Reports' /\ Flagged' /\ TokenKept'
      BY <1>2, <2>1, ReportsStep, FlagStep, TokenStep
  <2>4. Tracked' /\ Pushed' /\ Unborn'
      BY <1>2, <2>1, TrackedStep, PushedStep, UnbornStep
  <2>5. PromptTypeOK' /\ Counting' /\ Idle' /\ Tied'
      BY <1>2, <2>1, SessionKeeps
  <2>. QED BY <2>2, <2>3, <2>4, <2>5 DEF StageInv
<1>. QED BY <1>1, <1>2, PTL DEF Spec

\* Every variable of the stage and of its session stays in its range.
THEOREM TypeCorrect == Spec => []TypeOK
<1>1. ASSUME StageInv PROVE TypeOK
  <2>1. commits \in 0..MaxCommits
      BY <1>1 DEF StageInv, Tracked
  <2>2. /\ branch \in Histories /\ work \in Histories
        /\ remote \in Histories \cup {NoBranch} /\ pushing \in Histories \cup {NoBranch}
        /\ watch.sending \in Histories \cup {NoBranch}
        /\ verified.commit \in Histories \cup {NoBranch}
      BY <1>1, <2>1, SinceFact DEF StageInv, Tracked
  <2>3. StageTypes /\ PromptTypeOK /\ Tied
      BY <1>1 DEF StageInv
  <2>4. watch \in [loop : {"off", "idle", "pushing"}, dirty : BOOLEAN, stopping : BOOLEAN,
                   sending : Histories \cup {NoBranch}]
      BY <2>2, <2>3 DEF StageTypes, Watches
  <2>5. verified \in [status : VerifyStatuses, commit : Histories \cup {NoBranch}]
      BY <2>2, <2>3 DEF StageTypes, Verifications
  <2>. QED BY <2>1, <2>2, <2>3, <2>4, <2>5 DEF TypeOK, StageTypes, Tied
<1>. QED BY <1>1, StageKept, PTL

\* SendPrompt counts a turn for every tool call goose sent, whichever case of the
\* select ends the call; only a full channel loses any.
THEOREM NoTurnUncounted == Spec => []TurnsCounted
<1>1. StageInv => TurnsCounted
    BY DEF StageInv, Counting, Told, TurnsCounted
<1>. QED BY <1>1, StageKept, PTL

\* The watcher's push is over before the final push begins and before the tree
\* is measured: w.Stop waits for the loop.
THEOREM PushesDoNotOverlap == Spec => []OnePushAtATime
<1>1. StageInv => OnePushAtATime
    BY DEF StageInv, Stops, Watching, OnePushAtATime
<1>. QED BY <1>1, StageKept, PTL

\* The termination log says what the exit code says, through every override of
\* the outcome on the way: a crash, a refusal, enforcement, a failed push.
THEOREM LogIsTrue == Spec => []ExitTellsTruth
<1>1. ASSUME StageInv, pc = "exited"
      PROVE  /\ log.exitCode = code /\ ExitCode(log.outcome) = code
             /\ log.outcome = "limitReached" => log.limitReached # "none"
             /\ log.limitReached = "maxTurns" => log.outcome = "limitReached"
             /\ log.outcome = "failed" => log.limitReached = "none"
             /\ code = 0 /\ cfg.enforce /\ ~cfg.intermediate =>
                  log.verification \notin {"failed", "incomplete"}
  <2>1. log = term /\ term.exitCode = code /\ ExitCode(term.outcome) = code /\ Truthful(term)
      BY <1>1 DEF StageInv, Reports, Ending
  <2>2. term.outcome \in Outcomes
      BY <1>1 DEF StageInv, StageTypes, Blobs
  <2>3. code = 0 => term.outcome = "succeeded"
      BY <2>1, <2>2, ExitCodeFact
  <2>4. /\ log.outcome = "limitReached" => log.limitReached # "none"
        /\ log.limitReached = "maxTurns" => log.outcome = "limitReached"
        /\ log.outcome = "failed" => log.limitReached = "none"
      BY <2>1 DEF Truthful, Consistent
  <2>5. code = 0 /\ cfg.enforce /\ ~cfg.intermediate =>
          log.verification \notin {"failed", "incomplete"}
      BY <2>1, <2>3, Zenon DEF Truthful
  <2>. QED BY <2>1, <2>4, <2>5
<1>2. StageInv => ExitTellsTruth
    BY <1>1 DEF ExitTellsTruth
<1>. QED BY <1>2, StageKept, PTL

\* A stage that has exited leaves the Hub token alive only to a next stage:
\* after an intermediate stage that returned 0.
THEOREM RevocationFailsClosed == Spec => []TokenRevoked
<1>1. StageInv => TokenRevoked
    BY DEF StageInv, TokenKept, TokenRevoked
<1>. QED BY <1>1, StageKept, PTL

\* What the agent had committed when the last prompt of the harness returned is
\* at the remote when the stage has exited, and so is what a verification passed
\* on, unless the log tells otherwise or the agent gave it up; and no push
\* creates an empty branch.
THEOREM WorkIsPushed == Spec => []WorkPushed
<1>1. ASSUME StageInv, pc = "exited", log.reason \notin {"setup", "push"}
      PROVE  /\ IsPrefix(work, remote) \/ ~IsPrefix(work, branch)
             /\ log.verification = "passed" =>
                  IsPrefix(verified.commit, remote) \/ ~IsPrefix(verified.commit, branch)
  <2>1. log = term
      BY <1>1 DEF StageInv, Reports
  <2>2. Lands(remote) /\ log.verification = verified.status
      BY <1>1, <2>1 DEF StageInv, Pushed, Ending
  <2>. QED BY <2>2 DEF Lands, Landed
<1>2. StageInv => (remote = Base => cfg.published \/ ~baseKnown)
    BY DEF StageInv, Unborn
<1>3. StageInv => WorkPushed
    BY <1>1, <1>2 DEF WorkPushed
<1>. QED BY <1>3, StageKept, PTL

=============================================================================
