------------------------------ MODULE RunStage ------------------------------
(***************************************************************************)
(* One stage of the migration harness, from its start to its exit           *)
(* (cmd/migration-harness/main.go: runStage): set up a clone and goose, send *)
(* the prompt, classify what came back, verify, push, unwind.  Beside it run *)
(* the file watcher, which pushes while the agent works                      *)
(* (watcher/watcher.go), goose, whose agent commits to the clone, the        *)
(* viewers, who may chat with the session once the prompt has returned, and  *)
(* the kubelet, which may ask the harness to stop.                           *)
(*                                                                           *)
(* A history is the sequence of the commits made since the stage began; the  *)
(* branch that is pushed, and its copy at the remote, are such histories.    *)
(***************************************************************************)
EXTENDS Prompt

CONSTANTS
    Configs,    \* the environments a stage may find: see Config
    MaxCommits, \* commits made during the stage
    AgentOps,   \* what the agent may do besides committing: "checkout", "rewrite"
    ViewerChat, \* whether viewers prompt the session when they can
    Faults      \* what may fail: "setup", "crash", "signal", "network", "revoke"

\* intermediate: isIntermediateWorkflowStage.  token: parseHubTokenID found one.
\* published: the target branch is at the remote already.
Config == [intermediate : BOOLEAN, token : BOOLEAN, verify : BOOLEAN, enforce : BOOLEAN,
           published : BOOLEAN]

ASSUME RunStageAssumption ==
    /\ Configs \subseteq Config /\ MaxCommits \in Nat
    /\ AgentOps \subseteq {"checkout", "rewrite"} /\ ViewerChat \in BOOLEAN
    /\ Faults \subseteq {"setup", "crash", "signal", "network", "revoke"}

VARIABLES
    cfg,        \* config.Config
    pc,         \* where runStage is
    signalled,  \* the signal context is cancelled
    goose,      \* the goose process
    chatting,   \* goose runs a prompt of a viewer
    branch,     \* the history of the target branch in the clone
    tree,       \* the worktree: at the branch (clean or with edits), or elsewhere
    remote,     \* the history of the target branch at the remote
    commits,    \* commits made
    baseKnown,  \* baseSHA is not empty
    watch,      \* the watcher's loop
    outcome, limit, verified, pushing,
    primary,    \* what the blob is to tell of the primary prompt
    term,       \* the termination blob to be
    code,       \* what runStage returns
    stageSucceeded, \* the flag the deferred revocation reads
    token,      \* the Hub token
    log,        \* the termination log, once it is written
    work        \* history: the branch when the harness's last prompt returned

stageVars == <<cfg, pc, signalled, goose, chatting, branch, tree, remote, commits, baseKnown, watch,
               outcome, limit, verified, pushing, primary, term, code, stageSucceeded, token, log, work>>
vars == <<promptVars, stageVars>>

-----------------------------------------------------------------------------
Base == <<>>
NoBranch == <<0>>   \* the remote has no such branch; no commit has the number 0
Histories == UNION {[1..n -> 1..MaxCommits] : n \in 0..MaxCommits}

Outcomes == {"succeeded", "failed", "limitReached", "refused"}
Limits == {"none", "maxTurns", "maxCost"}
VerifyStatuses == {"notRun", "incomplete", "failed", "passed"}
NotVerified == [status |-> "notRun", commit |-> NoBranch]

\* Mutant: the codes are the outcomes numbered from one.
ExitCodeNumbered(o) ==
    CASE o = "succeeded" -> 1 [] o = "limitReached" -> 3 [] o = "refused" -> 4 [] OTHER -> 2

\* outcome.exitCode.
ExitCode(o) ==
    CASE o = "succeeded" -> 0 [] o = "limitReached" -> 2 [] o = "refused" -> 3 [] OTHER -> 1

\* Whether SendPrompt returned an error, whether it returned a result, with which
\* stop reason, and providerRejected.
Notes == [failed : BOOLEAN, hasResult : BOOLEAN, stopped : BOOLEAN, rejected : BOOLEAN]
NotPrompted == [failed |-> TRUE, hasResult |-> FALSE, stopped |-> FALSE, rejected |-> FALSE]
Note(r) ==
    [failed |-> r.err # "nil", hasResult |-> HasResult(r), stopped |-> r.result.stopReason # "none",
     rejected |-> HasResult(r) /\ r.result.providerError /\ r.result.turnsUsed = 0]

Reasons == {"none", "setup", "turn", "prompt", "provider", "refused", "verification", "push"}
Blobs == [exitCode : 0..3, outcome : Outcomes, limitReached : Limits, reason : Reasons,
          verification : VerifyStatuses \cup {"none"}]
DefaultTerm == [exitCode |-> 1, outcome |-> "failed", limitReached |-> "none", reason |-> "none",
                verification |-> "none"]
NoLog == [DefaultTerm EXCEPT !.exitCode = 0]

Init ==
    /\ PromptInit
    /\ cfg \in Configs /\ pc = "config" /\ signalled = FALSE
    /\ goose = "none" /\ chatting = FALSE
    /\ branch = Base /\ tree = "clean" /\ commits = 0 /\ baseKnown = FALSE
    /\ remote = IF cfg.published THEN Base ELSE NoBranch
    /\ watch = [loop |-> "off", dirty |-> FALSE, stopping |-> FALSE, sending |-> NoBranch]
    /\ outcome = "failed" /\ limit = "none" /\ verified = NotVerified /\ pushing = NoBranch
    /\ primary = NotPrompted
    /\ term = DefaultTerm /\ code = 0 /\ stageSucceeded = FALSE /\ log = NoLog /\ work = Base
    /\ token = IF cfg.token THEN "unregistered" ELSE "none"

-----------------------------------------------------------------------------
(* Setup: each step goes on, or returns 1 and unwinds.                       *)

At(p) == pc = p
Goto(p) == pc' = p
FailSetup ==
    /\ "setup" \in Faults \/ signalled
    /\ code' = 1 /\ term' = [term EXCEPT !.reason = "setup"] /\ Goto("unwind")
    /\ UNCHANGED stageSucceeded
unreturned == <<code, term, stageSucceeded>>
gitVars == <<branch, tree, remote, commits>>
judged == <<outcome, limit, verified, pushing, primary, work>>

\* LoadFromEnv; the deferred revocation is registered before anything else can fail.
LoadConfig ==
    /\ At("config")
    /\ \/ /\ Goto("clone") /\ UNCHANGED unreturned
          /\ token' = IF token = "unregistered" THEN "live" ELSE token
       \/ FailSetup /\ UNCHANGED token
    /\ UNCHANGED <<promptVars, cfg, signalled, goose, chatting, gitVars, baseKnown, watch, judged, log>>

\* resolveFromHub, FetchProxies, prepareMavenSettings, Clone, ConfigureAuthor,
\* StripCredentials, CheckoutBranch, HeadSHA (whose failure only loses the
\* base), CheckWriteAccess, the skills and their rules.
PrepareClone ==
    /\ At("clone")
    /\ \/ /\ ~signalled /\ Goto("goose") /\ baseKnown' \in {TRUE, "setup" \notin Faults}
          /\ UNCHANGED unreturned
       \/ FailSetup /\ UNCHANGED baseKnown
    /\ UNCHANGED <<promptVars, cfg, signalled, goose, chatting, gitVars, watch, judged, token, log>>

StartServe ==
    /\ At("goose")
    /\ \/ ~signalled /\ Goto("connect") /\ goose' = "up" /\ UNCHANGED unreturned
       \/ FailSetup /\ UNCHANGED goose
    /\ UNCHANGED <<promptVars, cfg, signalled, chatting, gitVars, baseKnown, watch, judged, token, log>>

\* WaitReadyDial, CreateSession, the tee, and the watcher.
Connect ==
    /\ At("connect")
    /\ \/ /\ ~signalled /\ goose = "up" /\ Goto("prompt") /\ UNCHANGED unreturned
          /\ watch' = [watch EXCEPT !.loop = "idle"]
       \/ FailSetup /\ UNCHANGED watch
       \/ /\ goose # "up"
          /\ code' = 1 /\ term' = [term EXCEPT !.reason = "setup"] /\ Goto("unwind")
          /\ UNCHANGED <<stageSucceeded, watch>>
    /\ UNCHANGED <<promptVars, cfg, signalled, goose, chatting, gitVars, baseKnown, judged, token, log>>

-----------------------------------------------------------------------------
(* The prompts and what they mean.                                           *)

prompted == <<cfg, signalled, goose, chatting, gitVars, baseKnown, watch, verified, pushing, term,
              code, stageSucceeded, token, log>>

\* SetRunActive(true), then the call.
SendPrimary ==
    /\ At("prompt")
    /\ SendPrompt(CostLimit)
    /\ Goto("prompting")
    /\ UNCHANGED <<prompted, outcome, limit, primary, work>>

\* classifyOutcome.
ClassifyOutcome(r) ==
    LET atTurnLimit == NativeMaxTurns > 0 /\ r.result.turnsUsed >= NativeMaxTurns
        stop == r.result.stopReason
    IN CASE r.err # "nil" ->
              IF r.err = "lost" /\ atTurnLimit THEN <<"limitReached", "maxTurns">>
              ELSE <<"failed", "none">>
         [] r.err = "nil" /\ stop = "cancelled" ->
              IF r.result.costLimitReached THEN <<"limitReached", "maxCost">>
              ELSE <<"failed", "none">>
         [] r.err = "nil" /\ stop # "cancelled" ->
              CASE r.result.providerError /\ r.result.turnsUsed = 0 -> <<"failed", "none">>
                [] OTHER ->
                     IF stop = "max_turn_requests" \/ atTurnLimit
                     THEN <<"limitReached", "maxTurns">>
                     ELSE <<"succeeded", IF r.result.costLimitReached THEN "maxCost" ELSE "none">>

\* The result has been read, and its counters have no other reader.
PromptOver ==
    /\ returned' = NothingReturned /\ sent' = [tools |-> 0, lost |-> 0]
    /\ UNCHANGED <<conn, call, sink, resp, result, ask, hitlUnanswered, turn, cancelled, spent, frames>>

\* SetRunActive(false); a reached limit asks for a handoff.  An unanswered
\* question is looked up here too, but only for what is logged.
Classify ==
    /\ At("prompting") /\ ~call.waiting
    /\ LET verdict == ClassifyOutcome(returned)
       IN /\ outcome' = verdict[1] /\ limit' = verdict[2]
          /\ Goto(IF verdict[1] = "limitReached" THEN "handoff" ELSE "health")
    /\ primary' = Note(returned) /\ work' = branch
    /\ PromptOver
    /\ UNCHANGED prompted

\* The handoff prompt may spend up to MaxCost; its result decides nothing.
SendHandoff ==
    /\ At("handoff")
    /\ SendPrompt(MaxCost)
    /\ Goto("handingOff")
    /\ UNCHANGED <<prompted, outcome, limit, primary, work>>

HandoffReturned ==
    /\ At("handingOff") /\ ~call.waiting
    /\ Goto("health") /\ work' = branch
    /\ PromptOver
    /\ UNCHANGED <<prompted, outcome, limit, primary>>

\* srv.Alive: a crash overrides; and for a turn that earned success, the
\* handoff's own verdict: stageHandoff reads what the agent wrote.
CheckHealth ==
    /\ At("health")
    /\ \/ /\ goose # "up"
          /\ outcome' = "failed" /\ limit' = "none"
       \/ /\ goose = "up"
          /\ outcome' \in IF outcome = "succeeded" THEN {"succeeded", "refused"} ELSE {outcome}
          /\ UNCHANGED limit
    /\ Goto("stopWatcher")
    /\ spent' = 0 /\ frames' = 0
    /\ UNCHANGED <<conn, call, sink, resp, result, returned, ask, hitlUnanswered, turn, cancelled,
                   sent, prompted, primary, work>>

-----------------------------------------------------------------------------
(* The watcher.                                                              *)

unwatched == <<promptVars, cfg, signalled, goose, chatting, branch, tree, commits, baseKnown,
               judged, term, code, stageSucceeded, token, log>>

\* Mutant: the branch is compared with the base through HEAD.
SkipsPushOfHead == baseKnown /\ (branch = Base \/ tree = "elsewhere")

\* git.Push: nothing is sent while the branch is where the stage found it.
SkipsPush == baseKnown /\ branch = Base

\* A push without force: the remote must hold a beginning of what is sent.
Accepts(history) == remote = NoBranch \/ IsPrefix(remote, history)

\* The quiet period is over: doPush.  The select may still choose it when the
\* watcher has been told to stop.
WatcherPush ==
    /\ watch.loop = "idle" /\ watch.dirty
    /\ watch' = IF SkipsPush THEN [watch EXCEPT !.dirty = FALSE]
                ELSE [watch EXCEPT !.loop = "pushing", !.sending = branch]
    /\ UNCHANGED <<unwatched, pc, remote>>

WatcherPushed ==
    /\ watch.loop = "pushing"
    /\ \/ ~signalled /\ Accepts(watch.sending) /\ remote' = watch.sending
       \/ /\ "network" \in Faults \/ signalled \/ ~Accepts(watch.sending)
          /\ UNCHANGED remote
    /\ watch' = [watch EXCEPT !.loop = "idle", !.dirty = FALSE, !.sending = NoBranch]
    /\ UNCHANGED <<unwatched, pc>>

\* The loop's context is cancelled, by Stop or by the signal.
WatcherExits ==
    /\ watch.loop = "idle" /\ (watch.stopping \/ signalled)
    /\ watch' = [watch EXCEPT !.loop = "off", !.dirty = FALSE]
    /\ UNCHANGED <<unwatched, pc, remote>>

\* Mutant: Stop cancels the loop and does not wait for it.
StopWatcherNoWait ==
    /\ At("stopWatcher")
    /\ watch' = [watch EXCEPT !.stopping = TRUE] /\ Goto("verify")
    /\ UNCHANGED <<unwatched, remote>>

\* w.Stop(): cancel, then wait for the loop.
StopWatcher ==
    /\ At("stopWatcher")
    /\ IF watch.loop = "off" THEN Goto("verify") /\ UNCHANGED watch
       ELSE /\ ~watch.stopping
            /\ watch' = [watch EXCEPT !.stopping = TRUE] /\ UNCHANGED pc
    /\ UNCHANGED <<unwatched, remote>>

-----------------------------------------------------------------------------
(* Verification, the final push, the return.                                 *)

\* What runPlanVerification may find: a plan without commands, a HEAD that is
\* not the branch (verifyTarget), a worktree with more than the commit
\* (worktreeGap), commands that fail, that pass, or that were not all run.
Measured ==
    {NotVerified, [status |-> "incomplete", commit |-> branch]}
        \cup (IF tree = "elsewhere" \/ signalled THEN {}
              ELSE {[status |-> "failed", commit |-> branch]})
        \cup (IF tree # "clean" \/ signalled THEN {}
              ELSE {[status |-> "passed", commit |-> branch]})

\* enforceVerification: verification.unmet, where it is meant to hold by now.
Enforced(v) == cfg.enforce /\ ~cfg.intermediate /\ v.status \in {"failed", "incomplete"}

\* The reason the blob gives.
Reason(o, enforced) ==
    CASE primary.failed /\ o = "failed" /\ ~primary.rejected /\ ~enforced -> "prompt"
      [] ~primary.hasResult -> "none"
      [] OTHER ->
           CASE enforced -> "verification"
             [] ~enforced /\ primary.rejected -> "provider"
             [] ~enforced /\ ~primary.rejected /\ o = "refused" -> "refused"
             [] OTHER -> IF primary.stopped THEN "turn" ELSE "none"

\* Verify what claims success, act on it, and fill in the blob.
Verify ==
    /\ At("verify")
    /\ \E v \in IF cfg.verify /\ outcome = "succeeded" THEN Measured ELSE {NotVerified} :
         LET o == IF Enforced(v) THEN "failed" ELSE outcome
             l == IF Enforced(v) THEN "none" ELSE limit
         IN /\ verified' = v /\ outcome' = o /\ limit' = l
            /\ term' = [exitCode |-> ExitCode(o), outcome |-> o,
                        limitReached |-> IF primary.hasResult THEN l ELSE "none",
                        reason |-> Reason(o, Enforced(v)), verification |-> v.status]
    /\ primary' = NotPrompted /\ Goto("push")
    /\ UNCHANGED <<promptVars, cfg, signalled, goose, chatting, gitVars, baseKnown, watch, pushing,
                   work, code, stageSucceeded, token, log>>

unpushed == <<promptVars, cfg, signalled, goose, chatting, branch, tree, commits, baseKnown, watch,
              outcome, limit, verified, primary, work, token, log>>

\* Mutant: the stage counts as succeeded before its push.
FinalPushClaimsSuccess ==
    /\ At("push")
    /\ IF SkipsPush THEN Goto("return") /\ UNCHANGED pushing
       ELSE Goto("pushing") /\ pushing' = branch
    /\ stageSucceeded' = (outcome = "succeeded")
    /\ UNCHANGED <<unpushed, remote, code, term>>

\* The final push, under a context of its own.
FinalPush ==
    /\ At("push")
    /\ IF SkipsPush THEN Goto("return") /\ UNCHANGED pushing
       ELSE Goto("pushing") /\ pushing' = branch
    /\ UNCHANGED <<unpushed, remote, unreturned>>

\* Mutant: the blob keeps what it said before the push failed.
PushFailedUntold ==
    /\ "network" \in Faults \/ ~Accepts(pushing)
    /\ code' = 1 /\ Goto("unwind")
    /\ UNCHANGED <<remote, term, stageSucceeded>>

PushFailed ==
    /\ "network" \in Faults \/ ~Accepts(pushing)
    /\ code' = 1 /\ Goto("unwind")
    /\ term' = [term EXCEPT !.exitCode = 1, !.outcome = "failed", !.limitReached = "none",
                            !.reason = "push"]
    /\ UNCHANGED <<remote, stageSucceeded>>

FinalPushed ==
    /\ At("pushing")
    /\ \/ Accepts(pushing) /\ remote' = pushing /\ Goto("return") /\ UNCHANGED unreturned
       \/ PushFailed
    /\ pushing' = NoBranch
    /\ UNCHANGED unpushed

ReturnOutcome ==
    /\ At("return")
    /\ code' = ExitCode(outcome) /\ stageSucceeded' = (outcome = "succeeded") /\ Goto("unwind")
    /\ UNCHANGED <<unpushed, remote, pushing, term>>

-----------------------------------------------------------------------------
(* The deferred calls, last registered first: the watcher, the tee and the   *)
(* connection with goose, the token, the termination log.                    *)

UnwindWatcher ==
    /\ At("unwind")
    /\ IF watch.loop = "off" THEN Goto("stopGoose") /\ UNCHANGED watch
       ELSE /\ ~watch.stopping
            /\ watch' = [watch EXCEPT !.stopping = TRUE] /\ UNCHANGED pc
    /\ UNCHANGED <<unwatched, remote>>

\* ServeProcess.Stop: SIGTERM, then SIGKILL.
StopGoose ==
    /\ At("stopGoose")
    /\ goose' = "none" /\ chatting' = FALSE /\ conn' = "lost" /\ turn' = "idle" /\ cancelled' = FALSE
    /\ Goto("revoke")
    /\ UNCHANGED <<call, sink, resp, result, returned, ask, hitlUnanswered, sent, spent, frames,
                   cfg, signalled, gitVars, baseKnown, watch, judged, term, code, stageSucceeded,
                   token, log>>

\* Decided when the stage unwinds, on the flag as it is by then.
KeepsToken == cfg.intermediate /\ stageSucceeded

RevokeToken ==
    /\ At("revoke")
    /\ token' \in IF token # "live" \/ KeepsToken THEN {token}
                  ELSE {"revoked"} \cup (IF "revoke" \in Faults THEN {"revokeFailed"} ELSE {})
    /\ Goto("log")
    /\ UNCHANGED <<promptVars, cfg, signalled, goose, chatting, gitVars, baseKnown, watch, judged,
                   term, code, stageSucceeded, log>>

WriteTerminationLog ==
    /\ At("log")
    /\ log' = term /\ Goto("exited")
    /\ UNCHANGED <<promptVars, cfg, signalled, goose, chatting, gitVars, baseKnown, watch, judged,
                   term, code, stageSucceeded, token>>

-----------------------------------------------------------------------------
(* goose, the agent, the viewers and the kubelet.                            *)

unsaid == <<cfg, pc, signalled, goose, chatting, gitVars, baseKnown, watch, judged, term, code,
            stageSucceeded, token, log>>

PromptStep == ReceiveNotification \/ ReceiveResponse \/ ConnectionDone
SignalEndsPrompt == signalled /\ ContextDone

GooseEndsTurn == (\E stop \in StopReasons \cup {"error"} : EndTurn(stop)) \/ TurnFinishesUnheard

SessionStep ==
    /\ \/ PromptStep \/ SignalEndsPrompt \/ AnswerElicitation \/ AnswerSteps
       \/ goose = "up" /\ (\/ \E kind \in {"tool", "usage", "providerError"} : Notify(kind)
                           \/ AskUser \/ GooseEndsTurn \/ ViewerCancel
                           \/ ("crash" \in Faults /\ pc # "connect" /\ LoseConnection))
    /\ UNCHANGED unsaid

\* goose dies, by itself or of the signal (CommandContext).
GooseDies ==
    /\ goose = "up" /\ ("crash" \in Faults \/ signalled)
    /\ goose' = "dead" /\ chatting' = FALSE /\ conn' = "lost" /\ turn' = "idle" /\ cancelled' = FALSE
    /\ UNCHANGED <<call, sink, resp, result, returned, ask, hitlUnanswered, sent, spent, frames,
                   cfg, pc, signalled, gitVars, baseKnown, watch, judged, term, code, stageSucceeded,
                   token, log>>

Signal ==
    /\ "signal" \in Faults /\ ~signalled /\ pc # "exited"
    /\ signalled' = TRUE
    /\ UNCHANGED <<promptVars, cfg, pc, goose, chatting, gitVars, baseKnown, watch, judged, term,
                   code, stageSucceeded, token, log>>

\* The tee lets a viewer's prompt through while runActive is false: handed on
\* to goose over the viewer's own connection.
RunActive == pc = "prompting"
ViewerPrompt ==
    /\ ViewerChat /\ goose = "up" /\ ~chatting /\ ~RunActive
    /\ pc \notin {"config", "clone", "goose", "connect", "revoke", "log", "exited"}
    /\ chatting' = TRUE
    /\ UNCHANGED <<promptVars, cfg, pc, signalled, goose, gitVars, baseKnown, watch, judged, term,
                   code, stageSucceeded, token, log>>

ViewerPromptEnds ==
    /\ chatting /\ chatting' = FALSE
    /\ UNCHANGED <<promptVars, cfg, pc, signalled, goose, gitVars, baseKnown, watch, judged, term,
                   code, stageSucceeded, token, log>>

\* The agent at work, for the run or for a viewer.
AtWork == goose = "up" /\ (Working \/ chatting)
unagented == <<promptVars, cfg, pc, signalled, goose, chatting, remote, baseKnown, judged, term,
               code, stageSucceeded, token, log>>

Edit ==
    /\ AtWork /\ tree = "clean" /\ commits < MaxCommits
    /\ tree' = "dirty"
    /\ watch' = [watch EXCEPT !.dirty = watch.loop # "off"]
    /\ UNCHANGED <<unagented, branch, commits>>

\* A commit changes files under .git only, which the watcher ignores.
Commit ==
    /\ AtWork /\ tree = "dirty"
    /\ tree' = "clean" /\ commits' = commits + 1 /\ branch' = Append(branch, commits + 1)
    /\ UNCHANGED <<unagented, watch>>

Checkout ==
    /\ "checkout" \in AgentOps /\ AtWork
    /\ tree' = CASE tree = "clean" -> "elsewhere" [] tree = "elsewhere" -> "clean"
                 [] OTHER -> tree
    /\ tree # "dirty"
    /\ UNCHANGED <<unagented, branch, commits, watch>>

\* git reset: the last commit is given up.
Rewrite ==
    /\ "rewrite" \in AgentOps /\ AtWork /\ tree = "clean" /\ branch # Base
    /\ branch' = Front(branch)
    /\ watch' = [watch EXCEPT !.dirty = watch.loop # "off"]
    /\ UNCHANGED <<unagented, tree, commits>>

-----------------------------------------------------------------------------
Advance ==
    \/ LoadConfig \/ PrepareClone \/ StartServe \/ Connect
    \/ SendPrimary \/ Classify \/ SendHandoff \/ HandoffReturned \/ CheckHealth
    \/ StopWatcher \/ Verify \/ FinalPush \/ FinalPushed \/ ReturnOutcome
    \/ UnwindWatcher \/ StopGoose \/ RevokeToken \/ WriteTerminationLog

WatcherStep == WatcherPush \/ WatcherPushed \/ WatcherExits
Agent == Edit \/ Commit \/ Checkout \/ Rewrite

Next ==
    \/ Advance \/ WatcherStep \/ SessionStep \/ Agent
    \/ GooseDies \/ Signal \/ ViewerPrompt \/ ViewerPromptEnds

Spec == Init /\ [][Next]_vars

\* The harness runs, its select loops are served, a push in flight ends (see
\* the README), an open question times out, and goose ends its turns.
Fairness ==
    /\ WF_vars(Advance)
    /\ WF_vars(WatcherPushed) /\ WF_vars(WatcherExits)
    /\ WF_vars(PromptStep /\ UNCHANGED unsaid)
    /\ WF_vars(SignalEndsPrompt /\ UNCHANGED unsaid)
    /\ WF_vars(AnswerSteps /\ UNCHANGED unsaid)
    /\ WF_vars(goose = "up" /\ GooseEndsTurn /\ UNCHANGED unsaid)

FairSpec == Spec /\ Fairness

-----------------------------------------------------------------------------
(* Properties.                                                               *)

\* Every variable stays in its range.
TypeOK ==
    /\ PromptTypeOK
    /\ cfg \in Configs /\ signalled \in BOOLEAN /\ chatting \in BOOLEAN /\ baseKnown \in BOOLEAN
    /\ goose \in {"none", "up", "dead"} /\ goose # "up" => turn = "idle" /\ ~chatting
    /\ branch \in Histories /\ work \in Histories /\ commits \in 0..MaxCommits
    /\ remote \in Histories \cup {NoBranch} /\ pushing \in Histories \cup {NoBranch}
    /\ tree \in {"clean", "dirty", "elsewhere"}
    /\ watch \in [loop : {"off", "idle", "pushing"}, dirty : BOOLEAN, stopping : BOOLEAN,
                  sending : Histories \cup {NoBranch}]
    /\ outcome \in Outcomes /\ limit \in Limits
    /\ verified \in [status : VerifyStatuses, commit : Histories \cup {NoBranch}]
    /\ primary \in Notes /\ term \in Blobs /\ log \in Blobs /\ code \in 0..3 /\ stageSucceeded \in BOOLEAN
    /\ token \in {"none", "unregistered", "live", "revoked", "revokeFailed"}

\* SendPrompt counts a turn for every tool call goose sent, through late
\* notifications and a response or a loss of the connection that overtakes
\* them in the select; only a full channel loses any.  classifyOutcome relies
\* on the count to tell a reached turn limit from a failure.
TurnsCounted ==
    ~call.waiting /\ HasResult(returned) =>
        returned.result.turnsUsed + sent.lost = sent.tools

\* The termination log says what the exit code says, after whatever overrode
\* the outcome on the way: a crash, a refusal, enforcement, a failed push.  A
\* stage that must be verified does not exit 0 with a measurement unmet.
ExitTellsTruth ==
    pc = "exited" =>
        /\ log.exitCode = code /\ ExitCode(log.outcome) = code
        /\ log.outcome = "limitReached" => log.limitReached # "none"
        /\ log.limitReached = "maxTurns" => log.outcome = "limitReached"
        /\ log.outcome = "failed" => log.limitReached = "none"
        /\ code = 0 /\ cfg.enforce /\ ~cfg.intermediate =>
             log.verification \notin {"failed", "incomplete"}

\* What the agent had committed when the harness's last prompt returned is at
\* the remote when the stage has exited, and so is the commit a verification
\* passed on, unless the log tells of a failed push or the agent itself gave the
\* commit up; and a stage without commits does not create the branch.
WorkPushed ==
    /\ pc = "exited" /\ log.reason \notin {"setup", "push"} =>
         /\ IsPrefix(work, remote) \/ ~IsPrefix(work, branch)
         /\ log.verification = "passed" =>
              IsPrefix(verified.commit, remote) \/ ~IsPrefix(verified.commit, branch)
    /\ remote = Base => cfg.published \/ ~baseKnown

\* The watcher's push is over before the final push begins, and before the tree
\* is measured.
OnePushAtATime == pc \in {"verify", "push", "pushing"} => watch.loop = "off"

\* Fail-closed revocation: a stage that has exited leaves the Hub token alive
\* only to a next stage, that is, after an intermediate stage with exit code 0;
\* so do failures of the setup, once the configuration is read.
TokenRevoked ==
    pc = "exited" /\ token \notin {"none", "unregistered"} =>
        (token = "live") = (cfg.intermediate /\ code = 0)

\* Every stage exits: no loss of goose or of the connection, no unanswered
\* question and no push under way at the wrong moment blocks it for good.
StageExits == <>(pc = "exited")

\* "The harness treats that as a terminal failure" (HITLGateUnanswered): a
\* stage with an unanswered question exits 1.
GateFailsRun == pc = "exited" /\ hitlUnanswered => code = 1

\* Not an invariant (README, scenario): "the record describes the tree that lands
\* on the branch" (runStage), that is, the remote's branch is at the commit the
\* verification passed on.
VerifiedIsPushed ==
    pc = "exited" /\ log.verification = "passed" /\ log.reason # "push" =>
        remote = verified.commit \/ (verified.commit = Base /\ remote = NoBranch)
=============================================================================
