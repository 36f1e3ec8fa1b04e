# agentic-controller: TLA+ models, model checking and proofs

The repository has two halves. A Kubernetes **controller** (`internal/controller`,
`api/v1alpha1`, `cmd`) runs an agent for every `AgentRun`: it creates a Sandbox,
follows the pod in it and reports what became of the agent; an
`AgentWorkflowRun` strings AgentRuns together, one per stage. The **harness**
(`harness/`) is the process inside that pod: it prepares the workspace, starts
goose, speaks ACP with it, lets humans watch and answer through the *tee*,
verifies and pushes the result, and reports through its exit code and its
termination message.

Beside them, the controller keeps Gateways, Agents, AgentWorkflows, SkillCards and
SkillCollections ready: each status is derived from other objects, from a Job, or
from both.

What makes both halves hard is concurrency that no test stages: informer caches that
trail the API server, patches without a resourceVersion, names that are reused,
reconciles that fail half way and are retried, timers that live in memory; and in
the harness, one goroutine per ask, two per viewer, a select over four channels per
prompt, a watcher that pushes beside the agent, timeouts, and Stop beside all of them.

## 1. Inventory

| Component | State | Operations | Talks to | What is hard | What makes it correct |
|---|---|---|---|---|---|
| AgentRun reconciler (`agentrun_controller.go`) | `AgentRun.status` (phase, Succeeded/ACPReady/Verified conditions, sandboxName, terminationData, completionTime); caches; work queue | `Reconcile`, `createSandbox`, `updatePhaseFromSandbox`, `terminalPod`, `reconcileTTL`, watch mappings | Agent, Sandbox, Pod, Secret, ConfigMap through the API server | stale caches, partial writes, Finished before the exit code, deadline races, name reuse | an outcome is one an agent reported; an outcome is final; phase and condition agree; everything ends, expires and is collected |
| Verification verdict (`verification.go`) | Verified condition | `verificationVerdict`, `setRunVerified` | termination message of the pod | missing or garbled message | True only from an explicit pass |
| Orphan sweep (`run_cleanup.go`) | none | `cleanupOrphanedRunResources`, `cleanupOrphanedWorkflowRunResources` | caches and API server | one delete of several fails; name recreated meanwhile | nothing is left behind; a live run's children are left alone |
| AgentWorkflowRun reconciler (`agentworkflowrun_controller.go`) | `status.stages` (phase, agentRunName, snapshot), phase, condition | `Reconcile`, `createAgentRunForStage`, `reconcileTTL`, watches | AgentWorkflow, AgentRuns | create-then-record, adoption by name, edits while it runs, stale stage runs | stages in order, one at a time; success means all; snapshot does not move; it ends |
| Gateway controller (`gateway_controller.go`) | Ready condition, connectionVerified, verifiedCredentialHash; one Job per generation and credential | `Reconcile`, `createVerificationJob`, `deleteVerificationJobs`, `findGatewaysForSecret` | Secret, Job and its pod | the spec or the credential changes during a probe; the Job is deleted before its verdict is patched | verified means probed; the status comes to speak for the spec and the credential as they are |
| Agent and AgentWorkflow controllers | Ready and GatewayConfigured conditions | `Reconcile`, `checkRef`, watches through field indexes | Gateway, SkillCard, SkillCollection, Agent | propagation through several caches, patches that are empty against a stale copy | readiness comes to agree with what it is derived from |
| SkillCard and SkillCollection controllers | SkillCard conditions; Ready and resolvedSkills; one enumeration Job per generation; generated SkillCards | both `Reconcile`s, `enumerateImage`, `deleteStaleEnumerationJobs`, `dropEnumeratedSkillCards`, `ensureEnumeratorRBAC`; `Materialize` in the Job's pod | Job, registry, SkillCards | two pods pruning by one label, Job and cards on different watch streams, an image given up half way | one materializer at a time; cards and published list are those of the image |
| Params, substitution, execution (`params.go`, `substitute.go`, `execution.go`) | none | pure functions | - | precedence, unresolved references | against a reference definition |
| ACP tee (`harness/internal/tee`) | viewers and their queues, perms, pendingAsks, responsive, replay ring | `forwardAsk`, `resolveAsk`, `serveViewer`, `broadcast`, `Stop` | goose via the session, viewers via WebSocket | answers against timeouts, attach against broadcast, slow viewers, Stop | fails closed; first answer wins; asks always return; nothing leaks |
| ACP session and client (`harness/internal/acp`) | pending calls, bounded notification channel, `PromptResult`, `hitlUnanswered` | `SendPrompt`, `answerAgentRequest`, `answerElicitation`, `cancelTurn`, `readLoop` | goose, tee | notifications, response, loss of the connection and context race in one select; a full channel; a cancel for another turn | every turn is counted; a call returns |
| Run stage (`harness/cmd/migration-harness`) | outcome, limit, verification, termination blob, Hub token | `runStage`, `classifyOutcome`, `runPlanVerification`, `enforceVerification`, deferred calls | git, goose, tee, Hub, kubelet | later steps override earlier verdicts; failures after the blob is filled; unwinding | log and exit code agree; work is pushed; the token is revoked; the stage exits |
| Watcher and git (`watcher.go`, `git.go`) | quiet-period timer, push in flight | `loop`, `doPush`, `Stop`, `Push` | the clone, the remote | HEAD elsewhere, reset branches, Stop during a push | pushes do not overlap; no work is lost |
| Skill loader, manifests, proxies, redaction, Maven, prompts, logging, manager entry point | none that outlives a call | one-shot I/O, text | - | - | - |

`PROJECT.json` lists every component with its status, and every hazard at the
line where it bites.

## 2. Modules

| Module | Models | Size of state |
|---|---|---|
| `RunLifecycle` | the abstract promise of a run to whoever watches it: forward-only phase, one-way Running, final outcome, success only for work that was done | `state`, `worked` |
| `AgentRun` | the AgentRun reconciler with the verification verdict and the orphan sweep, beside the user, the Agent controller, Agent Sandbox, the kubelet and the garbage collector | one run name and its children |
| `AgentWorkflowRun` | the AgentWorkflowRun reconciler; its stage runs behave as `RunLifecycle` says | one workflow run name and one AgentRun per stage |
| `Gateway` | the Gateway reconciler, beside its Secret, the verification Jobs and their pods | one Gateway, one Secret, a Job per generation and credential |
| `Readiness` | the Agent and AgentWorkflow reconcilers, composed with `Gateway` in one manager (EXTENDS) | one Agent, one SkillCard, one AgentWorkflow |
| `SkillCollection` | the SkillCollection and SkillCard reconcilers, beside the enumeration Jobs, whose pods run `Materialize` | one collection, a Job per generation, a few cards |
| `Tee` | `forwardAsk`, `resolveAsk`, `serveViewer`, `Stop` and the session's reply to goose | all viewers and asks |
| `Prompt` | `SendPrompt` and `answerElicitation` over the WebSocket client, beside goose | one session |
| `RunStage` | `runStage` with the watcher, git, the goose process and the viewers' chat, composed with `Prompt` (EXTENDS) | one stage |
| `AgentRunProofs`, `AgentWorkflowRunProofs`, `ReadinessProofs`, `SkillCollectionProofs`, `TeeProofs`, `RunStageProofs` | theorems about the module of that name | |
| `InductionFacts`, `PromptProofs` | lemmas: induction over the naturals; what the steps of `Prompt` do to the count of turns | |
| `MC*` | what the runs instantiate | |

### AgentRun

Every watched object has an API-server copy (`run`, `agent`, `sandbox`, `pod`) and
a cached one (`runSeen`, ...). `DeliverRun`, `SyncAgent`, `SyncSandbox` and
`SyncPod` are watch events: they bring the cache up to date and enqueue the key,
in any order and arbitrarily late. A reconcile reads only the cached copies,
except where the code uses `apiReader` (`terminalPod`, `ReconcileSandboxMissing`,
`ReconcileMissing`).

`Reconcile(ok)` is one action per way through the Go function. `ReconcileFails` is the
same path with a failing write: `createSandbox` stops after any of its writes, the
sweep after any of its deletes, the status patch does not happen, and the key is
requeued. A crash of the manager in mid-reconcile is a failed call followed by
`Restart`, which also refills the caches and loses every `RequeueAfter`.

`patchRunStatus` is `client.MergeFrom`: the diff between what the reconcile read
and what it wrote is laid over whatever the API server holds by now, without uid
or resourceVersion (`MergePatch`). Conditions are a list and travel whole.
`ReadsOwnWrites` says whether the run's informer has delivered the reconciler's
own patch before the next reconcile of the key; the code does not enforce it, in
practice the patch's own watch event is what triggers that reconcile. The runs
state which they assume.

Abstractions: the contents of Sandbox, Secret, ConfigMap and prompt are reduced to
"was it written, and for which uid". A Sandbox's uid is the uid of the run that
created it. Agent validation is one of four states. A termination message is one
of the classes `harnessVerificationFrom` tells apart (`Blobs`). The legacy Ready
condition, observedGeneration, messages and events are left out. A confirmed
orphan sweep is one step; its deletes may stop anywhere, but nothing else runs
between them.

### AgentWorkflowRun

Same conventions. `Plan` is `status.stages` as one reconcile works on it: the
recorded snapshot, or one taken now. A stage's definition is the version of the
AgentWorkflow it was taken from; `BadVersions` are those for which
`createAgentRunForStage` returns a `configError`. The stage run's Succeeded
condition, which the code reads, is represented by its phase: `AgentRun` shows
that they agree (`PhaseMatchesOutcome`). The only timer is the TTL, and every terminal
patch stamps the completion time: `elapsed` holds the uids whose lifetime is over, `timer`
says that a `RequeueAfter` of the key is pending. The queue and the Delete go by name, so
a terminal copy of a deleted object can delete the one created since. The history
`succeeded` is kept for each uid: what an AgentRun achieved counts for the workflow run
that created it, not for a later one of the name. `agentSeen` says whether the Agent of the
stage is in the cache; while it is not, `ReconcileCreateFails` is all that happens to a
stage that needs a run, however often it is retried, and no event of an Agent enqueues
the run.

### Tee

A step is one critical section of `Server.mu`, one channel operation, or one
`enqueue`. `sending[f]` holds the viewers a broadcast has still to reach, so a
viewer can detach, be dropped or be replaced while a broadcast is under way.
`asking[a]` follows the goroutine of an ask through `forwardAsk` and then through
the session: `Latch` is `hitlUnanswered`, `Reply` is `SendResponse`. `resolving[a]`
follows the viewer's reader through `resolveAsk`; while it is there the reader
handles nothing else (`Busy`). The timer of an ask may fire at any moment. A
viewer's writer may stall for ever. Frames are reduced to ask, answered, cancelled.
The replay ring and the relay of steer frames are left out; the assumption that the
backlog of an attach fits the queue is part of `TeeAssumption` (the code's queue is
256 frames, `DefaultQueueCap`, and the backlog is queued before the writer starts).

### Gateway and Readiness

The spec of a Gateway is its generation, the data of a Secret its version;
`credentialHash` is injective on versions. What a generation stands for is given by
constants: its provider has no models endpoint (`SkippedGens`), its credentialRef
names no key (`KeylessGens`); `BadCreds` are versions without the key, or empty;
`Working` are the pairs the endpoint accepts. One action per way through `Reconcile`;
a parameter `ok` says whether its last write succeeds, and a failed one leaves
everything before it in place: a Job deleted, no verdict recorded. The pod of a Job
reads the Secret when it starts, so a Job named for one credential may probe with
another. `patchStatus` is a merge as in `AgentRun`, with `ReadsOwnWrites`.

`Readiness` adds the two reconcilers that derive from it. They share the manager's
informers: `Relay` hands a Gateway event to the Agents the index finds. A SkillCard
reference is a readiness that changes by itself; a SkillCollection reference would
be treated in the same way. The Agent's two conditions are one list: a patch that changes
either against the cached copy writes both, one that changes neither writes none.

### SkillCollection

A generation of the collection names an image (`Holds` says which cards its skills
become; none for a bad source) or lists cards. The pod of a Job makes one API call
per step: `WriteCard`, `ListOwned`, `PruneCard`. Deletion of a Job is foreground:
`MarkDeleted`, then `JobGone`, with the pod at work in between. `SeesOwnJobs` says
whether the Job informer has delivered a Job before the next reconcile of the
collection that created it. `Verdicts` is the SkillCard reconciler on the five kinds
of specs; `Registry` is what the image resolver may answer. A timer is only used
after a refused RBAC write (`rbacRetryInterval`); the periodic recheck of an image
card is a `ReconcileCard` that may come at any time.

### Prompt and RunStage

`Prompt` is one `session/prompt` call: `sink` is the buffered channel `readLoop` fills,
`resp` the response's channel, and each case of `SendPrompt`'s select is an action.
goose is external: it notifies, asks, ends turns with any stop reason (cancelled only
after a cancel, the native limit only when reached), loses the connection, or dies.
`answerElicitation` runs beside: latch, release goose, cancel the turn, in that order
and with anything in between.

`RunStage` follows `runStage` by `pc`. Setup steps that only fail or go on are one action
each. A history is the sequence of commits since the base; the agent commits, switches
branches, resets. `Measured` is what `runPlanVerification` may conclude from the branch,
the worktree and the signal: which commands pass is open. `stageHandoff` is the choice
between succeeded and refused in `CheckHealth`. `stageSucceeded` is the variable of that
name: it is set on the last step before the return (`ReturnOutcome`), and it, not the exit
code, is what the deferred revocation reads (`KeepsToken`). The deferred calls are the steps from
`unwind` to `exited`, in Go's order. The exit codes and blobs it produces are those
`AgentRun`'s `PodExit` chooses from: `ExitCode` has the range `HarnessReasons` reads, and
`verification` the statuses `VerificationVerdict` reads.

## 3. Runs

| Run | Checks | Instance |
|---|---|---|
| `AgentRunCore` | outcomes and verdicts have a report; no spurious SandboxNotFound; only expired runs are deleted; refinement of `RunLifecycle` | one object, Agent that changes, failing API calls, deadline 1, TTL 1, clock 2, exit codes 0 and 2, message none or passed |
| `AgentRunDisrupted` | phase and condition agree and outcomes are final across deletion and recreation of the name, deletion of Sandbox or pod, restarts, TTL 0 | two objects one after the other |
| `AgentRunLive` | a finished Sandbox is recorded; deadline and TTL are enforced; nothing is left behind | restarts, removed owner references, failing calls |
| `WorkflowStale` | stages in order; the first object of the name succeeds only by its own stages; only own stage runs are adopted | 2 stages, no `ReadsOwnWrites`, two objects, stage runs deleted or expired, failing calls |
| `WorkflowLive` | types; one stage at a time; a stage that succeeded is not run again; the snapshot does not move; refinement of `RunLifecycle`; the workflow run ends; its stage runs are collected | 2 stages, 2 versions of which one is invalid, Agents that come and go, failing calls, removed owner references, restarts |
| `ReadinessLive` | a verdict was probed; Gateway, Agent and AgentWorkflow statuses converge | 3 generations (keyed, keyless, not probed), 3 versions of the Secret (one bad), one edit that may skip versions, one failing call, restarts |
| `SkillsLive` | types; one materializer; image enumerated; conditions follow the specs | 4 generations (two images, a list, an image without a skill), 2 cards, one edit, one failing call, refused RBAC, failing Jobs, deletion, restarts |
| `SkillsDropped` (violation) | see findings | as above, without faults |
| `TeeCore` | the backlog is answerable; fails closed; the gate is latched; first answer wins; asks return; Stop releases asks and closes viewers | 2 viewers, one question, queue of 2 |
| `StageCore` | types; log and exit code agree; work is pushed; one push at a time; token revoked | intermediate published stage and last enforced one, 2 commits, checkout and reset, viewers, crash, signal, failing push and revocation, one notification |
| `StageLive` | turns are counted; the stage exits | last stage, channel of 1, 3 notifications, turn limit 2, cost limit 1, questions, failing setup, crash, signal |
| `StageGate` (violation) | see findings | last stage, 2 notifications, questions, no faults |

**Bounds.** Two objects of a name are enough for every stale reference to be to
"the object before"; a third would only be a second "before". One tick before and
one after a deadline separate the cases. Exit 0 and 2 and the messages none and
passed are the values an outcome or verdict could be wrong about; 3 behaves as 2,
the failing messages as each other (the proofs cover all). One edit is enough for the
readiness reconcilers to meet an old and a new generation, credential or list at once:
an edit may jump to any later version, and the faults and lags supply the rest; two
cards let a collection keep one and prune the other. Two viewers race for an answer, a
queue of two is filled by an ask and its resolution, so a third frame drops the viewer;
with one ask the "viewers are attached but unresponsive" branch of `ForwardNobody` is
only reached through the timeout of that same ask, which is over by then: the proofs,
which are for any number of asks, cover it. A channel of one notification overflows with
the second; three notifications reach the turn limit of two with one to spare, or a cost
limit and a turn. Two commits give a base, something the watcher pushed and something it
did not. The clock ends at `MaxTime`; `DeadlineEnforced` and `ExpiredIsDeleted` exempt
exactly the instants past it. `CHECK_DEADLOCK FALSE` everywhere: a run that is recorded
and collected, a settled Gateway, a stopped tee or a stage that has exited has nothing
left to do. No symmetry is used: the runs that would profit check liveness.

**Left out of a run on purpose.** `WorkflowLive` has no stage-run deletion or expiry beside
failing API calls: with both, a stage run recreated after a failed patch can be
judged by the cached phase of the deleted one, and `OneStageAtATime` fails; so does
`StageNotRepeated` (scenario *w*). `WorkflowStale` has no restart, which only brings caches
up to date that may be brought up to date one by one as well, and no TTL of the workflow
run: its Delete from a stale copy (scenario *v*) is one more deletion at any time, as the
user's are, and the theorems include it.
`TerminalStable`, `PhaseMatchesOutcome`, the refinements, `VerdictConverges` and the
liveness properties are checked with `ReadsOwnWrites` only (scenarios *f* and *m*),
`OneMaterializer` with `SeesOwnJobs` (scenario *p*): the part of the hazard that lies in
the stale own write is not covered by them. `ReadinessLive` recreates no deleted
Gateway, and no `Delete` of a Job fails in it.

**Fairness.** Weak fairness for what controller-runtime and the cluster do on their
own: a queued key is reconciled and a failed reconcile is retried until one
succeeds (`Reconcile(TRUE)`: the rate-limited queue never forgets a key), watch
events are delivered, timers come due, Agent Sandbox reports a finished pod, the
garbage collector collects. None for the user, the Agent, or how long the agent
runs; `FinishedIsRecorded` and `DeadlineEnforced` say explicitly that the Agent
must not stay not Ready, because `Reconcile` returns before it looks at the
Sandbox. In `AgentWorkflowRun` stage runs end (`WF(ChildStep)`), which is what
`AgentRun`'s liveness properties and the harness's limits are for; `EventuallyEnds` says
that the AgentWorkflow must not stay not Ready, nor the Agent of a stage stay away. In `Tee`
goroutines that can go on do so, and a socket the tee has closed fails its reader;
nothing is assumed of goose, clients, writers or, except in the premise of
`AsksReturn`, of timers. In `Readiness` and `SkillCollection` a Job ends at its
`activeDeadlineSeconds` at the latest, a pod that can go on does, and a deletion is carried
out; nothing is assumed of users. In `RunStage` the harness's own goroutines run, goose ends
a turn that nothing holds up (an assumption on the agent: without a turn limit nothing in
the harness bounds a turn), an open question times out, and a push in flight ends: the final push has a timeout of 25 seconds,
the watcher's relies on the transport's.

## 4. Proofs

Every invariant and every action property that a passing run checks is proved, and both
refinements, for every value of the constants; the assumptions beyond the modules' own are
named with each theorem. Liveness is only model-checked.

### AgentRun

`AgentRunProofs` proves, for every value of the constants under
`ConstantsAssumption` (any number of objects of a name, any clock, any set of exit
codes and messages, any faults, with or without `ReadsOwnWrites`):

* `TypeCorrect`: `Spec => []TypeOK`. Not inductive alone: `started[pod.of]` needs
  that a pod that exists belongs to a uid (`PodOwned`), which is carried along.
* `EvidenceKept`: `Spec => []Evidence`. `Evidence` says that *both* copies of the run
  claim only what was reported, that both copies of the pod carry an exit code and
  a message that was reported or none, and that both copies of the Sandbox say
  PodSucceeded only when an exit 0 was reported. Both copies matter: `MergePatch`
  combines what was read from the cache with what the API server holds, and
  `TerminalPod` picks either pod. `MergePatchFact` reduces a patch to "each field
  comes from one of the three versions", `FinishRunFact` and
  `SetTerminalOutcomeFact` say what the terminal branch writes, `SoundMonotone`
  that evidence is never lost.
* `OutcomesAreReported` (`OutcomeSound`), `VerdictsAreReported` (`VerifiedSound`) and their
  conjunction `ResultsAreReported` (`ResultSound`) follow from it.

and, assuming `ReadsOwnWrites`:

* `SettledKept`: `Spec => []Settled`. `Settled` says that phase and condition agree in both
  copies of the run, and that a cached copy that differs from the API server's is one
  whose object was deleted, or deleted and created again and not yet patched. So a patch
  from a stale copy meets an object without a status, and `PatchSettled` shows that the
  merge then keeps the fields in step; `ReconcileSettled` goes through the ways of
  `Reconcile`.
* `PhasesAgree` (`PhaseMatchesOutcome`) and the action property `TerminalKept`
  (`TerminalStable`): a terminal run's copy in the cache is the run itself, and no way
  through `Reconcile` but the TTL's is open from it.

What a reconcile may do to the run is stated once, in `ReconcileEffect`: nothing, a
deletion of a copy that has expired, or a patch that `MayWrite` describes (a phase moves
only from a live one, Running is entered with a recorded Sandbox and left with an outcome,
a Sandbox is recorded when there is one and declared missing when there is none).
`ReconcileRest` and `OthersFact` say what becomes of the Sandbox, the pod and the reports.
From these:

* `NotFoundIsTrue` (`NoSpuriousNotFound`), assuming that nobody deletes the Sandbox or the
  run, and *not* `ReadsOwnWrites`. `Held` is inductive: while the run exists, a Sandbox that
  any copy of it names exists. The garbage collector goes by uid, so it also needs `OneKept`:
  every uid in sight is that of the one object.
* `OnlyExpiredDeleted` (`DeletesOnlyExpired`), assuming `ReadsOwnWrites` and that users
  delete nothing: by `SyncedKept` the copy whose TTL was computed is the object that
  `Delete`, which goes by name, meets. Without `ReadsOwnWrites` a later completion time may
  not have been read yet.
* `Refinement` (`RefinesLifecycle`), assuming `ReadsOwnWrites` and `OneObject` (the name is
  used once, or users leave the run alone: `RunLifecycle` describes one object). The
  initial states correspond; `RefinementStep` maps every step to one of the lifecycle or to
  none. `Synced` turns the merge patch into what was computed, `Placed` (a Running run has
  its Sandbox recorded) excludes the way back from Running to Pending through
  `ReconcileCreate`, `Settled` and `Evidence` of the *next* state give the report that
  Succeed needs, and `One` makes it a report of this run.

### AgentWorkflowRun

`AgentWorkflowRunProofs`, under `ConstantsAssumption` (any number of stages, versions,
objects, any faults). `NextFact` sorts the steps into two kinds and carries `TypeOK`:
`Quiet`, which creates no stage run and patches no live run, and `Advances`, a reconcile of
a live run, whose patch is `Derived` from the copies it read and which creates at most one
stage run. The theorems are then about two kinds of steps instead of every action.

* `TypeCorrect`.
* `OrderedKept`: the uids in all copies are ordered, every stage run has an owner, and only
  objects created so far have successes. From it `AdoptionIsSound` (`AdoptsOnlyOwn`): an owner
  that equals the uid read belongs to the object that is there.
* `BackedKept`: a copy of the run or of a stage run that says a stage succeeded is right, of
  the object with its uid or of one before it (`Claims`), and stage runs exist in order.
  Staleness does no harm because success is never taken back, a patch from a predecessor's
  copy because it speaks of an earlier uid. From it `StagesRunInOrder`. "All stages before
  this one" is an induction over the stages (`InductionFacts`).
* `SuccessIsEarned` (`SuccessMeansAllStages`): for the first object of the name "or of one
  before it" falls away. For a later one the claim is false (scenario *x*), and
  `SuccessMeansAllStages` does not make it.
* `StagesRunOnce` (`StageNotRepeated`), assuming that stage runs are neither deleted nor
  expire (`ChildrenLeft`), and neither `OneObject` nor `ReadsOwnWrites`. `Stays` is inductive:
  while the workflow run exists, the AgentRun of a stage that succeeded for it is there,
  so that a second `Create` meets AlreadyExists.

assuming `ReadsOwnWrites`:

* `MirrorKept`: the cache holds the run, unless users have deleted or recreated it and the
  new one has no status. From it `SnapshotKept` (`SnapshotStable`), and, with `OneObject`
  (the name is used once, or users leave the run alone), `Refinement` (`RefinesLifecycle`,
  `worked` standing for "every stage of this object has succeeded", which `SuccessIsOwned`
  provides in the next state).
* `StagesRunAlone` (`OneStageAtATime`), assuming besides that nobody deletes the run or its
  stage runs (`Undisturbed`): `InHand` says that a stage run that succeeded is still there,
  as it ended. Without that assumption it is false (see *Left out of a run on purpose*).

### Tee

`TeeProofs` proves, for any finite sets of viewers and asks under `TeeAssumption`:

* `TypeCorrect`, with the queue bound; `BacklogFits` is the lemma for the attach.
* `AsksAreSound`: the inductive invariant `AskInv` ties the program counters to the maps:
  `pendingAsks` and `perms` have the same keys, those are asks between registration and
  return that nobody has answered, an answer in the channel, an answered outcome and an
  answered reply have an answerer, and an unanswered question that was replied to has
  latched `hitlUnanswered`.
* from it `BacklogIsAnswerable`, `NeverFailsOpen`, `GateHolds`, `MapsAreEmptied`, and the
  action property `OneAnswer` (`FirstAnswerWins`).

### Gateway and Readiness

`ReadinessProofs` proves, under `GatewayAssumption` (any numbers of generations,
credentials, edits and failing calls, any endpoint) and assuming `ReadsOwnWrites`:

* `VerdictsKept`: `Spec => []VerdictInv` for the three reconcilers of `Readiness` together.
  A verdict is read off a *cached* Job and stamped with the credential the Job's *name*
  carries, so the invariant speaks of both copies of every Job (`JobSound`: the Job keeps to
  the generation in its name, its pod read that credential or a later one, and it is
  complete only after a probe that succeeded), of the cached status, which is the API
  server's unless the Gateway is gone (`Mirrors`: the merge patch would otherwise keep an old
  verdict beside a new credential), and of the status itself (`Claim`). `PatchWrites` shows
  what a patch leaves, `SoundMonotone` that a probe is never forgotten; one lemma per group
  of actions follows (`ReconcileKeeps`, `InformersKeep`, `PodKeeps`, `UserKeeps`).
* `VerdictsAreProbed` (`VerifiedWasProbed`) follows from it.

### SkillCollection

`SkillCollectionProofs`: `TypeCorrect`, and, assuming `SeesOwnJobs`,
`MaterializersDoNotOverlap` (`OneMaterializer`). `OneJob` is stronger and inductive: at most
one enumeration Job *exists*, and the cache shows it. A Job that is being deleted counts, as
its pod is still at work; it is the foreground deletion and the check of the cached list
before `createEnumerationJob` that keep it so.

### Prompt and RunStage

`PromptProofs` holds the lemmas about one `session/prompt` call. The drain of the channel
(`drainNotifications`) is a fold over a sequence; what it computes is proved by induction on
its length (`FoldExists`, `DrainedFact`, `DrainCount`): turns counted grow by the tool calls
drained. `Counting` is the invariant of the call: tool calls sent are those counted, those
in the channel and those a full channel lost (`Counted`), and none is in the channel unseen
when the call has returned (`Told`).

`RunStageProofs` proves `StageKept`: `Spec => []StageInv`, for every configuration and under
no assumption but the module's. The parts of `StageInv`:

* `Stops`: the watcher's loop runs only while the prompts do. Gives `PushesDoNotOverlap`
  (`OnePushAtATime`).
* `Reports`: the blob is the default one until the verdict stands; from then on it agrees
  with the outcome, and from the unwinding on with the exit code; an enforced verification
  that is unmet is never beside a success. Gives `LogIsTrue` (`ExitTellsTruth`).
* `Flagged`: `stageSucceeded` is false until the stage returns an outcome, and from then on
  true only beside exit code 0; so no failing way, the failed final push included, leaves
  it set. `TokenKept`: the decision to revoke is taken once, by that flag. Together they give
  `RevocationFailsClosed` (`TokenRevoked`), which speaks of the exit code.
* `Tracked`, `Pushed`, `Unborn`: every history in sight consists of commits made so far;
  what has landed stays landed or was given up (`LandedFact`: a new commit
  does not bring back an old one); the bare base is pushed only where it was not known. Give
  `WorkIsPushed` (`WorkPushed`).
* `PromptTypeOK`, `Counting`, `Idle`, `Tied`: the session's part, and where it stands to
  `pc` and to the life of goose. Give `NoTurnUncounted` (`TurnsCounted`).

### What is only model-checked, and why

All liveness: `FinishedIsRecorded`, `DeadlineEnforced`, `ExpiredIsDeleted`,
`OrphansCollected`, `EventuallyEnds`, `ChildrenCollected`, `VerdictConverges`,
`ReadinessConverges`, `ImageEnumerated`, `ReadinessFollows`, `AsksReturn`, `StopCompletes`,
`StageExits`: fairness is defined through ENABLED, which the provers do not handle. The two
violations are statements about single behaviours, which TLC exhibits.

The library's induction theorems take an operator as a parameter, which the installed
provers cannot instantiate. `InductionFacts` states the principle for *sets* instead
(`SetInduction`, from the least-number principle); a claim about every n is then that the
set of n for which it holds contains Nat.

## 5. Findings

Runs that expect a violation; the statement is the repository's own.

1. `SkillsDropped`: an image is taken out of a collection's spec while its enumeration Job
   runs. `dropEnumeratedSkillCards` (`skillcollection_enumerate.go:296`) returns at once,
   because `resolvedSkills` is still empty: the Job is not deleted, writes its cards, and
   nothing prunes them, which `skillcollection_controller.go:95-99` rules out.
2. `StageGate`: an `ask_user` question goes unanswered. `runStage` reads that
   (`main.go:589`) only for what it logs. If goose ends its turn by itself before the
   cancel lands, the stage exits 0; if the cost limit cancels it at the same time, or the
   question was raised in the handoff prompt, it exits 2 (`session.go:289-293`: "The
   harness treats that as a terminal failure").

Scenarios the same models exhibit, without a run of their own. Where a definition is named,
it states what fails and can be checked with the module.

* (a) `agentrun_controller.go:272`: the run's event arrives before the Agent's; the
  run fails with AgentNotFound for good. The comment on `apiReader` (198-209) names
  just this danger for the Sandbox.
* (b) `agentrun_controller.go:1653-1668`: the pod started, ran and exited, Finished is still
  under way, the deadline elapses; the pod is not Running, and the run fails with
  StartupDeadlineExceeded, which `agentrun_types.go:105-107` gives for pods that
  did not start.
* (c) `agentworkflowrun_controller.go:537-551`: the stage run is created, the status
  patch fails, the workflow is edited, the next reconcile takes a new snapshot and
  adopts the run built from the old one (`agentworkflowrun_types.go:38-40` says the
  snapshot is what is executed).
* (d) `tee.go:693-703`: an ask raised between a viewer's copy of the backlog and its
  registration is offered to it by neither (478-480 promises it).
* (e) an ask resolved between that copy and the registration leaves its card on the
  late viewer's screen (560-562 says it is closed); a resolution may also be queued
  before the offer it resolves.
* (f) a reconcile that has not seen the patch of the one before it may lay its diff
  over a terminal status and bring the run back to Pending (for a workflow run see *y*). In
  a workflow, a stage run recreated after a failed patch can be judged by the cached phase
  of the deleted one.
* (g) `OutcomeOwned` (`AgentRun`), `agentrun_controller.go:956`: `createSandbox` swallows
  AlreadyExists without looking at the owner; a run recreated under its name before the
  old Sandbox is collected reports the outcome of its predecessor.
* (h) `NeverRan` (`AgentRun`), `agentrun_controller.go:1646`: a run failed on
  ImagePullBackOff keeps its Sandbox; the kubelet's next pull succeeds and the agent runs
  under a run that, by `verification.go:109-111`, never started.
* (i) `DeletedIsReal` (`AgentWorkflowRun`), `agentworkflowrun_controller.go:267`: a stage run
  missing from the cache fails the workflow as deleted although it was just created; the
  AgentRun reconciler guards the same situation with `apiReader`, this one does not.
* (j) `AnswersAreHeeded` (`Tee`), `tee.go:539`: an answer committed after the ask's timer has
  fired, or together with it, is broadcast as the outcome while goose is told that nobody
  answered (563-566 says otherwise).
* (k) `VerifiedIsPushed` (`RunStage`), `main.go:692-697` "the record describes the tree that
  lands on the branch": a viewer's prompt let through once the run's has returned may
  commit between the verification and the final push; and commits the watcher pushed
  before a reset stay at the remote.
* (l) After a reset of pushed commits the final push is no fast-forward and the stage fails.
* (m) `gateway_controller.go:574-585`: without read-your-own-writes, a reconcile on a copy
  older than its own patch computes an empty difference for a field and leaves
  `connectionVerified` false beside Ready True for good.
* (n) The Job is deleted before the patch that records its verdict
  (`gateway_controller.go:313`); when the patch fails, a second Job is run. A credential
  rotated away and back during a probe is judged by what the pod read in between: the
  name of the Job, and the hash, are the same again.
* (o) A Gateway deleted and created again under its name starts at the same generation, and
  may take the verdict of the Job its predecessor left.
* (p) Without `SeesOwnJobs`, an edit between the creation of a Job and its event lets the
  next generation's Job start beside it, and `OneMaterializer` fails.
* (q) When every card of a completed enumeration is deleted by hand, the collection returns
  the "not visible yet" error for ever: the Job is complete and is not run again.
* (r) The cost limit is noticed when a usage update is received, not when it is drained with
  the response: a turn whose last update crosses the limit is not marked.
* (s) `wsclient.go:120-142`: beyond 256 unread notifications turns go uncounted, and a
  connection lost at the turn limit is then read as a failure instead.
* (t) A `session/cancel` for an unanswered question may reach goose when it runs the handoff
  turn already, and cancels that one.
* (u) `watcher.go:62-70`: `Stop` waits for a push that has no timeout of its own.
* (v) `agentworkflowrun_controller.go:628`: a workflow run expires, is deleted by its user and
  created again; the timer's reconcile still reads the terminal copy of the first, and its
  Delete, by name and without a uid, removes the second.
* (w) `agentworkflowrun_controller.go:537-551`: a stage run ends, and expires or is deleted,
  while the patch that names it keeps failing: the retry finds the name free and runs the
  stage again (379-380: "duplicate creation on status-patch conflict is caught by
  AlreadyExists").
* (x) `SuccessIsOwn` (`AgentWorkflowRun`, two objects of the name and the fault "user" are
  enough), `agentworkflowrun_controller.go:576`: both stages of a workflow run have succeeded
  and are recorded; the run is deleted and created again under its name before the last
  reconcile. That one works on the cached copy of the deleted object, finds every stage done
  and patches Succeeded. The patch is a merge by name, without uid or resourceVersion, so it
  lands on the new object, which ends with "All stages completed successfully" (184, 194)
  although none of its stages ran. The same patch with only the first stage recorded makes
  the new object skip that stage.
* (y) `NothingAfterTheEnd` (`AgentWorkflowRun`, one object, without `ReadsOwnWrites`, fault
  "workflow"), `agentworkflowrun_controller.go:114`: a workflow run is applied together with its
  AgentWorkflow and seen first: it fails with WorkflowNotFound. The AgentWorkflow's event
  arrives before that of the patch; `findRunsForWorkflow` looks at the cached phase and enqueues
  the run, the reconcile looks at the cached phase as well, and the first stage of a Failed
  run is created, its phase going back to Running (112-113: "A terminal run has no
  orchestration work left").

## 6. Not modelled, and the plan

Not modelled: what is I/O, text or wiring without state that outlives a call (image
resolver, manifests, proxies, redaction, Maven settings, prompts, logging, manager entry
point). Pure functions over strings (params, substitution, execution settings, the parsers
of plans, handoffs and skills) could only be restated character by character. The skill
loader runs alone, once, before the agent. Within modelled components: the terminal
errors of `createEnumerationJob` (`skillcollection_enumerate.go:348-364`: no enumeration image
is configured, or the collection's name is no label value), which depend on nothing that
changes while the manager runs; the tee's replay ring, steer relay and private pipe to
goose, the ACP handshake, and the contents of Sandboxes and Jobs.

Open, in the order of their worth:

1. The replay ring of `Tee`: keyed frames survive trimming, and a late viewer's replay ends
   in the state a viewer that saw everything is in.
2. `Tee` composed with `Prompt`: the ask path from goose to the viewer and back in one model.
3. Proofs under weaker assumptions: `OneStageAtATime` where stage runs expire but no API call
   fails; `VerifiedWasProbed` without `ReadsOwnWrites`. And the safety half of the liveness
   properties: that whatever still has to happen has a queued key, an event or a timer
   behind it.

To check: `tlc -config <run>.cfg <module>` with the module `PROJECT.json` names for
the run, and `tlapm` on `InductionFacts.tla` and the `*Proofs.tla`.
