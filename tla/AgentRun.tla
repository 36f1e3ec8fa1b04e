------------------------------ MODULE AgentRun ------------------------------
(***************************************************************************)
(* The AgentRun reconciler (internal/controller/agentrun_controller.go,     *)
(* verification.go, run_cleanup.go) driving one AgentRun name through its   *)
(* Sandbox, beside the actors it shares the API server with: the user, the  *)
(* Agent controller, Agent Sandbox, the kubelet, the garbage collector.     *)
(*                                                                          *)
(* The reconciler reads through informers, so every object it watches has   *)
(* an API-server value and a "seen" value in the cache that trails it; a    *)
(* watch event copies the first to the second and enqueues the run.  With   *)
(* ReadsOwnWrites the run's informer has delivered the reconciler's own     *)
(* status patch before the next reconcile starts; without, it need not.     *)
(***************************************************************************)
EXTENDS Naturals

CONSTANTS
    MaxUid,     \* how many objects of this name are created one after the other
    ReadsOwnWrites, \* whether a reconcile sees the patches of the ones before it
    MaxTime,    \* bound on the clock
    Deadline,   \* effectiveStartupDeadline; 0 when no deadline applies
    HasTTL,     \* whether effectiveTTL resolves to a lifetime
    TTL,        \* that lifetime
    ExitCodes,  \* exit codes of the agent container
    Blobs,      \* what its termination message holds
    Faults      \* what may go wrong, or be changed, around the reconciler

NoExit == 256       \* no terminated agent container to read a code from
NoBlob == "none"    \* a message that is empty or no JSON object

FaultKinds == {"agent", "apiError", "restart", "user", "deleteSandbox", "deletePod", "dropOwner"}

ASSUME ConstantsAssumption ==
    /\ MaxUid \in Nat \ {0} /\ MaxTime \in Nat \ {0}
    /\ Deadline \in Nat /\ TTL \in Nat
    /\ HasTTL \in BOOLEAN /\ ReadsOwnWrites \in BOOLEAN
    /\ Faults \subseteq FaultKinds
    /\ ExitCodes \subseteq 0..255
    /\ NoBlob \in Blobs

VARIABLES
    run,          \* the AgentRun at the API server; uid 0 when there is none
    runSeen,      \* the AgentRun in the cache
    queued,       \* the run's key is in the work queue
    wakeAt,       \* earliest pending RequeueAfter; 0 for none
    now,          \* the clock
    uids,         \* objects of this name created so far
    agent,        \* the Agent at the API server
    agentSeen,    \* the Agent in the cache
    sandbox,      \* the Sandbox at the API server
    sandboxSeen,  \* the Sandbox in the cache
    pod,          \* the sandbox pod at the API server
    podSeen,      \* the sandbox pod in the label-restricted cache
    aux,          \* owner uid of the ACP Secret and the params ConfigMap; 0 if absent
    started,      \* history: when the agent process of a uid first started; 0 for never
    reports       \* history: what terminated agent containers reported

clusterVars == <<agent, agentSeen, sandbox, sandboxSeen, pod, podSeen, aux>>
historyVars == <<started, reports>>
vars == <<run, runSeen, queued, wakeAt, now, uids, clusterVars, historyVars>>

-----------------------------------------------------------------------------
Uids == 1..MaxUid
Exits == ExitCodes \cup {NoExit}
Phases == {"", "Pending", "Running", "Succeeded", "Failed"}

\* The Agent as a run sees it: missing, not Ready, Ready but rejecting this
\* run's params, gateway or file mounts, or Ready and accepting them.
AgentStates == {"absent", "notReady", "invalid", "ready"}

InvalidReasons == {"InvalidParams", "InvalidGateway", "InvalidFileMounts"}
SourceReasons == {"FileMountSourceNotFound", "FileMountSourceUnavailable"}
CreateReasons == {"GatewayNotFound", "SandboxCreationFailed"}
HarnessReasons == {"Succeeded", "LimitReached", "Refused", "Failed"}
Reasons == {"", "AgentNotFound", "AgentNotReady", "SandboxCreated", "SandboxNotFound",
            "PodNotRunning", "Running", "FatalWaiting", "StartupDeadlineExceeded"}
           \cup InvalidReasons \cup SourceReasons \cup CreateReasons \cup HarnessReasons

RunVersions ==
    [uid : 0..MaxUid, phase : Phases, sandboxName : BOOLEAN,
     conditions : [succeeded : {"None", "Unknown", "True", "False"}, reason : Reasons,
                   acpReady : {"None", "True", "False"},
                   verified : {"None", "True", "False", "Unknown"}],
     terminationData : Blobs, completionTime : 0..MaxTime]

Sandboxes ==
    [uid : 0..MaxUid, owned : BOOLEAN, finished : {"", "PodSucceeded", "PodFailed"},
     ready : BOOLEAN, created : 0..MaxTime]

Pods ==
    [of : 0..MaxUid,
     phase : {"absent", "Pending", "Stuck", "Running", "Succeeded", "Failed"},
     exit : Exits, blob : Blobs]

NewRun(u) ==
    [uid |-> u, phase |-> "", sandboxName |-> FALSE,
     conditions |-> [succeeded |-> "None", reason |-> "", acpReady |-> "None",
                     verified |-> "None"],
     terminationData |-> NoBlob, completionTime |-> 0]

NoRun == NewRun(0)
NoSandbox == [uid |-> 0, owned |-> FALSE, finished |-> "", ready |-> FALSE, created |-> 0]
NoPod == [of |-> 0, phase |-> "absent", exit |-> NoExit, blob |-> NoBlob]

Init ==
    /\ run = NewRun(1)
    /\ runSeen = run
    /\ queued = TRUE
    /\ wakeAt = 0
    /\ now = 1
    /\ uids = 1
    /\ agent \in AgentStates
    /\ agentSeen \in {"absent", agent}
    /\ sandbox = NoSandbox /\ sandboxSeen = NoSandbox
    /\ pod = NoPod /\ podSeen = NoPod
    /\ aux = [params |-> 0, secret |-> 0]
    /\ started = [u \in Uids |-> 0] /\ reports = {}

-----------------------------------------------------------------------------
(* The API server and the run's informer.                                   *)

\* A write of the reconciler's own.  A watch event enqueues the key.
Publish(version, requeue) ==
    /\ run' = version
    /\ runSeen' = IF ReadsOwnWrites THEN version ELSE runSeen
    /\ queued' = (requeue \/ ReadsOwnWrites)

Merged(original, changed, onto) == IF changed # original THEN changed ELSE onto

\* client.MergeFrom: the fields the reconcile changed overwrite the API
\* server's, the others keep what the API server has; conditions are one list
\* and travel whole.  The patch carries no uid and no resourceVersion.  The
\* CRD defaults the phase of a status that has none.
MergePatch(original, changed, onto) ==
    LET phase == Merged(original.phase, changed.phase, onto.phase) IN
    [uid |-> onto.uid,
     phase |-> IF phase = "" THEN "Pending" ELSE phase,
     sandboxName |-> Merged(original.sandboxName, changed.sandboxName, onto.sandboxName),
     conditions |-> Merged(original.conditions, changed.conditions, onto.conditions),
     terminationData |->
        Merged(original.terminationData, changed.terminationData, onto.terminationData),
     completionTime |->
        Merged(original.completionTime, changed.completionTime, onto.completionTime)]

\* patchRunStatus.  An error, and a run that is gone, requeue with backoff; an
\* empty diff makes no new version and so no event.
PatchRunStatus(changed, ok, requeue) ==
    LET merged == MergePatch(runSeen, changed, run) IN
    \/ /\ ok /\ run.uid # 0 /\ merged # run
       /\ Publish(merged, requeue)
    \/ /\ ok /\ run.uid # 0 /\ merged = run
       /\ queued' = requeue
       /\ UNCHANGED <<run, runSeen>>
    \/ /\ ~ok \/ run.uid = 0
       /\ queued' = TRUE
       /\ UNCHANGED <<run, runSeen>>

\* Delete by name: whichever object has the name now.  NotFound is no error.
DeleteRun(ok) ==
    \/ /\ ok /\ run.uid # 0
       /\ Publish(NoRun, FALSE)
    \/ /\ ok /\ run.uid = 0
       /\ queued' = FALSE
       /\ UNCHANGED <<run, runSeen>>
    \/ /\ ~ok
       /\ queued' = TRUE
       /\ UNCHANGED <<run, runSeen>>

SetRunSucceeded(version, status, reason) ==
    [version EXCEPT !.conditions.succeeded = status, !.conditions.reason = reason]

\* Mutant: the phase is set and the condition forgotten.
FailRunPhaseOnly(version, reason) ==
    [version EXCEPT !.phase = "Failed", !.conditions.reason = reason]

FailRun(version, reason) ==
    [SetRunSucceeded(version, "False", reason) EXCEPT !.phase = "Failed"]

IsTerminalPhase(phase) == phase \in {"Succeeded", "Failed"}

EarlierOf(a, b) == IF a = 0 \/ b < a THEN b ELSE a

-----------------------------------------------------------------------------
(* Reconcile, one action per way through it.  ok says whether the API calls  *)
(* that write succeed; a crash of the manager in the middle of a reconcile   *)
(* is a failed call followed by Restart.                                     *)

Reconciling == queued /\ runSeen.uid # 0

\* Mutant: without the early return for a terminal run.
LiveAnyPhase == Reconciling
Live == Reconciling /\ ~IsTerminalPhase(runSeen.phase)
AgentReady == agentSeen \in {"invalid", "ready"}

\* Mutant: the garbage collector is trusted to remove every child.
ReconcileMissingNoSweep(ok) ==
    /\ queued /\ runSeen.uid = 0
    /\ queued' = (run.uid # 0 \/ ~ok)
    /\ UNCHANGED <<run, runSeen, wakeAt, now, uids, clusterVars, historyVars>>

\* Reconcile of a name the cache does not hold: confirm with the API server,
\* then cleanupOrphanedRunResources deletes what the caches list: Sandbox,
\* ConfigMap, Secret, and the pod if the Sandbox that owns it is gone.  The
\* sweep stops at the first call that fails; calls counts the ones made.
ReconcileMissing(ok) ==
    /\ queued /\ runSeen.uid = 0
    /\ \/ /\ run.uid # 0
          /\ UNCHANGED <<queued, sandbox, pod, aux>>
       \/ /\ run.uid = 0
          /\ \E calls \in 0..4 :
               /\ ok <=> calls = 4
               /\ sandbox' = IF calls >= 1 /\ sandboxSeen.uid # 0 THEN NoSandbox ELSE sandbox
               /\ aux' = [params |-> IF calls >= 2 THEN 0 ELSE aux.params,
                          secret |-> IF calls >= 3 THEN 0 ELSE aux.secret]
               /\ pod' = IF calls = 4 /\ podSeen.of # 0 /\ sandbox'.uid # podSeen.of
                         THEN NoPod ELSE pod
          /\ queued' = ~ok
    /\ UNCHANGED <<run, runSeen, wakeAt, now, uids, agent, agentSeen, sandboxSeen, podSeen,
                   historyVars>>

\* Mutant: a completion time that was never recorded is read as long ago.
ReconcileTTLUnanchored(ok) ==
    /\ Reconciling /\ IsTerminalPhase(runSeen.phase)
    /\ HasTTL /\ now >= runSeen.completionTime + TTL
    /\ DeleteRun(ok)
    /\ UNCHANGED <<wakeAt, now, uids, clusterVars, historyVars>>

\* Mutant: no RequeueAfter for the lifetime that is left.
ReconcileTTLNoRequeue(ok) ==
    /\ Reconciling /\ IsTerminalPhase(runSeen.phase)
    /\ \/ /\ HasTTL /\ runSeen.completionTime = 0
          /\ PatchRunStatus([runSeen EXCEPT !.completionTime = now], ok, FALSE)
       \/ /\ HasTTL /\ runSeen.completionTime # 0 /\ now >= runSeen.completionTime + TTL
          /\ DeleteRun(ok)
       \/ /\ ~HasTTL \/ (runSeen.completionTime # 0 /\ now < runSeen.completionTime + TTL)
          /\ queued' = FALSE
          /\ UNCHANGED <<run, runSeen>>
    /\ UNCHANGED <<wakeAt, now, uids, clusterVars, historyVars>>

\* reconcileTTL: stamp the completion time a terminal run lacks, wait for the
\* lifetime to elapse, then delete the run by name.
ReconcileTTL(ok) ==
    /\ Reconciling /\ IsTerminalPhase(runSeen.phase)
    /\ \/ /\ ~HasTTL
          /\ queued' = FALSE
          /\ UNCHANGED <<run, runSeen, wakeAt>>
       \/ /\ HasTTL /\ runSeen.completionTime = 0
          /\ PatchRunStatus([runSeen EXCEPT !.completionTime = now], ok, FALSE)
          /\ UNCHANGED wakeAt
       \/ /\ HasTTL /\ runSeen.completionTime # 0 /\ now < runSeen.completionTime + TTL
          /\ queued' = FALSE
          /\ wakeAt' = EarlierOf(wakeAt, runSeen.completionTime + TTL)
          /\ UNCHANGED <<run, runSeen>>
       \/ /\ HasTTL /\ runSeen.completionTime # 0 /\ now >= runSeen.completionTime + TTL
          /\ DeleteRun(ok)
          /\ UNCHANGED wakeAt
    /\ UNCHANGED <<now, uids, clusterVars, historyVars>>

\* The referenced Agent is not in the cache: the run fails there and then.
ReconcileAgentNotFound(ok) ==
    /\ Live /\ agentSeen = "absent"
    /\ PatchRunStatus(FailRun(runSeen, "AgentNotFound"), ok, FALSE)
    /\ UNCHANGED <<wakeAt, now, uids, clusterVars, historyVars>>

\* The Agent is not Ready: whatever the Sandbox does, the run waits.
ReconcileAgentNotReady(ok) ==
    /\ Live /\ agentSeen = "notReady"
    /\ PatchRunStatus(SetRunSucceeded(runSeen, "Unknown", "AgentNotReady"), ok, FALSE)
    /\ UNCHANGED <<wakeAt, now, uids, clusterVars, historyVars>>

\* No Sandbox yet, and the run does not validate against the Agent.
ReconcileInvalid(ok) ==
    /\ Live /\ agentSeen = "invalid" /\ ~runSeen.sandboxName
    /\ \E reason \in InvalidReasons : PatchRunStatus(FailRun(runSeen, reason), ok, FALSE)
    /\ UNCHANGED <<wakeAt, now, uids, clusterVars, historyVars>>

\* No Sandbox yet, and a file mount's Secret or ConfigMap cannot be read.
ReconcileMountSource ==
    /\ Live /\ agentSeen = "ready" /\ ~runSeen.sandboxName
    /\ \E reason \in SourceReasons, patched \in BOOLEAN :
         PatchRunStatus(SetRunSucceeded(runSeen, "Unknown", reason), patched, TRUE)
    /\ UNCHANGED <<wakeAt, now, uids, clusterVars, historyVars>>

\* createSandbox: Secret, ConfigMaps, Sandbox, in this order; the Secret and
\* the Sandbox are left alone when the name is taken, the ConfigMaps are taken
\* over.  writes counts the ones made before an error.
CreateSandbox(writes) ==
    /\ aux' = [secret |-> IF writes >= 1 /\ aux.secret = 0 THEN runSeen.uid ELSE aux.secret,
               params |-> IF writes >= 2 THEN runSeen.uid ELSE aux.params]
    /\ sandbox' = IF writes = 3 /\ sandbox.uid = 0
                  THEN [NoSandbox EXCEPT !.uid = runSeen.uid, !.owned = TRUE, !.created = now]
                  ELSE sandbox

\* No Sandbox yet and the run validates: createSandbox, then record its name.
ReconcileCreate(ok) ==
    /\ Live /\ agentSeen = "ready" /\ ~runSeen.sandboxName
    /\ \/ /\ CreateSandbox(3)
          /\ PatchRunStatus([SetRunSucceeded(runSeen, "Unknown", "SandboxCreated")
                               EXCEPT !.sandboxName = TRUE, !.phase = "Pending"], ok, FALSE)
       \/ /\ ~ok
          /\ \E writes \in 0..2, reason \in CreateReasons, patched \in BOOLEAN :
               /\ reason = "GatewayNotFound" => writes = 1
               /\ CreateSandbox(writes)
               /\ PatchRunStatus(SetRunSucceeded(runSeen, "Unknown", reason), patched, TRUE)
    /\ UNCHANGED <<wakeAt, now, uids, agent, agentSeen, sandboxSeen, pod, podSeen, historyVars>>

\* Mutant: the cache miss alone decides.
ReconcileSandboxMissingUnconfirmed(ok) ==
    /\ Live /\ AgentReady /\ runSeen.sandboxName /\ sandboxSeen.uid = 0
    /\ PatchRunStatus(FailRun(runSeen, "SandboxNotFound"), ok, FALSE)
    /\ UNCHANGED <<wakeAt, now, uids, clusterVars, historyVars>>

\* The Sandbox is not in the cache: fail the run only if the API server
\* confirms that it is gone.
ReconcileSandboxMissing(ok) ==
    /\ Live /\ AgentReady /\ runSeen.sandboxName /\ sandboxSeen.uid = 0
    /\ \/ /\ ok /\ sandbox.uid # 0
          /\ UNCHANGED <<run, runSeen, queued>>
       \/ /\ sandbox.uid = 0
          /\ PatchRunStatus(FailRun(runSeen, "SandboxNotFound"), ok, FALSE)
    /\ UNCHANGED <<wakeAt, now, uids, clusterVars, historyVars>>

\* terminalPod: the cached pod if it records the termination, else a direct
\* read, which is best effort (fresh says whether it succeeded).
TerminalPod(fresh) ==
    IF podSeen.exit # NoExit \/ ~fresh \/ pod.of = 0 \/ (pod.exit = NoExit /\ podSeen.of # 0)
    THEN podSeen
    ELSE pod

\* verificationVerdict: True only from an explicit "passed".
VerificationVerdict(blob) ==
    CASE blob = "passed" -> "True"
      [] blob \in {"failed", "incomplete", "notRun"} -> "False"
      [] OTHER -> "Unknown"

\* Mutant: a missing exit code is a clean exit.
OutcomeReasonNoCode(exit, finished) ==
    IF exit \in {0, NoExit} THEN "Succeeded"
    ELSE IF exit = 2 THEN "LimitReached"
    ELSE IF exit = 3 THEN "Refused"
    ELSE "Failed"

\* The harness exit code decides, the Sandbox's own reason only when there is
\* no code to read.
OutcomeReason(exit, finished) ==
    IF exit = 0 \/ (exit = NoExit /\ finished = "PodSucceeded") THEN "Succeeded"
    ELSE IF exit = 2 THEN "LimitReached"
    ELSE IF exit = 3 THEN "Refused"
    ELSE "Failed"

SetTerminalOutcome(version, exit, finished) ==
    LET reason == OutcomeReason(exit, finished) IN
    IF reason = "Succeeded"
    THEN [SetRunSucceeded(version, "True", reason) EXCEPT !.phase = "Succeeded"]
    ELSE FailRun(version, reason)

\* The Finished branch of updatePhaseFromSandbox.
FinishRun(version, p, finished) ==
    LET data == IF p.blob # NoBlob THEN p.blob ELSE version.terminationData IN
    SetTerminalOutcome(
        [version EXCEPT !.completionTime = now,
                        !.terminationData = data,
                        !.conditions.acpReady = "False",
                        !.conditions.verified = VerificationVerdict(data)],
        p.exit, finished)

\* updatePhaseFromSandbox on a Sandbox that reports Finished.
ReconcileFinished(ok) ==
    /\ Live /\ AgentReady /\ runSeen.sandboxName /\ sandboxSeen.finished # ""
    /\ \E fresh \in BOOLEAN :
         PatchRunStatus(FinishRun(runSeen, TerminalPod(fresh), sandboxSeen.finished), ok, FALSE)
    /\ UNCHANGED <<wakeAt, now, uids, clusterVars, historyVars>>

WatchesSandbox ==
    /\ Live /\ AgentReady /\ runSeen.sandboxName
    /\ sandboxSeen.uid # 0 /\ sandboxSeen.finished = ""

WithACPReady ==
    [runSeen EXCEPT !.conditions.acpReady = IF sandboxSeen.ready THEN "True" ELSE "False"]

\* A run that is Running stays so until its Sandbox finishes.
ReconcileStillRunning(ok) ==
    /\ WatchesSandbox /\ runSeen.phase = "Running"
    /\ PatchRunStatus(WithACPReady, ok, FALSE)
    /\ UNCHANGED <<wakeAt, now, uids, clusterVars, historyVars>>

\* podStartupProblem: a container waits on one of fatalWaitingReasons.
ReconcileStuck(ok) ==
    /\ WatchesSandbox /\ runSeen.phase # "Running" /\ podSeen.phase = "Stuck"
    /\ PatchRunStatus([FailRun(WithACPReady, "FatalWaiting") EXCEPT !.completionTime = now],
                      ok, FALSE)
    /\ UNCHANGED <<wakeAt, now, uids, clusterVars, historyVars>>

\* Mutant: Running is not one-way.
AwaitingPodAnyPhase == WatchesSandbox /\ podSeen.phase \notin {"Stuck", "Running"}

AwaitingPod ==
    /\ WatchesSandbox /\ runSeen.phase # "Running"
    /\ podSeen.phase \notin {"Stuck", "Running"}

Overdue == Deadline > 0 /\ now >= sandboxSeen.created + Deadline

\* The pod is not running and the startup deadline has elapsed.
ReconcileOverdue(ok) ==
    /\ AwaitingPod /\ Overdue
    /\ PatchRunStatus([FailRun(WithACPReady, "StartupDeadlineExceeded")
                         EXCEPT !.completionTime = now], ok, FALSE)
    /\ UNCHANGED <<wakeAt, now, uids, clusterVars, historyVars>>

\* Mutant: no RequeueAfter for the time left.
ReconcilePendingNoRequeue(ok) ==
    /\ AwaitingPod /\ ~Overdue
    /\ PatchRunStatus([SetRunSucceeded(WithACPReady, "Unknown", "PodNotRunning")
                         EXCEPT !.phase = "Pending"], ok, FALSE)
    /\ UNCHANGED <<wakeAt, now, uids, clusterVars, historyVars>>

\* The pod is not running yet: stay Pending; RequeueAfter the time left.
ReconcilePending(ok) ==
    /\ AwaitingPod /\ ~Overdue
    /\ PatchRunStatus([SetRunSucceeded(WithACPReady, "Unknown", "PodNotRunning")
                         EXCEPT !.phase = "Pending"], ok, FALSE)
    /\ wakeAt' = IF Deadline > 0 /\ ok /\ run.uid # 0
                 THEN EarlierOf(wakeAt, sandboxSeen.created + Deadline)
                 ELSE wakeAt
    /\ UNCHANGED <<now, uids, clusterVars, historyVars>>

\* The pod runs.
ReconcileRunning(ok) ==
    /\ WatchesSandbox /\ runSeen.phase # "Running" /\ podSeen.phase = "Running"
    /\ PatchRunStatus([SetRunSucceeded(WithACPReady, "Unknown", "Running")
                         EXCEPT !.phase = "Running"], ok, FALSE)
    /\ UNCHANGED <<wakeAt, now, uids, clusterVars, historyVars>>

Reconcile(ok) ==
    \/ ReconcileMissing(ok)       \/ ReconcileTTL(ok)
    \/ ReconcileAgentNotFound(ok) \/ ReconcileAgentNotReady(ok)
    \/ ReconcileInvalid(ok)       \/ ReconcileCreate(ok)
    \/ ReconcileSandboxMissing(ok) \/ ReconcileFinished(ok)
    \/ ReconcileStillRunning(ok)  \/ ReconcileStuck(ok)
    \/ ReconcileOverdue(ok)       \/ ReconcilePending(ok)
    \/ ReconcileRunning(ok)

\* A reconcile one of whose calls fails; it is tried again.
ReconcileFails ==
    /\ "apiError" \in Faults
    /\ Reconcile(FALSE) \/ ReconcileMountSource

-----------------------------------------------------------------------------
(* The watches of SetupWithManager, the work queue, and the clock.           *)

DeliverRun ==
    /\ runSeen # run
    /\ runSeen' = run
    /\ queued' = TRUE
    /\ UNCHANGED <<run, wakeAt, now, uids, clusterVars, historyVars>>

\* findRunsForAgent skips a run whose cached phase is terminal.
SyncAgent ==
    /\ agentSeen # agent
    /\ agentSeen' = agent
    /\ queued' = (queued \/ (runSeen.uid # 0 /\ ~IsTerminalPhase(runSeen.phase)))
    /\ UNCHANGED <<run, runSeen, wakeAt, now, uids, agent, sandbox, sandboxSeen, pod, podSeen, aux,
                   historyVars>>

\* Mutant: a Sandbox event does not enqueue its run.
SyncSandboxSilent ==
    /\ sandboxSeen # sandbox
    /\ sandboxSeen' = sandbox
    /\ UNCHANGED <<run, runSeen, queued, wakeAt, now, uids, agent, agentSeen, sandbox, pod, podSeen,
                   aux, historyVars>>

SyncSandbox ==
    /\ sandboxSeen # sandbox
    /\ sandboxSeen' = sandbox
    /\ queued' = TRUE
    /\ UNCHANGED <<run, runSeen, wakeAt, now, uids, agent, agentSeen, sandbox, pod, podSeen, aux,
                   historyVars>>

SyncPod ==
    /\ podSeen # pod
    /\ podSeen' = pod
    /\ queued' = TRUE
    /\ UNCHANGED <<run, runSeen, wakeAt, now, uids, agent, agentSeen, sandbox, sandboxSeen, pod, aux,
                   historyVars>>

Wake ==
    /\ wakeAt # 0 /\ now >= wakeAt
    /\ wakeAt' = 0
    /\ queued' = TRUE
    /\ UNCHANGED <<run, runSeen, now, uids, clusterVars, historyVars>>

\* A restarted manager fills its caches, then reconciles every object it lists.
Restart ==
    /\ "restart" \in Faults
    /\ runSeen' = run /\ agentSeen' = agent /\ sandboxSeen' = sandbox /\ podSeen' = pod
    /\ queued' = TRUE
    /\ wakeAt' = 0
    /\ UNCHANGED <<run, now, uids, agent, sandbox, pod, aux, historyVars>>

Tick ==
    /\ now < MaxTime
    /\ now' = now + 1
    /\ UNCHANGED <<run, runSeen, queued, wakeAt, uids, clusterVars, historyVars>>

-----------------------------------------------------------------------------
(* The other actors: the Agent controller, Agent Sandbox, the kubelet, the   *)
(* garbage collector and the user, as the reconciler's code expects them.    *)

controllerVars == <<runSeen, queued, wakeAt, now, agentSeen, sandboxSeen, podSeen>>

AgentChange ==
    /\ "agent" \in Faults
    /\ agent' \in AgentStates \ {agent}
    /\ UNCHANGED <<controllerVars, run, uids, sandbox, pod, aux, historyVars>>

\* Agent Sandbox keeps one pod, of the Sandbox's name, until it has finished.
PodCreate ==
    /\ sandbox.uid # 0 /\ sandbox.finished = "" /\ pod.of = 0
    /\ pod' = [NoPod EXCEPT !.of = sandbox.uid, !.phase = "Pending"]
    /\ UNCHANGED <<controllerVars, run, uids, agent, sandbox, aux, historyVars>>

\* An image that cannot be pulled, and the kubelet's next try.
PodStuck ==
    /\ pod.phase \in {"Pending", "Stuck"}
    /\ pod' = [pod EXCEPT !.phase = IF pod.phase = "Stuck" THEN "Pending" ELSE "Stuck"]
    /\ UNCHANGED <<controllerVars, run, uids, agent, sandbox, aux, historyVars>>

\* The container needs its Secret and its ConfigMap to start.
PodStart ==
    /\ pod.phase = "Pending" /\ aux.secret # 0 /\ aux.params # 0
    /\ pod' = [pod EXCEPT !.phase = "Running"]
    /\ started' = [started EXCEPT ![pod.of] = IF @ = 0 THEN now ELSE @]
    /\ UNCHANGED <<controllerVars, run, uids, agent, sandbox, aux, reports>>

PodExit ==
    /\ pod.phase = "Running"
    /\ \E code \in ExitCodes, blob \in Blobs :
         /\ pod' = [pod EXCEPT !.phase = IF code = 0 THEN "Succeeded" ELSE "Failed",
                               !.exit = code, !.blob = blob]
         /\ reports' = reports \cup {[uid |-> pod.of, exit |-> code, blob |-> blob]}
    /\ UNCHANGED <<controllerVars, run, uids, agent, sandbox, aux, started>>

\* The skill loader fails, or the node evicts the pod: no agent exit code.
PodLost ==
    /\ pod.phase \in {"Pending", "Running"}
    /\ pod' = [pod EXCEPT !.phase = "Failed"]
    /\ UNCHANGED <<controllerVars, run, uids, agent, sandbox, aux, historyVars>>

\* The Ready condition follows the pod's ACP readiness probe.
SandboxReady ==
    /\ sandbox.uid # 0
    /\ sandbox.ready \/ (pod.phase = "Running" /\ pod.of = sandbox.uid)
    /\ sandbox' = [sandbox EXCEPT !.ready = ~sandbox.ready]
    /\ UNCHANGED <<controllerVars, run, uids, agent, pod, aux, historyVars>>

SandboxFinish ==
    /\ sandbox.uid # 0 /\ sandbox.finished = ""
    /\ pod.of = sandbox.uid /\ pod.phase \in {"Succeeded", "Failed"}
    /\ sandbox' = [sandbox EXCEPT !.ready = FALSE,
                     !.finished = IF pod.phase = "Succeeded" THEN "PodSucceeded" ELSE "PodFailed"]
    /\ UNCHANGED <<controllerVars, run, uids, agent, pod, aux, historyVars>>

\* Owner-reference garbage collection goes by uid, one object at a time.
CollectOwned ==
    /\ \/ /\ sandbox.owned /\ sandbox.uid # run.uid
          /\ sandbox' = NoSandbox
          /\ UNCHANGED aux
       \/ /\ aux.secret \notin {0, run.uid}
          /\ aux' = [aux EXCEPT !.secret = 0]
          /\ UNCHANGED sandbox
       \/ /\ aux.params \notin {0, run.uid}
          /\ aux' = [aux EXCEPT !.params = 0]
          /\ UNCHANGED sandbox
    /\ UNCHANGED <<controllerVars, run, uids, agent, pod, historyVars>>

CollectPod ==
    /\ pod.of \notin {0, sandbox.uid}
    /\ pod' = NoPod
    /\ UNCHANGED <<controllerVars, run, uids, agent, sandbox, aux, historyVars>>

SandboxDelete ==
    /\ "deleteSandbox" \in Faults /\ sandbox.uid # 0
    /\ sandbox' = NoSandbox
    /\ UNCHANGED <<controllerVars, run, uids, agent, pod, aux, historyVars>>

PodDelete ==
    /\ "deletePod" \in Faults /\ pod.of # 0
    /\ pod' = NoPod
    /\ UNCHANGED <<controllerVars, run, uids, agent, sandbox, aux, historyVars>>

\* The child whose owner reference was removed, which the sweep is there for.
DropOwner ==
    /\ "dropOwner" \in Faults /\ sandbox.owned
    /\ sandbox' = [sandbox EXCEPT !.owned = FALSE]
    /\ UNCHANGED <<controllerVars, run, uids, agent, pod, aux, historyVars>>

UserDelete ==
    /\ "user" \in Faults /\ run.uid # 0
    /\ run' = NoRun
    /\ UNCHANGED <<controllerVars, uids, agent, sandbox, pod, aux, historyVars>>

UserCreate ==
    /\ "user" \in Faults /\ run.uid = 0 /\ uids < MaxUid
    /\ run' = NewRun(uids + 1)
    /\ uids' = uids + 1
    /\ UNCHANGED <<controllerVars, agent, sandbox, pod, aux, historyVars>>

-----------------------------------------------------------------------------
Environment ==
    \/ AgentChange \/ PodCreate \/ PodStuck \/ PodStart \/ PodExit \/ PodLost
    \/ SandboxReady \/ SandboxFinish \/ CollectOwned \/ CollectPod
    \/ SandboxDelete \/ PodDelete \/ DropOwner \/ UserDelete \/ UserCreate

Manager ==
    \/ DeliverRun \/ SyncAgent \/ SyncSandbox \/ SyncPod \/ Wake \/ Restart \/ Tick

Next ==
    \/ Reconcile(TRUE)
    \/ ReconcileFails
    \/ Manager
    \/ Environment

Spec == Init /\ [][Next]_vars

\* The work queue drains, a failed reconcile is retried until one succeeds,
\* watches deliver, requests for a later reconcile come due, Agent Sandbox
\* reports a finished pod and the garbage collector collects.  Nothing is
\* assumed of the user, of the Agent or of how long the agent takes.
Fairness ==
    /\ WF_vars(Reconcile(TRUE))
    /\ WF_vars(DeliverRun) /\ WF_vars(SyncAgent) /\ WF_vars(SyncSandbox) /\ WF_vars(SyncPod)
    /\ WF_vars(Wake) /\ WF_vars(Tick)
    /\ WF_vars(SandboxFinish) /\ WF_vars(CollectOwned) /\ WF_vars(CollectPod)

FairSpec == Spec /\ Fairness

-----------------------------------------------------------------------------
(* Properties.                                                               *)

\* Every variable stays in its range.
TypeOK ==
    /\ run \in RunVersions /\ runSeen \in RunVersions
    /\ queued \in BOOLEAN /\ wakeAt \in Nat /\ now \in 1..MaxTime /\ uids \in Uids
    /\ agent \in AgentStates /\ agentSeen \in AgentStates
    /\ sandbox \in Sandboxes /\ sandboxSeen \in Sandboxes
    /\ pod \in Pods /\ podSeen \in Pods
    /\ aux \in [params : 0..MaxUid, secret : 0..MaxUid]
    /\ started \in [Uids -> 0..MaxTime]
    /\ reports \subseteq [uid : Uids, exit : ExitCodes, blob : Blobs]

Reported(exit) == \E r \in reports : r.exit = exit

\* An outcome of setTerminalOutcome is what some agent container reported,
\* however stale the caches, whichever of pod and Sandbox was read, and
\* whatever was deleted, restarted or retried in between.
OutcomeSound ==
    /\ run.conditions.succeeded = "True" => Reported(0)
    /\ run.conditions.reason = "LimitReached" => Reported(2)
    /\ run.conditions.reason = "Refused" => Reported(3)

\* setRunVerified: "silence must never render as green".
VerifiedSound ==
    run.conditions.verified = "True" => \E r \in reports : r.blob = "passed"

\* What a run reports is what its agent container reported: outcome and verdict.
ResultSound == OutcomeSound /\ VerifiedSound

\* The two signals a client may act on agree: the phase and the Succeeded
\* condition name the same outcome, and there is one exactly when it is final.
PhaseMatchesOutcome ==
    /\ run.phase = "Succeeded" <=> run.conditions.succeeded = "True"
    /\ run.phase = "Failed" <=> run.conditions.succeeded = "False"

\* A terminal run is never revisited: its outcome, verdict and termination
\* data stay what they were for as long as the object exists.
TerminalStable ==
    [][IsTerminalPhase(run.phase) /\ run'.uid = run.uid =>
         /\ run'.phase = run.phase
         /\ run'.conditions = run.conditions
         /\ run'.terminationData = run.terminationData]_vars

Expired ==
    /\ IsTerminalPhase(run.phase) /\ HasTTL
    /\ run.completionTime # 0 /\ now >= run.completionTime + TTL

\* Where users delete nothing, a run disappears only when it has been terminal
\* for its TTL: the reconciler deletes no other.
DeletesOnlyExpired == [][run.uid # 0 /\ run'.uid = 0 => Expired]_vars

\* A Sandbox that nobody deletes is never declared missing by its run, however
\* far its informer is behind the status patch that names it.
NoSpuriousNotFound == run.conditions.reason # "SandboxNotFound"

\* Not an invariant (README, scenario): an agent outcome belongs to this object,
\* not to an earlier one of its name.
OutcomeOwned ==
    run.conditions.succeeded = "True" => \E r \in reports : r.uid = run.uid /\ r.exit = 0

\* Not an invariant (README, scenario): a run that failed on its image or its
\* startup deadline never ran its agent.
NeverRan ==
    run.conditions.reason \in {"FatalWaiting", "StartupDeadlineExceeded"} => started[run.uid] = 0

Lifecycle ==
    INSTANCE RunLifecycle WITH
        state <- IF run.uid = 0 THEN "absent" ELSE IF run.phase = "" THEN "Pending" ELSE run.phase,
        worked <- \E r \in reports : r.uid = run.uid /\ r.exit = 0

\* The run keeps the promise of RunLifecycle.
RefinesLifecycle == Lifecycle!Spec

Ended == run.uid = 0 \/ IsTerminalPhase(run.phase)

\* What Agent Sandbox reports finished is recorded on the run, unless the Agent
\* stays not Ready or somebody deletes the Sandbox first.
FinishedIsRecorded ==
    <>[](agent # "notReady") =>
        ((sandbox.finished # "" /\ sandbox.uid = run.uid) ~> (Ended \/ sandbox.finished = ""))

\* A run whose pod does not start leaves Pending when its deadline has passed
\* (if the clock gets there), restart of the manager included.
DeadlineEnforced ==
    <>[](agent # "notReady") =>
        ((run.phase = "Pending" /\ sandbox.uid = run.uid /\ sandbox.created + Deadline <= MaxTime)
            ~> (Ended \/ run.phase = "Running" \/ sandbox.created + Deadline > MaxTime))

\* A terminal run with a TTL is deleted (unless the clock's bound cuts it off).
ExpiredIsDeleted ==
    (HasTTL /\ IsTerminalPhase(run.phase))
        ~> (run.uid = 0 \/ (run.completionTime # 0 /\ run.completionTime + TTL > MaxTime))

\* A run that is gone leaves nothing behind, ownerless children included.
OrphansCollected ==
    run.uid = 0 ~> (run.uid # 0 \/ (sandbox.uid = 0 /\ pod.of = 0 /\ aux.secret = 0 /\ aux.params = 0))

=============================================================================
