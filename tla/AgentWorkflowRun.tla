-------------------------- MODULE AgentWorkflowRun --------------------------
(***************************************************************************)
(* The AgentWorkflowRun reconciler (agentworkflowrun_controller.go): one    *)
(* workflow run creating one AgentRun per stage, one after the other, from  *)
(* a snapshot of its AgentWorkflow.  The stage runs behave as RunLifecycle  *)
(* says, which AgentRun implements.  Caches trail the API server as in      *)
(* AgentRun.                                                                *)
(***************************************************************************)
EXTENDS Naturals

CONSTANTS
    NumStages,      \* stages of the AgentWorkflow
    MaxVersion,     \* versions of its definition, the edits made while it runs
    BadVersions,    \* versions whose params or guide do not resolve (configError)
    MaxUid,         \* workflow runs of this name created one after the other
    ReadsOwnWrites, \* whether a reconcile sees the patches of the ones before it
    HasTTL,         \* whether effectiveTTL resolves to a lifetime
    Faults          \* what may go wrong, or be changed, around the reconciler

FaultKinds == {"workflow", "agent", "apiError", "restart", "user", "deleteChild", "childTTL",
               "dropOwner"}

ASSUME ConstantsAssumption ==
    /\ NumStages \in Nat \ {0} /\ MaxVersion \in Nat \ {0} /\ MaxUid \in Nat \ {0}
    /\ BadVersions \subseteq 1..MaxVersion
    /\ ReadsOwnWrites \in BOOLEAN /\ HasTTL \in BOOLEAN
    /\ Faults \subseteq FaultKinds

VARIABLES
    run,           \* the AgentWorkflowRun at the API server; uid 0 when there is none
    runSeen,       \* the AgentWorkflowRun in the cache
    queued,        \* its key is in the work queue
    timer,         \* a RequeueAfter of its key is pending, for the earliest TTL asked for
    elapsed,       \* the uids whose lifetime after their end has elapsed
    uids,          \* objects of this name created so far
    workflow,      \* the AgentWorkflow at the API server
    workflowSeen,  \* the AgentWorkflow in the cache
    agentSeen,     \* the Agent of the current stage is in the cache
    child,         \* the AgentRun of each stage at the API server
    childSeen,     \* the AgentRun of each stage in the cache
    succeeded      \* history: for each uid, the stages whose AgentRun reached Succeeded

vars == <<run, runSeen, queued, timer, elapsed, uids, workflow, workflowSeen, agentSeen,
          child, childSeen, succeeded>>

-----------------------------------------------------------------------------
StageIds == 1..NumStages
Versions == 1..MaxVersion
Phases == {"", "Pending", "Running", "Succeeded", "Failed"}
ChildStates == Phases \cup {"absent"}
Reasons == {"", "WorkflowNotFound", "WorkflowNotReady", "Succeeded", "InvalidParams",
            "AgentRunCreationFailed", "StageRunning", "AgentRunDeleted", "StageSucceeded",
            "StageFailed"}

\* status.stages[i]: named says that agentRunName is set, def is the version
\* the stage's definition was snapshotted from (0 before the snapshot).
StageStatuses == [phase : Phases \ {""}, named : BOOLEAN, def : 0..MaxVersion]
Runs == [uid : 0..MaxUid, phase : Phases, stages : [StageIds -> StageStatuses], reason : Reasons]

Workflows == [state : {"absent", "notReady", "ready"}, version : Versions]

\* owner is the uid of the workflow run in the controller reference, which
\* may have been removed (owned).
Children == [owner : 0..MaxUid, owned : BOOLEAN, state : ChildStates]

NoChild == [owner |-> 0, owned |-> FALSE, state |-> "absent"]

PendingStages(version) ==
    [i \in StageIds |-> [phase |-> "Pending", named |-> FALSE, def |-> version]]

NewRun(u) == [uid |-> u, phase |-> "", stages |-> PendingStages(0), reason |-> ""]
NoRun == NewRun(0)

IsTerminalPhase(phase) == phase \in {"Succeeded", "Failed"}

Init ==
    /\ run = NewRun(1) /\ runSeen = run
    /\ queued = TRUE /\ timer = FALSE /\ elapsed = {}
    /\ uids = 1
    /\ workflow \in [state : {"absent", "notReady", "ready"}, version : {1}]
    /\ workflowSeen \in {workflow, [workflow EXCEPT !.state = "absent"]}
    /\ agentSeen \in {TRUE, "agent" \notin Faults}
    /\ child = [i \in StageIds |-> NoChild] /\ childSeen = child
    /\ succeeded = [u \in 0..MaxUid |-> {}]

-----------------------------------------------------------------------------
(* patchRunStatus, as in AgentRun; stages is a list and travels whole.       *)

Merged(original, changed, onto) == IF changed # original THEN changed ELSE onto

MergePatch(original, changed, onto) ==
    LET phase == Merged(original.phase, changed.phase, onto.phase) IN
    [uid |-> onto.uid,
     phase |-> IF phase = "" THEN "Pending" ELSE phase,
     stages |-> Merged(original.stages, changed.stages, onto.stages),
     reason |-> Merged(original.reason, changed.reason, onto.reason)]

Publish(version, requeue) ==
    /\ run' = version
    /\ runSeen' = IF ReadsOwnWrites THEN version ELSE runSeen
    /\ queued' = (requeue \/ ReadsOwnWrites)

PatchRunStatus(changed, ok, requeue) ==
    LET merged == MergePatch(runSeen, changed, run) IN
    \/ /\ ok /\ run.uid # 0 /\ merged # run
       /\ Publish(merged, requeue)
    \/ /\ ok /\ run.uid # 0 /\ merged = run
       /\ queued' = requeue
       /\ UNCHANGED <<run, runSeen>>
    \/ /\ ~ok \/ run.uid = 0
       /\ queued' = TRUE
       /\ UNCHANGED <<run, runSeen>>

-----------------------------------------------------------------------------
(* Reconcile, one action per way through it.                                 *)

Reconciling == queued /\ runSeen.uid # 0

Live == Reconciling /\ ~IsTerminalPhase(runSeen.phase)
WorkflowReady == workflowSeen.state = "ready"

\* Mutant: the garbage collector is trusted to remove every stage run.
ReconcileMissingNoSweep(ok) ==
    /\ queued /\ runSeen.uid = 0
    /\ queued' = (run.uid # 0 \/ ~ok)
    /\ UNCHANGED <<run, runSeen, timer, elapsed, uids, workflow, workflowSeen, agentSeen, child, childSeen,
                   succeeded>>

\* The run is in no cache: confirm with the API server, then sweep the stage
\* runs the cache lists, up to the first delete that fails.
ReconcileMissing(ok) ==
    /\ queued /\ runSeen.uid = 0
    /\ \/ /\ run.uid # 0
          /\ UNCHANGED <<queued, child>>
       \/ /\ run.uid = 0
          /\ \E calls \in 0..NumStages :
               /\ ok <=> calls = NumStages
               /\ child' = [i \in StageIds |->
                              IF i <= calls /\ childSeen[i].state # "absent" THEN NoChild ELSE child[i]]
          /\ queued' = ~ok
    /\ UNCHANGED <<run, runSeen, timer, elapsed, uids, workflow, workflowSeen, agentSeen, childSeen, succeeded>>

\* reconcileTTL.  Every terminal phase is stamped with its completion time by
\* the patch that sets it, so the anchor is always there.  What has elapsed is
\* the lifetime of the copy read; the Delete goes by name.
ReconcileTTL(ok) ==
    /\ Reconciling /\ IsTerminalPhase(runSeen.phase)
    /\ \/ /\ ~HasTTL
          /\ queued' = FALSE
          /\ UNCHANGED <<run, runSeen, timer>>
       \/ /\ HasTTL /\ runSeen.uid \notin elapsed
          /\ queued' = FALSE
          /\ timer' = TRUE
          /\ UNCHANGED <<run, runSeen>>
       \/ /\ HasTTL /\ runSeen.uid \in elapsed
          /\ IF ok /\ run.uid # 0 THEN Publish(NoRun, FALSE)
             ELSE queued' = ~ok /\ UNCHANGED <<run, runSeen>>
          /\ UNCHANGED timer
    /\ UNCHANGED <<elapsed, uids, workflow, workflowSeen, agentSeen, child, childSeen, succeeded>>

ReconcileWorkflowNotFound(ok) ==
    /\ Live /\ workflowSeen.state = "absent"
    /\ PatchRunStatus([runSeen EXCEPT !.phase = "Failed", !.reason = "WorkflowNotFound"], ok, FALSE)
    /\ UNCHANGED <<timer, elapsed, uids, workflow, workflowSeen, agentSeen, child, childSeen, succeeded>>

ReconcileWorkflowNotReady(ok) ==
    /\ Live /\ workflowSeen.state = "notReady"
    /\ PatchRunStatus([runSeen EXCEPT !.reason = "WorkflowNotReady"], ok, FALSE)
    /\ UNCHANGED <<timer, elapsed, uids, workflow, workflowSeen, agentSeen, child, childSeen, succeeded>>

\* Mutant: the plan follows the live AgentWorkflow.
PlanLive ==
    IF runSeen.stages = PendingStages(0) THEN PendingStages(workflowSeen.version)
    ELSE [i \in StageIds |-> [runSeen.stages[i] EXCEPT !.def = workflowSeen.version]]

\* status.stages as this reconcile works on it: the snapshot, taken now if the
\* cached status has none.
Plan ==
    IF runSeen.stages = PendingStages(0) THEN PendingStages(workflowSeen.version) ELSE runSeen.stages

\* Mutant: a stage whose AgentRun is recorded counts as done.
FindCurrentStageIndexNamed(stages) ==
    CHOOSE i \in 1..(NumStages + 1) :
        /\ i \in StageIds => ~stages[i].named
        /\ \A j \in 1..(i - 1) : stages[j].named

FindCurrentStageIndex(stages) ==
    CHOOSE i \in 1..(NumStages + 1) :
        /\ i \in StageIds => stages[i].phase # "Succeeded"
        /\ \A j \in 1..(i - 1) : stages[j].phase = "Succeeded"

ReconcileComplete(ok) ==
    /\ Live /\ WorkflowReady
    /\ FindCurrentStageIndex(Plan) = NumStages + 1
    /\ PatchRunStatus([runSeen EXCEPT !.stages = Plan, !.phase = "Succeeded",
                                      !.reason = "Succeeded"], ok, FALSE)
    /\ UNCHANGED <<timer, elapsed, uids, workflow, workflowSeen, agentSeen, child, childSeen, succeeded>>

\* Stage i is the current one and has no AgentRun recorded.
NeedsRun(i) ==
    /\ Live /\ WorkflowReady
    /\ i = FindCurrentStageIndex(Plan)
    /\ ~Plan[i].named

\* A permanent configError from createAgentRunForStage.
ReconcileInvalid(ok) ==
    /\ \E i \in StageIds :
         /\ NeedsRun(i) /\ agentSeen /\ Plan[i].def \in BadVersions
         /\ PatchRunStatus([runSeen EXCEPT !.stages = [Plan EXCEPT ![i].phase = "Failed"],
                                           !.phase = "Failed", !.reason = "InvalidParams"], ok, FALSE)
    /\ UNCHANGED <<timer, elapsed, uids, workflow, workflowSeen, agentSeen, child, childSeen, succeeded>>

WithRunNamed(i) ==
    [runSeen EXCEPT !.stages = [Plan EXCEPT ![i].named = TRUE, ![i].phase = "Pending"],
                    !.phase = "Running", !.reason = "StageRunning"]

\* Mutant: any workflow run of this name will do.
IsOwnedByName(i) == childSeen[i].owned

\* isOwnedBy, on the AgentRun the cache holds.
IsOwnedBy(i) == childSeen[i].owned /\ childSeen[i].owner = runSeen.uid

\* Mutant: the AgentRun has a generated name, so that none is in the way.
ReconcileCreateAnyName(ok) ==
    /\ \E i \in StageIds :
         /\ NeedsRun(i) /\ agentSeen /\ Plan[i].def \notin BadVersions
         /\ child' = [child EXCEPT ![i] = [owner |-> runSeen.uid, owned |-> TRUE, state |-> ""]]
         /\ PatchRunStatus(WithRunNamed(i), ok, FALSE)
    /\ UNCHANGED <<timer, elapsed, uids, workflow, workflowSeen, agentSeen, childSeen, succeeded>>

\* createAgentRunForStage: create the stage's AgentRun, or accept the one an
\* earlier reconcile of this run created; then record its name.
ReconcileCreate(ok) ==
    /\ \E i \in StageIds :
         /\ NeedsRun(i) /\ agentSeen /\ Plan[i].def \notin BadVersions
         /\ \/ /\ child[i].state = "absent"
               /\ child' = [child EXCEPT ![i] = [owner |-> runSeen.uid, owned |-> TRUE, state |-> ""]]
            \/ /\ child[i].state # "absent" /\ IsOwnedBy(i)
               /\ UNCHANGED child
         /\ PatchRunStatus(WithRunNamed(i), ok, FALSE)
    /\ UNCHANGED <<timer, elapsed, uids, workflow, workflowSeen, agentSeen, childSeen, succeeded>>

\* A transient error of createAgentRunForStage: the stage's Agent is not in the
\* cache, a call fails, or the name is taken by an AgentRun that is not in the
\* cache or not this run's.  The status, snapshot included, is patched before
\* the error is returned.
ReconcileCreateFails(ok) ==
    /\ \E i \in StageIds, patched \in BOOLEAN :
         /\ NeedsRun(i)
         /\ \/ ~ok
            \/ patched /\ ~agentSeen
            \/ patched /\ Plan[i].def \notin BadVersions /\ child[i].state # "absent" /\ ~IsOwnedBy(i)
         /\ PatchRunStatus([runSeen EXCEPT !.stages = Plan, !.phase = "Running",
                                           !.reason = "AgentRunCreationFailed"], patched, TRUE)
    /\ UNCHANGED <<timer, elapsed, uids, workflow, workflowSeen, agentSeen, child, childSeen, succeeded>>

WatchesRun(i) ==
    /\ Live /\ WorkflowReady
    /\ i = FindCurrentStageIndex(Plan)
    /\ Plan[i].named

\* The AgentRun of the current stage is not in the cache.
ReconcileChildMissing(ok) ==
    /\ \E i \in StageIds :
         /\ WatchesRun(i) /\ childSeen[i].state = "absent"
         /\ PatchRunStatus([runSeen EXCEPT !.stages = [Plan EXCEPT ![i].phase = "Failed"],
                                           !.phase = "Failed", !.reason = "AgentRunDeleted"], ok, FALSE)
    /\ UNCHANGED <<timer, elapsed, uids, workflow, workflowSeen, agentSeen, child, childSeen, succeeded>>

\* Mutant: an absent phase is mirrored as well.
WithMirrorVerbatim(i, phase, reason) ==
    [runSeen EXCEPT !.stages = [Plan EXCEPT ![i].phase = childSeen[i].state],
                    !.phase = phase, !.reason = reason]

\* Mutant: the outcome of the stage is not taken over.
WithMirrorKeepsPhase(i, phase, reason) ==
    [runSeen EXCEPT !.stages = Plan, !.phase = phase, !.reason = reason]

\* The current stage's phase mirrors its AgentRun's, once that has one.
WithMirror(i, phase, reason) ==
    [runSeen EXCEPT
        !.stages = IF childSeen[i].state = "" THEN Plan
                   ELSE [Plan EXCEPT ![i].phase = childSeen[i].state],
        !.phase = phase, !.reason = reason]

\* The Succeeded condition of the stage's AgentRun, which names the outcome
\* its phase does (PhaseMatchesOutcome of AgentRun), decides.
ReconcileStage(ok) ==
    /\ \E i \in StageIds :
         /\ WatchesRun(i) /\ childSeen[i].state # "absent"
         /\ \/ /\ childSeen[i].state = "Succeeded"
               /\ PatchRunStatus(WithMirror(i, "Running", "StageSucceeded"), ok, FALSE)
            \/ /\ childSeen[i].state = "Failed"
               /\ PatchRunStatus(WithMirror(i, "Failed", "StageFailed"), ok, FALSE)
            \/ /\ ~IsTerminalPhase(childSeen[i].state)
               /\ PatchRunStatus(WithMirror(i, "Running", "StageRunning"), ok, FALSE)
    /\ UNCHANGED <<timer, elapsed, uids, workflow, workflowSeen, agentSeen, child, childSeen, succeeded>>

Reconcile(ok) ==
    \/ ReconcileMissing(ok)          \/ ReconcileTTL(ok)
    \/ ReconcileWorkflowNotFound(ok) \/ ReconcileWorkflowNotReady(ok)
    \/ ReconcileComplete(ok)         \/ ReconcileInvalid(ok)
    \/ ReconcileCreate(ok)           \/ ReconcileCreateFails(ok)
    \/ ReconcileChildMissing(ok)     \/ ReconcileStage(ok)

-----------------------------------------------------------------------------
(* The watches of SetupWithManager, the work queue and the TTL timer.        *)

DeliverRun ==
    /\ runSeen # run
    /\ runSeen' = run
    /\ queued' = TRUE
    /\ UNCHANGED <<run, timer, elapsed, uids, workflow, workflowSeen, agentSeen, child, childSeen, succeeded>>

\* findRunsForWorkflow skips a run whose cached phase is terminal.
SyncWorkflow ==
    /\ workflowSeen # workflow
    /\ workflowSeen' = workflow
    /\ queued' = (queued \/ (runSeen.uid # 0 /\ ~IsTerminalPhase(runSeen.phase)))
    /\ UNCHANGED <<run, runSeen, timer, elapsed, uids, workflow, agentSeen, child, childSeen, succeeded>>

SyncChild ==
    /\ \E i \in StageIds :
         /\ childSeen[i] # child[i]
         /\ childSeen' = [childSeen EXCEPT ![i] = child[i]]
    /\ queued' = TRUE
    /\ UNCHANGED <<run, runSeen, timer, elapsed, uids, workflow, workflowSeen, agentSeen, child, succeeded>>

\* Time passes for a finished run, or for the cached copy of one that is gone.
\* A run that a stale copy ended a second time keeps its first end here.
Elapse ==
    /\ HasTTL
    /\ \E v \in {run, runSeen} :
         /\ v.uid \notin elapsed /\ IsTerminalPhase(v.phase)
         /\ elapsed' = elapsed \cup {v.uid}
    /\ UNCHANGED <<run, runSeen, queued, timer, uids, workflow, workflowSeen, agentSeen, child, childSeen,
                   succeeded>>

Wake ==
    /\ timer /\ elapsed # {}
    /\ timer' = FALSE
    /\ queued' = TRUE
    /\ UNCHANGED <<run, runSeen, elapsed, uids, workflow, workflowSeen, agentSeen, child, childSeen, succeeded>>

\* A restarted manager fills its caches, then reconciles every object it lists.
Restart ==
    /\ "restart" \in Faults
    /\ runSeen' = run /\ workflowSeen' = workflow /\ childSeen' = child
    /\ queued' = TRUE /\ timer' = FALSE
    /\ UNCHANGED <<run, elapsed, uids, workflow, agentSeen, child, succeeded>>

-----------------------------------------------------------------------------
(* The other actors: whoever edits the AgentWorkflow, its controller, the    *)
(* AgentRun reconciler, the garbage collector and the user.                  *)

controllerVars == <<runSeen, queued, timer, elapsed, workflowSeen, agentSeen, childSeen>>

WorkflowChange ==
    /\ "workflow" \in Faults
    /\ \/ workflow' \in [state : {"absent", "notReady", "ready"}, version : {workflow.version}] \ {workflow}
       \/ /\ workflow.version < MaxVersion
          /\ workflow' = [workflow EXCEPT !.version = @ + 1]
    /\ UNCHANGED <<controllerVars, run, uids, child, succeeded>>

\* The Agents come and go, each with its own informer; no event of theirs
\* enqueues the workflow run.
AgentChange ==
    /\ "agent" \in Faults
    /\ agentSeen' = ~agentSeen
    /\ UNCHANGED <<runSeen, queued, timer, elapsed, workflowSeen, childSeen, run, uids, workflow,
                   child, succeeded>>

\* One step of a stage run, as RunLifecycle allows.
ChildStep ==
    /\ \E i \in StageIds, state \in {"Pending", "Running", "Succeeded", "Failed"} :
         /\ \/ child[i].state = "" /\ state # "Running"
            \/ child[i].state = "Pending" /\ state # "Pending"
            \/ child[i].state = "Running" /\ IsTerminalPhase(state)
         /\ child' = [child EXCEPT ![i].state = state]
         /\ succeeded' = IF state = "Succeeded"
                         THEN [succeeded EXCEPT ![child[i].owner] = @ \cup {i}] ELSE succeeded
    /\ UNCHANGED <<controllerVars, run, uids, workflow>>

\* A finished stage run reaches the end of its own TTL.
ChildExpires ==
    /\ "childTTL" \in Faults
    /\ \E i \in StageIds :
         /\ IsTerminalPhase(child[i].state)
         /\ child' = [child EXCEPT ![i] = NoChild]
    /\ UNCHANGED <<controllerVars, run, uids, workflow, succeeded>>

ChildDelete ==
    /\ "deleteChild" \in Faults
    /\ \E i \in StageIds :
         /\ child[i].state # "absent"
         /\ child' = [child EXCEPT ![i] = NoChild]
    /\ UNCHANGED <<controllerVars, run, uids, workflow, succeeded>>

DropOwner ==
    /\ "dropOwner" \in Faults
    /\ \E i \in StageIds :
         /\ child[i].owned
         /\ child' = [child EXCEPT ![i].owned = FALSE]
    /\ UNCHANGED <<controllerVars, run, uids, workflow, succeeded>>

\* Owner-reference garbage collection goes by uid.
Collect ==
    /\ \E i \in StageIds :
         /\ child[i].owned /\ child[i].owner # run.uid
         /\ child' = [child EXCEPT ![i] = NoChild]
    /\ UNCHANGED <<controllerVars, run, uids, workflow, succeeded>>

UserDelete ==
    /\ "user" \in Faults /\ run.uid # 0
    /\ run' = NoRun
    /\ UNCHANGED <<controllerVars, uids, workflow, child, succeeded>>

UserCreate ==
    /\ "user" \in Faults /\ run.uid = 0 /\ uids < MaxUid
    /\ run' = NewRun(uids + 1)
    /\ uids' = uids + 1
    /\ UNCHANGED <<controllerVars, workflow, child, succeeded>>

-----------------------------------------------------------------------------
Manager == DeliverRun \/ SyncWorkflow \/ SyncChild \/ Elapse \/ Wake \/ Restart

Environment ==
    \/ WorkflowChange \/ AgentChange \/ ChildStep \/ ChildExpires \/ ChildDelete \/ DropOwner \/ Collect
    \/ UserDelete \/ UserCreate

Next ==
    \/ Reconcile(TRUE)
    \/ "apiError" \in Faults /\ Reconcile(FALSE)
    \/ Manager
    \/ Environment

Spec == Init /\ [][Next]_vars

\* The manager's own fairness as in AgentRun; stage runs end, which is what
\* AgentRun's liveness properties and the harness's limits are for.
Fairness ==
    /\ WF_vars(Reconcile(TRUE))
    /\ WF_vars(DeliverRun) /\ WF_vars(SyncWorkflow) /\ WF_vars(SyncChild)
    /\ WF_vars(Elapse) /\ WF_vars(Wake)
    /\ WF_vars(ChildStep) /\ WF_vars(Collect)

FairSpec == Spec /\ Fairness

-----------------------------------------------------------------------------
(* Properties.                                                               *)

\* Every variable stays in its range.
TypeOK ==
    /\ run \in Runs /\ runSeen \in Runs
    /\ queued \in BOOLEAN /\ timer \in BOOLEAN /\ elapsed \subseteq 0..MaxUid
    /\ uids \in 1..MaxUid
    /\ workflow \in Workflows /\ workflowSeen \in Workflows /\ agentSeen \in BOOLEAN
    /\ child \in [StageIds -> Children] /\ childSeen \in [StageIds -> Children]
    /\ succeeded \in [0..MaxUid -> SUBSET StageIds]

Exists(i) == child[i].state # "absent"
Active(i) == Exists(i) /\ ~IsTerminalPhase(child[i].state)

\* An AgentRun of stage i succeeded for the workflow run with this uid, or for
\* an earlier one of the name.
SucceededBy(uid, i) == \E u \in 1..uid : i \in succeeded[u]

\* A stage's AgentRun exists only after an AgentRun of every earlier stage has
\* succeeded, of the same workflow run or of one it replaced: a failed, refused
\* or limit-stopped stage stops the workflow.
StagesInOrder ==
    \A i \in StageIds : Exists(i) => \A j \in 1..(i - 1) : SucceededBy(child[i].owner, j)

\* "All stages completed successfully" (Reconcile, the condition of a workflow
\* run that succeeded): each stage had an AgentRun, created for this very object,
\* that did.  Said of the first workflow run of its name: whatever is deleted,
\* expires or lags, no copy can credit it with a stage that was not its own.
SuccessMeansAllStages ==
    run.phase = "Succeeded" /\ run.uid = 1 => succeeded[run.uid] = StageIds

\* Not a property (README, scenario): the same of a workflow run created again
\* under the name of a deleted one.
SuccessIsOwn == run.phase = "Succeeded" => succeeded[run.uid] = StageIds

\* Stages share a branch: no two stage runs are at work at the same time.
OneStageAtATime == \A i, j \in StageIds : Active(i) /\ Active(j) => i = j

\* A stage that succeeded is not run again for the same workflow run: "duplicate
\* creation on status-patch conflict is caught by AlreadyExists"
\* (createAgentRunForStage), also when the status that names the AgentRun was not
\* recorded, or not seen, before the stage was over.  Not so when the AgentRun is
\* deleted, or expires, before it is recorded (README, scenario).
StageNotRepeated ==
    [][\A i \in StageIds :
         /\ child[i].state # "" /\ child'[i].state = "" /\ child'[i].owner = run.uid
         => i \notin succeeded[run.uid]]_vars

\* Once taken, the snapshot does not change under a running workflow.
SnapshotStable ==
    [][\A i \in StageIds : run.stages[i].def # 0 /\ run'.uid = run.uid
                             => run'.stages[i].def = run.stages[i].def]_vars

\* createAgentRunForStage takes no AgentRun of another workflow run for its own.
AdoptsOnlyOwn ==
    [][\A i \in StageIds :
         /\ run'.uid = run.uid /\ runSeen.uid = run.uid
         /\ ~run.stages[i].named /\ run'.stages[i].named
         => child'[i].owner = run.uid]_vars

\* Not a property (README, scenario): the workflow run fails with AgentRunDeleted
\* only if its AgentRun is gone.
DeletedIsReal ==
    [][run'.reason = "AgentRunDeleted" /\ run.reason # run'.reason
         => \E i \in StageIds : run'.stages[i].phase = "Failed" /\ ~Exists(i)]_vars

\* Not a property (README, scenario): a workflow run that has ended creates no
\* further stage run.
NothingAfterTheEnd ==
    [][IsTerminalPhase(run.phase) => \A i \in StageIds : Exists(i)' => Exists(i)]_vars

Lifecycle ==
    INSTANCE RunLifecycle WITH
        state <- IF run.uid = 0 THEN "absent" ELSE IF run.phase = "" THEN "Pending" ELSE run.phase,
        worked <- run.uid # 0 /\ succeeded[run.uid] = StageIds

\* The workflow run keeps the promise of RunLifecycle, its work being that
\* every stage has succeeded.
RefinesLifecycle == Lifecycle!Spec

Ended == run.uid = 0 \/ IsTerminalPhase(run.phase)

\* A workflow run ends, unless its AgentWorkflow stays not Ready, the Agent of a
\* stage stays away, or someone takes a stage run from it, which
\* createAgentRunForStage then refuses.
EventuallyEnds ==
    <>[](workflow.state # "notReady" /\ agentSeen) /\ [](\A i \in StageIds : Exists(i) => child[i].owned)
        => <>Ended

\* A workflow run that is gone leaves no stage run behind, ownerless or not.
ChildrenCollected == run.uid = 0 ~> (run.uid # 0 \/ \A i \in StageIds : ~Exists(i))

=============================================================================
