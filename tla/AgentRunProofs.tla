--------------------------- MODULE AgentRunProofs ---------------------------
(* Proofs about AgentRun, for every value of its constants.                  *)
EXTENDS AgentRun, TLAPS

-----------------------------------------------------------------------------
(* What the operators on a run's status return.                              *)

Statuses == {"None", "Unknown", "True", "False"}

\* setRunSucceeded touches the Succeeded condition alone.
LEMMA SetRunSucceededFact ==
    ASSUME NEW v \in RunVersions, NEW status \in Statuses, NEW reason \in Reasons, NEW w,
           w = SetRunSucceeded(v, status, reason)
    PROVE  /\ w \in RunVersions
           /\ w.conditions.succeeded = status /\ w.conditions.reason = reason
           /\ w.conditions.verified = v.conditions.verified
           /\ w.phase = v.phase /\ w.terminationData = v.terminationData
BY DEF RunVersions, Statuses, SetRunSucceeded

\* Setting the phase leaves the rest of the status alone.
LEMMA SetPhaseFact ==
    ASSUME NEW v \in RunVersions, NEW phase \in Phases, NEW w, w = [v EXCEPT !.phase = phase]
    PROVE  /\ w \in RunVersions /\ w.phase = phase
           /\ w.conditions = v.conditions /\ w.terminationData = v.terminationData
BY DEF RunVersions

\* A failed run carries Succeeded=False with its reason, and the Failed phase.
LEMMA FailRunFact ==
    ASSUME NEW v \in RunVersions, NEW reason \in Reasons, NEW w, w = FailRun(v, reason)
    PROVE  /\ w \in RunVersions
           /\ w.conditions.succeeded = "False" /\ w.conditions.reason = reason
           /\ w.conditions.verified = v.conditions.verified
           /\ w.phase = "Failed" /\ w.terminationData = v.terminationData
<1>. DEFINE s == SetRunSucceeded(v, "False", reason)
<1>0. "False" \in Statuses /\ "Failed" \in Phases
    BY DEF Statuses, Phases
<1>1. /\ s \in RunVersions
      /\ s.conditions.succeeded = "False" /\ s.conditions.reason = reason
      /\ s.conditions.verified = v.conditions.verified
      /\ s.terminationData = v.terminationData
    BY <1>0, SetRunSucceededFact
<1>2. w = [s EXCEPT !.phase = "Failed"]
    BY DEF FailRun
<1>. HIDE DEF s
<1>. QED BY <1>0, <1>1, <1>2, SetPhaseFact

\* A merge patch of well-formed versions is well-formed, and each of its
\* fields comes from the patch or from the API server.
LEMMA MergePatchFact ==
    ASSUME NEW original \in RunVersions, NEW changed \in RunVersions, NEW onto \in RunVersions,
           NEW m, m = MergePatch(original, changed, onto)
    PROVE  /\ m \in RunVersions
           /\ m.uid = onto.uid
           /\ m.conditions \in {changed.conditions, onto.conditions}
           /\ m.terminationData \in {changed.terminationData, onto.terminationData}
BY DEF MergePatch, Merged, RunVersions, Phases

\* patchRunStatus keeps the run and its cached copy well-formed.
LEMMA PatchType ==
    ASSUME TypeOK, NEW changed \in RunVersions, NEW ok \in BOOLEAN, NEW requeue \in BOOLEAN,
           PatchRunStatus(changed, ok, requeue)
    PROVE  run' \in RunVersions /\ runSeen' \in RunVersions /\ queued' \in BOOLEAN
<1>1. MergePatch(runSeen, changed, run) \in RunVersions
    BY MergePatchFact DEF TypeOK
<1>. QED BY <1>1, ConstantsAssumption DEF PatchRunStatus, Publish, TypeOK

\* The exit code decides the outcome, the Sandbox's reason when there is none.
LEMMA SetTerminalOutcomeFact ==
    ASSUME NEW v \in RunVersions, NEW exit \in Nat, NEW finished, NEW w,
           w = SetTerminalOutcome(v, exit, finished)
    PROVE  /\ w \in RunVersions
           /\ w.terminationData = v.terminationData
           /\ w.conditions.verified = v.conditions.verified
           /\ w.conditions.succeeded = "True" => exit = 0 \/ finished = "PodSucceeded"
           /\ w.conditions.reason = "LimitReached" => exit = 2
           /\ w.conditions.reason = "Refused" => exit = 3
<1>. DEFINE reason == OutcomeReason(exit, finished)
            s == SetRunSucceeded(v, "True", reason)
<1>1. /\ reason \in HarnessReasons
      /\ reason = "Succeeded" => exit = 0 \/ finished = "PodSucceeded"
      /\ reason = "LimitReached" => exit = 2
      /\ reason = "Refused" => exit = 3
    BY DEF OutcomeReason, HarnessReasons
<1>2. reason \in Reasons /\ "True" \in Statuses /\ "Succeeded" \in Phases
    BY <1>1 DEF Reasons, Statuses, Phases
<1>3. w = IF reason = "Succeeded" THEN [s EXCEPT !.phase = "Succeeded"] ELSE FailRun(v, reason)
    BY DEF SetTerminalOutcome
<1>. HIDE DEF reason
<1>4. CASE reason = "Succeeded"
  <2>1. /\ s \in RunVersions
        /\ s.conditions.reason = reason
        /\ s.conditions.verified = v.conditions.verified
        /\ s.terminationData = v.terminationData
      BY <1>2, SetRunSucceededFact
  <2>2. w = [s EXCEPT !.phase = "Succeeded"]
      BY <1>3, <1>4
  <2>. HIDE DEF s
  <2>3. w \in RunVersions /\ w.conditions = s.conditions /\ w.terminationData = s.terminationData
      BY <1>2, <2>1, <2>2, SetPhaseFact
  <2>. QED BY <1>1, <1>4, <2>1, <2>3
<1>5. CASE reason # "Succeeded"
  <2>1. w = FailRun(v, reason)
      BY <1>3, <1>5
  <2>. QED BY <1>1, <1>2, <2>1, FailRunFact
<1>. QED BY <1>4, <1>5

\* The terminal patch: what it takes from the pod, and what it concludes.
LEMMA FinishRunFact ==
    ASSUME NEW v \in RunVersions, NEW p \in Pods, NEW finished, now \in 0..MaxTime, NEW w,
           w = FinishRun(v, p, finished)
    PROVE  /\ w \in RunVersions
           /\ w.terminationData \in {p.blob, v.terminationData}
           /\ w.conditions.verified = VerificationVerdict(w.terminationData)
           /\ w.conditions.succeeded = "True" => p.exit = 0 \/ finished = "PodSucceeded"
           /\ w.conditions.reason = "LimitReached" => p.exit = 2
           /\ w.conditions.reason = "Refused" => p.exit = 3
<1>. DEFINE data == IF p.blob # NoBlob THEN p.blob ELSE v.terminationData
            base == [v EXCEPT !.completionTime = now,
                              !.terminationData = data,
                              !.conditions.acpReady = "False",
                              !.conditions.verified = VerificationVerdict(data)]
<1>0. p.exit \in Nat
  <2>1. p.exit \in Exits
      BY DEF Pods
  <2>2. \A e \in ExitCodes : e \in 0..255
      BY ConstantsAssumption
  <2>. QED BY <2>1, <2>2 DEF Exits, NoExit
<1>1. data \in Blobs /\ data \in {p.blob, v.terminationData}
    BY DEF Pods, RunVersions
<1>2. VerificationVerdict(data) \in {"True", "False", "Unknown"}
    BY DEF VerificationVerdict
<1>3. w = SetTerminalOutcome(base, p.exit, finished)
    BY DEF FinishRun
<1>4. /\ base \in RunVersions
      /\ base.terminationData = data
      /\ base.conditions.verified = VerificationVerdict(data)
  <2>. HIDE DEF data
  <2>. QED BY <1>1, <1>2 DEF RunVersions
<1>. HIDE DEF base, data
<1>. QED BY <1>0, <1>1, <1>3, <1>4, SetTerminalOutcomeFact

\* A run that was just created, or is not there, is a version of a run.
LEMMA NewRunType == \A u \in 0..MaxUid : NewRun(u) \in RunVersions
BY ConstantsAssumption DEF NewRun, RunVersions, Phases, Reasons

\* So are the Sandbox and the pod that are not there, of theirs.
LEMMA NoObjectsType == NoRun \in RunVersions /\ NoSandbox \in Sandboxes /\ NoPod \in Pods
BY NewRunType, ConstantsAssumption DEF NoRun, NoSandbox, NoPod, Sandboxes, Pods, Exits

-----------------------------------------------------------------------------
(* Type correctness.                                                         *)

\* What TypeOK needs to be inductive: a pod that exists has an owner.
PodOwned == pod.phase # "absent" => pod.of # 0

\* Every reconcile keeps every variable in its range.
LEMMA ReconcileType ==
    ASSUME TypeOK, NEW ok \in BOOLEAN, Reconcile(ok) \/ ReconcileMountSource
    PROVE  TypeOK'
<1>. USE ConstantsAssumption
<1>a. /\ run \in RunVersions /\ runSeen \in RunVersions
      /\ now \in 0..MaxTime /\ now \in Nat /\ wakeAt \in Nat
    BY DEF TypeOK
<1>b. ASSUME NEW v \in RunVersions
      PROVE  /\ [v EXCEPT !.completionTime = now] \in RunVersions
             /\ \A p \in Phases : [v EXCEPT !.phase = p] \in RunVersions
             /\ \A p \in Phases : [v EXCEPT !.sandboxName = TRUE, !.phase = p] \in RunVersions
  <2>1. [v EXCEPT !.completionTime = now] \in RunVersions
      BY <1>a DEF RunVersions
  <2>2. \A p \in Phases : [v EXCEPT !.phase = p] \in RunVersions
      BY SetPhaseFact
  <2>3. \A p \in Phases : [v EXCEPT !.sandboxName = TRUE, !.phase = p] \in RunVersions
      BY DEF RunVersions
  <2>. QED BY <2>1, <2>2, <2>3
<1>c. WithACPReady \in RunVersions
    BY <1>a DEF WithACPReady, RunVersions
<1>1. CASE ReconcileMissing(ok)
  <2>1. /\ sandbox' \in {sandbox, NoSandbox}
        /\ pod' \in {pod, NoPod}
        /\ aux' \in [params : 0..MaxUid, secret : 0..MaxUid]
        /\ queued' \in BOOLEAN
    <3>1. CASE run.uid # 0 /\ UNCHANGED <<queued, sandbox, pod, aux>>
        BY <3>1 DEF TypeOK
    <3>2. CASE run.uid = 0 /\ ~(run.uid # 0 /\ UNCHANGED <<queued, sandbox, pod, aux>>)
      <4>1. PICK calls \in 0..4 :
              /\ sandbox' = IF calls >= 1 /\ sandboxSeen.uid # 0 THEN NoSandbox ELSE sandbox
              /\ aux' = [params |-> IF calls >= 2 THEN 0 ELSE aux.params,
                         secret |-> IF calls >= 3 THEN 0 ELSE aux.secret]
              /\ pod' = IF calls = 4 /\ podSeen.of # 0 /\ sandbox'.uid # podSeen.of
                        THEN NoPod ELSE pod
          BY <1>1, <3>2 DEF ReconcileMissing
      <4>2. queued' = ~ok
          BY <1>1, <3>2 DEF ReconcileMissing
      <4>3. aux' \in [params : 0..MaxUid, secret : 0..MaxUid]
          BY <4>1 DEF TypeOK
      <4>. QED BY <4>1, <4>2, <4>3
    <3>. QED BY <1>1, <3>1, <3>2 DEF ReconcileMissing
  <2>2. UNCHANGED <<run, runSeen, wakeAt, now, uids, agent, agentSeen, sandboxSeen, podSeen,
                    started, reports>>
      BY <1>1 DEF ReconcileMissing, historyVars
  <2>. QED BY <2>1, <2>2, NoObjectsType DEF TypeOK
<1>2. CASE ReconcileTTL(ok)
  <2>0. /\ UNCHANGED <<now, uids, clusterVars, historyVars>>
        /\ Reconciling
      BY <1>2 DEF ReconcileTTL
  <2>1. run' \in RunVersions /\ runSeen' \in RunVersions /\ queued' \in BOOLEAN /\ wakeAt' \in Nat
    <3>1. CASE ~HasTTL /\ queued' = FALSE /\ UNCHANGED <<run, runSeen, wakeAt>>
        BY <3>1, <1>a
    <3>2. CASE /\ PatchRunStatus([runSeen EXCEPT !.completionTime = now], ok, FALSE)
               /\ UNCHANGED wakeAt
        BY <3>2, <1>a, <1>b, PatchType
    <3>3. CASE /\ HasTTL /\ queued' = FALSE /\ UNCHANGED <<run, runSeen>>
               /\ wakeAt' = EarlierOf(wakeAt, runSeen.completionTime + TTL)
      <4>1. runSeen.completionTime \in Nat
          BY <1>a DEF RunVersions
      <4>2. runSeen.completionTime + TTL \in Nat
          BY <4>1
      <4>3. wakeAt' \in {wakeAt, runSeen.completionTime + TTL}
          BY <3>3 DEF EarlierOf
      <4>. QED BY <3>3, <4>2, <4>3, <1>a
    <3>4. CASE DeleteRun(ok) /\ UNCHANGED wakeAt
        BY <3>4, <1>a, NoObjectsType DEF DeleteRun, Publish
    <3>. QED BY <1>2, <3>1, <3>2, <3>3, <3>4 DEF ReconcileTTL
  <2>. QED BY <2>0, <2>1 DEF TypeOK, clusterVars, historyVars
<1>3. ASSUME NEW changed \in RunVersions, NEW patched \in BOOLEAN, NEW requeue \in BOOLEAN,
             PatchRunStatus(changed, patched, requeue),
             UNCHANGED <<now, uids, clusterVars, historyVars>>, wakeAt' \in Nat
      PROVE  TypeOK'
    BY <1>3, PatchType DEF TypeOK, clusterVars, historyVars
<1>4. CASE ReconcileAgentNotFound(ok)
    BY <1>4, <1>3, <1>a, FailRunFact DEF ReconcileAgentNotFound, Reasons
<1>d. \A reason \in Reasons : SetRunSucceeded(runSeen, "Unknown", reason) \in RunVersions
    BY <1>a, SetRunSucceededFact DEF Statuses
<1>5. CASE ReconcileAgentNotReady(ok)
    BY <1>5, <1>3, <1>a, <1>d DEF ReconcileAgentNotReady, Reasons
<1>6. CASE ReconcileInvalid(ok)
    BY <1>6, <1>3, <1>a, FailRunFact DEF ReconcileInvalid, Reasons
<1>7. CASE ReconcileMountSource
    BY <1>7, <1>3, <1>a, <1>d DEF ReconcileMountSource, Reasons
<1>8. CASE ReconcileCreate(ok)
  <2>1. ASSUME NEW writes \in 0..3, CreateSandbox(writes)
        PROVE  /\ aux' \in [params : 0..MaxUid, secret : 0..MaxUid]
               /\ sandbox' \in Sandboxes
      BY <2>1, <1>a, NoObjectsType DEF CreateSandbox, TypeOK, RunVersions, Sandboxes
  <2>2. \E writes \in 0..3 : CreateSandbox(writes)
    <3>1. CASE CreateSandbox(3)
        BY <3>1
    <3>2. CASE \E writes \in 0..2 : CreateSandbox(writes)
        BY <3>2
    <3>. QED BY <1>8, <3>1, <3>2 DEF ReconcileCreate
  <2>4. [SetRunSucceeded(runSeen, "Unknown", "SandboxCreated")
           EXCEPT !.sandboxName = TRUE, !.phase = "Pending"] \in RunVersions
      BY <1>d, <1>b DEF Reasons, Phases
  <2>5. run' \in RunVersions /\ runSeen' \in RunVersions /\ queued' \in BOOLEAN
    <3>1. CASE PatchRunStatus([SetRunSucceeded(runSeen, "Unknown", "SandboxCreated")
                                 EXCEPT !.sandboxName = TRUE, !.phase = "Pending"], ok, FALSE)
        BY <3>1, <2>4, PatchType
    <3>2. CASE \E reason \in CreateReasons, patched \in BOOLEAN :
                  PatchRunStatus(SetRunSucceeded(runSeen, "Unknown", reason), patched, TRUE)
        BY <3>2, <1>d, PatchType DEF Reasons
    <3>. QED BY <1>8, <3>1, <3>2 DEF ReconcileCreate
  <2>. QED BY <1>8, <2>1, <2>2, <2>5 DEF ReconcileCreate, TypeOK, historyVars
<1>9. CASE ReconcileSandboxMissing(ok)
  <2>1. FailRun(runSeen, "SandboxNotFound") \in RunVersions
      BY <1>a, FailRunFact DEF Reasons
  <2>2. CASE UNCHANGED <<run, runSeen, queued>>
      BY <1>9, <2>2 DEF ReconcileSandboxMissing, TypeOK, clusterVars, historyVars
  <2>3. CASE PatchRunStatus(FailRun(runSeen, "SandboxNotFound"), ok, FALSE)
      BY <1>9, <2>3, <2>1, <1>3, <1>a DEF ReconcileSandboxMissing
  <2>. QED BY <1>9, <2>2, <2>3 DEF ReconcileSandboxMissing
<1>10. CASE ReconcileFinished(ok)
  <2>1. ASSUME NEW fresh \in BOOLEAN
        PROVE  FinishRun(runSeen, TerminalPod(fresh), sandboxSeen.finished) \in RunVersions
      BY FinishRunFact, <1>a DEF TypeOK, Sandboxes, TerminalPod
  <2>. QED BY <1>10, <2>1, <1>3, <1>a DEF ReconcileFinished
<1>11. CASE ReconcileStillRunning(ok)
    BY <1>11, <1>3, <1>a, <1>c DEF ReconcileStillRunning
<1>12. CASE ReconcileStuck(ok)
  <2>1. [FailRun(WithACPReady, "FatalWaiting") EXCEPT !.completionTime = now] \in RunVersions
      BY <1>b, <1>c, FailRunFact DEF Reasons
  <2>. QED BY <1>12, <2>1, <1>3, <1>a DEF ReconcileStuck
<1>13. CASE ReconcileOverdue(ok)
  <2>1. [FailRun(WithACPReady, "StartupDeadlineExceeded") EXCEPT !.completionTime = now] \in RunVersions
      BY <1>b, <1>c, FailRunFact DEF Reasons
  <2>. QED BY <1>13, <2>1, <1>3, <1>a DEF ReconcileOverdue
<1>14. CASE ReconcilePending(ok)
  <2>1. [SetRunSucceeded(WithACPReady, "Unknown", "PodNotRunning") EXCEPT !.phase = "Pending"]
           \in RunVersions
      BY <1>b, <1>c, SetRunSucceededFact DEF Reasons, Statuses, Phases
  <2>2. wakeAt' \in Nat
    <3>0. sandboxSeen \in Sandboxes
        BY DEF TypeOK
    <3>1. sandboxSeen.created \in Nat
      <4>1. sandboxSeen.created \in 0..MaxTime
          BY <3>0 DEF Sandboxes
      <4>. QED BY <4>1
    <3>2. sandboxSeen.created + Deadline \in Nat
        BY <3>1
    <3>3. wakeAt' \in {wakeAt, sandboxSeen.created + Deadline}
        BY <1>14 DEF ReconcilePending, EarlierOf
    <3>. QED BY <3>2, <3>3, <1>a
  <2>. QED BY <1>14, <2>1, <2>2, <1>3 DEF ReconcilePending
<1>15. CASE ReconcileRunning(ok)
  <2>1. [SetRunSucceeded(WithACPReady, "Unknown", "Running") EXCEPT !.phase = "Running"]
           \in RunVersions
      BY <1>b, <1>c, SetRunSucceededFact DEF Reasons, Statuses, Phases
  <2>. QED BY <1>15, <2>1, <1>3, <1>a DEF ReconcileRunning
<1>. QED BY <1>1, <1>2, <1>4, <1>5, <1>6, <1>7, <1>8, <1>9, <1>10, <1>11, <1>12, <1>13, <1>14, <1>15
         DEF Reconcile

\* The informers, the queue and the clock keep every variable in its range.
LEMMA ManagerType == TypeOK /\ Manager => TypeOK'
<1>. SUFFICES ASSUME TypeOK, Manager PROVE TypeOK'
    OBVIOUS
<1>. USE ConstantsAssumption DEF TypeOK, clusterVars, historyVars
<1>1. CASE DeliverRun BY <1>1 DEF DeliverRun
<1>2. CASE SyncAgent BY <1>2 DEF SyncAgent
<1>3. CASE SyncSandbox BY <1>3 DEF SyncSandbox
<1>4. CASE SyncPod BY <1>4 DEF SyncPod
<1>5. CASE Wake BY <1>5 DEF Wake
<1>6. CASE Restart BY <1>6 DEF Restart
<1>7. CASE Tick BY <1>7 DEF Tick
<1>. QED BY <1>1, <1>2, <1>3, <1>4, <1>5, <1>6, <1>7 DEF Manager

\* So do the other actors.
LEMMA EnvironmentType == TypeOK /\ PodOwned /\ Environment => TypeOK' /\ PodOwned'
<1>. SUFFICES ASSUME TypeOK, PodOwned, Environment PROVE TypeOK' /\ PodOwned'
    OBVIOUS
<1>. USE ConstantsAssumption, NoObjectsType DEF TypeOK, PodOwned, controllerVars, historyVars
<1>1. CASE AgentChange BY <1>1 DEF AgentChange
<1>2. CASE PodCreate BY <1>2 DEF PodCreate, Pods, Sandboxes
<1>3. CASE PodStuck BY <1>3 DEF PodStuck, Pods
<1>4. CASE PodStart
  <2>1. pod.of \in Uids /\ now \in 0..MaxTime
      BY <1>4 DEF PodStart, Pods, Uids
  <2>2. pod' \in Pods /\ pod'.of # 0
      BY <1>4, <2>1 DEF PodStart, Pods, Uids
  <2>3. started' \in [Uids -> 0..MaxTime]
      BY <1>4, <2>1 DEF PodStart
  <2>. QED BY <1>4, <2>2, <2>3 DEF PodStart
<1>5. CASE PodExit
  <2>1. pod.of \in Uids
      BY <1>5 DEF PodExit, Pods, Uids
  <2>2. PICK code \in ExitCodes, blob \in Blobs :
          /\ pod' = [pod EXCEPT !.phase = IF code = 0 THEN "Succeeded" ELSE "Failed",
                                !.exit = code, !.blob = blob]
          /\ reports' = reports \cup {[uid |-> pod.of, exit |-> code, blob |-> blob]}
      BY <1>5 DEF PodExit
  <2>3. pod' \in Pods /\ pod'.of # 0
    <3>1. code \in Exits /\ pod.of # 0
        BY <2>1 DEF Exits, Uids
    <3>. QED BY <2>2, <3>1 DEF Pods
  <2>4. reports' \subseteq [uid : Uids, exit : ExitCodes, blob : Blobs]
      BY <2>1, <2>2
  <2>. QED BY <1>5, <2>3, <2>4 DEF PodExit
<1>6. CASE PodLost BY <1>6 DEF PodLost, Pods
<1>7. CASE SandboxReady BY <1>7 DEF SandboxReady, Sandboxes
<1>8. CASE SandboxFinish
  <2>1. PICK finished \in {"PodSucceeded", "PodFailed"} :
          sandbox' = [sandbox EXCEPT !.ready = FALSE, !.finished = finished]
      BY <1>8 DEF SandboxFinish
  <2>2. sandbox' \in Sandboxes
      BY <2>1 DEF Sandboxes
  <2>. QED BY <1>8, <2>2 DEF SandboxFinish
<1>9. CASE CollectOwned BY <1>9 DEF CollectOwned
<1>10. CASE CollectPod BY <1>10 DEF CollectPod, NoPod
<1>11. CASE SandboxDelete BY <1>11 DEF SandboxDelete
<1>12. CASE PodDelete BY <1>12 DEF PodDelete, NoPod
<1>13. CASE DropOwner BY <1>13 DEF DropOwner, Sandboxes
<1>14. CASE UserDelete BY <1>14 DEF UserDelete
<1>15. CASE UserCreate BY <1>15, NewRunType DEF UserCreate, Uids
<1>. QED BY <1>1, <1>2, <1>3, <1>4, <1>5, <1>6, <1>7, <1>8, <1>9, <1>10, <1>11, <1>12, <1>13,
            <1>14, <1>15 DEF Environment

\* A reconcile only ever removes the pod; the manager leaves it alone.
LEMMA ControllerPodOwned ==
    ASSUME PodOwned, Manager \/ ReconcileMountSource \/ (\E ok \in BOOLEAN : Reconcile(ok))
    PROVE  PodOwned'
<1>1. ASSUME Manager PROVE pod' = pod
    BY <1>1 DEF Manager, DeliverRun, SyncAgent, SyncSandbox, SyncPod, Wake, Restart, Tick, clusterVars
<1>2. ASSUME NEW ok \in BOOLEAN, ReconcileMissing(ok) PROVE pod' \in {pod, NoPod}
    BY <1>2 DEF ReconcileMissing
<1>3. ASSUME NEW ok \in BOOLEAN, Reconcile(ok), ~ReconcileMissing(ok) PROVE pod' = pod
    BY <1>3 DEF Reconcile, ReconcileTTL, ReconcileAgentNotFound, ReconcileAgentNotReady,
        ReconcileInvalid, ReconcileCreate, ReconcileSandboxMissing,
        ReconcileFinished, ReconcileStillRunning, ReconcileStuck, ReconcileOverdue,
        ReconcilePending, ReconcileRunning, clusterVars
<1>4. ASSUME ReconcileMountSource PROVE pod' = pod
    BY <1>4 DEF ReconcileMountSource, clusterVars
<1>. QED BY <1>1, <1>2, <1>3, <1>4 DEF PodOwned, NoPod

\* Type correctness: for every value of the constants, every behaviour of the
\* reconciler and its environment keeps every variable in its range.
THEOREM TypeCorrect == Spec => []TypeOK
<1>1. Init => TypeOK /\ PodOwned
  <2>. SUFFICES ASSUME Init PROVE TypeOK /\ PodOwned
      OBVIOUS
  <2>. USE ConstantsAssumption
  <2>1. run \in RunVersions /\ runSeen \in RunVersions
      BY NewRunType DEF Init
  <2>. QED BY <2>1, NoObjectsType DEF Init, TypeOK, PodOwned, NoPod, AgentStates, Uids
<1>2. TypeOK /\ PodOwned /\ [Next]_vars => TypeOK' /\ PodOwned'
  <2>. SUFFICES ASSUME TypeOK, PodOwned, [Next]_vars PROVE TypeOK' /\ PodOwned'
      OBVIOUS
  <2>1. CASE ReconcileMountSource \/ \E ok \in BOOLEAN : Reconcile(ok)
      BY <2>1, ReconcileType, ControllerPodOwned
  <2>2. CASE Manager
      BY <2>2, ManagerType, ControllerPodOwned
  <2>3. CASE Environment
      BY <2>3, EnvironmentType
  <2>4. CASE UNCHANGED vars
      BY <2>4 DEF TypeOK, PodOwned, vars, clusterVars, historyVars
  <2>. QED BY <2>1, <2>2, <2>3, <2>4 DEF Next, ReconcileFails
<1>. QED BY <1>1, <1>2, PTL DEF Spec

-----------------------------------------------------------------------------
(* The outcome and the verdict of a run are reported ones.  A reconcile       *)
(* concludes them from cached copies, merges them into another copy, and may  *)
(* repeat that after a failed call; so the invariant says of every copy of    *)
(* every object that what it holds was reported by then.                      *)

VersionSound(v, rs) ==
    /\ v.conditions.succeeded = "True" => \E r \in rs : r.exit = 0
    /\ v.conditions.reason = "LimitReached" => \E r \in rs : r.exit = 2
    /\ v.conditions.reason = "Refused" => \E r \in rs : r.exit = 3
    /\ v.conditions.verified = "True" => \E r \in rs : r.blob = "passed"
    /\ v.terminationData # NoBlob => \E r \in rs : r.blob = v.terminationData

PodSound(p, rs) ==
    /\ p.exit # NoExit => \E r \in rs : r.exit = p.exit
    /\ p.blob # NoBlob => \E r \in rs : r.blob = p.blob
    /\ p.phase = "Succeeded" => \E r \in rs : r.exit = 0

SandboxSound(s, rs) == s.finished = "PodSucceeded" => \E r \in rs : r.exit = 0

Evidence ==
    /\ VersionSound(run, reports) /\ VersionSound(runSeen, reports)
    /\ PodSound(pod, reports) /\ PodSound(podSeen, reports)
    /\ SandboxSound(sandbox, reports) /\ SandboxSound(sandboxSeen, reports)

\* Reports are only ever added, which keeps everything sound.
LEMMA SoundMonotone ==
    ASSUME NEW rs, NEW more, rs \subseteq more
    PROVE  /\ \A v : VersionSound(v, rs) => VersionSound(v, more)
           /\ \A p : PodSound(p, rs) => PodSound(p, more)
           /\ \A s : SandboxSound(s, rs) => SandboxSound(s, more)
BY DEF VersionSound, PodSound, SandboxSound

\* What was just created, or is not there, claims nothing.
LEMMA NothingClaimed ==
    ASSUME NEW rs
    PROVE  /\ \A u : VersionSound(NewRun(u), rs)
           /\ VersionSound(NoRun, rs) /\ PodSound(NoPod, rs) /\ SandboxSound(NoSandbox, rs)
BY DEF VersionSound, PodSound, SandboxSound, NoRun, NewRun, NoPod, NoSandbox

\* A merge patch of sound versions is sound.
LEMMA PatchSound ==
    ASSUME TypeOK, Evidence, NEW changed \in RunVersions, VersionSound(changed, reports),
           NEW ok, NEW requeue, PatchRunStatus(changed, ok, requeue)
    PROVE  VersionSound(run', reports) /\ VersionSound(runSeen', reports)
<1>. DEFINE m == MergePatch(runSeen, changed, run)
<1>1. /\ m.conditions \in {changed.conditions, run.conditions}
      /\ m.terminationData \in {changed.terminationData, run.terminationData}
    BY MergePatchFact DEF TypeOK
<1>2. run' \in {m, run} /\ runSeen' \in {m, runSeen}
    BY DEF PatchRunStatus, Publish
<1>. HIDE DEF m
<1>3. VersionSound(m, reports)
    BY <1>1 DEF VersionSound, Evidence
<1>. QED BY <1>2, <1>3 DEF Evidence

\* Everything the reconciler concludes before the Sandbox has finished claims
\* no outcome of the agent's.
LEMMA NoClaim ==
    ASSUME NEW v \in RunVersions, NEW rs, VersionSound(v, rs), NEW w \in RunVersions,
           w.conditions.succeeded # "True",
           w.conditions.reason \notin {"LimitReached", "Refused"},
           w.conditions.verified = v.conditions.verified,
           w.terminationData = v.terminationData
    PROVE  VersionSound(w, rs)
BY DEF VersionSound

\* Every reconcile keeps the evidence.
LEMMA ReconcileEvidence ==
    ASSUME TypeOK, Evidence, NEW ok \in BOOLEAN, Reconcile(ok) \/ ReconcileMountSource
    PROVE  Evidence'
<1>. DEFINE Kept == UNCHANGED <<pod, podSeen, sandbox, sandboxSeen, reports>>
            Harmless == Reasons \ {"LimitReached", "Refused"}
<1>a. /\ runSeen \in RunVersions /\ VersionSound(runSeen, reports) /\ now \in 0..MaxTime
    BY DEF TypeOK, Evidence
<1>b. ASSUME NEW changed \in RunVersions, VersionSound(changed, reports),
             NEW patched, NEW requeue, PatchRunStatus(changed, patched, requeue)
      PROVE  VersionSound(run', reports) /\ VersionSound(runSeen', reports)
    BY <1>b, PatchSound
<1>c. ASSUME Kept, VersionSound(run', reports), VersionSound(runSeen', reports)
      PROVE  Evidence'
    BY <1>c DEF Evidence
<1>d. /\ WithACPReady \in RunVersions /\ VersionSound(WithACPReady, reports)
      /\ WithACPReady.conditions.verified = runSeen.conditions.verified
      /\ WithACPReady.terminationData = runSeen.terminationData
    BY <1>a DEF WithACPReady, RunVersions, VersionSound
<1>e. ASSUME NEW v \in RunVersions, VersionSound(v, reports), NEW reason \in Harmless
      PROVE  /\ FailRun(v, reason) \in RunVersions
             /\ VersionSound(FailRun(v, reason), reports)
             /\ SetRunSucceeded(v, "Unknown", reason) \in RunVersions
             /\ VersionSound(SetRunSucceeded(v, "Unknown", reason), reports)
  <2>. DEFINE f == FailRun(v, reason)
              u == SetRunSucceeded(v, "Unknown", reason)
  <2>1. /\ f \in RunVersions
        /\ f.conditions.succeeded = "False" /\ f.conditions.reason = reason
        /\ f.conditions.verified = v.conditions.verified
        /\ f.terminationData = v.terminationData
      BY <1>e, FailRunFact
  <2>2. "Unknown" \in Statuses
      BY DEF Statuses
  <2>3. /\ u \in RunVersions
        /\ u.conditions.succeeded = "Unknown" /\ u.conditions.reason = reason
        /\ u.conditions.verified = v.conditions.verified
        /\ u.terminationData = v.terminationData
      BY <1>e, <2>2, SetRunSucceededFact
  <2>. HIDE DEF f, u
  <2>4. VersionSound(f, reports)
      BY <1>e, <2>1, NoClaim
  <2>5. VersionSound(u, reports)
      BY <1>e, <2>3, NoClaim
  <2>. QED BY <2>1, <2>3, <2>4, <2>5 DEF f, u
<1>f. ASSUME NEW v \in RunVersions, VersionSound(v, reports)
      PROVE  /\ [v EXCEPT !.completionTime = now] \in RunVersions
             /\ VersionSound([v EXCEPT !.completionTime = now], reports)
    BY <1>a, <1>f DEF RunVersions, VersionSound
<1>g. ASSUME NEW v \in RunVersions, VersionSound(v, reports), NEW phase \in Phases
      PROVE  /\ [v EXCEPT !.phase = phase] \in RunVersions
             /\ VersionSound([v EXCEPT !.phase = phase], reports)
             /\ [v EXCEPT !.sandboxName = TRUE, !.phase = phase] \in RunVersions
             /\ VersionSound([v EXCEPT !.sandboxName = TRUE, !.phase = phase], reports)
    BY <1>g DEF RunVersions, VersionSound
<1>h. /\ {"AgentNotFound", "AgentNotReady", "SandboxCreated", "SandboxNotFound", "PodNotRunning",
          "Running", "FatalWaiting", "StartupDeadlineExceeded"} \subseteq Harmless
      /\ InvalidReasons \subseteq Harmless /\ SourceReasons \subseteq Harmless
      /\ CreateReasons \subseteq Harmless
      /\ "Pending" \in Phases /\ "Running" \in Phases
    BY DEF Reasons, InvalidReasons, SourceReasons, CreateReasons, Phases
<1>. HIDE DEF Harmless
<1>1. CASE ReconcileMissing(ok)
  <2>1. sandbox' \in {sandbox, NoSandbox} /\ pod' \in {pod, NoPod}
    <3>1. CASE UNCHANGED <<sandbox, pod>>
        BY <3>1
    <3>2. CASE \E calls \in 0..4 :
                 /\ sandbox' = IF calls >= 1 /\ sandboxSeen.uid # 0 THEN NoSandbox ELSE sandbox
                 /\ pod' = IF calls = 4 /\ podSeen.of # 0 /\ sandbox'.uid # podSeen.of
                           THEN NoPod ELSE pod
        BY <3>2
    <3>. QED BY <1>1, <3>1, <3>2 DEF ReconcileMissing
  <2>2. UNCHANGED <<run, runSeen, sandboxSeen, podSeen, reports>>
      BY <1>1 DEF ReconcileMissing, historyVars
  <2>. QED BY <2>1, <2>2, NothingClaimed DEF Evidence
<1>2. CASE ReconcileTTL(ok)
  <2>1. Kept
      BY <1>2 DEF ReconcileTTL, clusterVars, historyVars
  <2>2. CASE UNCHANGED <<run, runSeen>>
      BY <2>1, <2>2 DEF Evidence
  <2>3. CASE PatchRunStatus([runSeen EXCEPT !.completionTime = now], ok, FALSE)
      BY <2>1, <2>3, <1>a, <1>b, <1>c, <1>f
  <2>4. CASE DeleteRun(ok)
    <3>1. run' \in {run, NoRun} /\ runSeen' \in {runSeen, NoRun}
        BY <2>4 DEF DeleteRun, Publish
    <3>. QED BY <2>1, <3>1, NothingClaimed DEF Evidence
  <2>. QED BY <1>2, <2>2, <2>3, <2>4 DEF ReconcileTTL
<1>4. CASE ReconcileAgentNotFound(ok)
  <2>1. Kept
      BY <1>4 DEF ReconcileAgentNotFound, clusterVars, historyVars
  <2>. QED BY <1>4, <2>1, <1>a, <1>b, <1>c, <1>e, <1>h DEF ReconcileAgentNotFound
<1>5. CASE ReconcileAgentNotReady(ok)
  <2>1. Kept
      BY <1>5 DEF ReconcileAgentNotReady, clusterVars, historyVars
  <2>. QED BY <1>5, <2>1, <1>a, <1>b, <1>c, <1>e, <1>h DEF ReconcileAgentNotReady
<1>6. CASE ReconcileInvalid(ok)
  <2>1. Kept
      BY <1>6 DEF ReconcileInvalid, clusterVars, historyVars
  <2>. QED BY <1>6, <2>1, <1>a, <1>b, <1>c, <1>e, <1>h DEF ReconcileInvalid
<1>7. CASE ReconcileMountSource
  <2>1. Kept
      BY <1>7 DEF ReconcileMountSource, clusterVars, historyVars
  <2>. QED BY <1>7, <2>1, <1>a, <1>b, <1>c, <1>e, <1>h DEF ReconcileMountSource
<1>8. CASE ReconcileCreate(ok)
  <2>1. UNCHANGED <<pod, podSeen, sandboxSeen, reports>>
      BY <1>8 DEF ReconcileCreate, historyVars
  <2>2. SandboxSound(sandbox', reports)
    <3>1. ASSUME NEW writes, CreateSandbox(writes) PROVE SandboxSound(sandbox', reports)
      <4>. DEFINE new == [NoSandbox EXCEPT !.uid = runSeen.uid, !.owned = TRUE, !.created = now]
      <4>1. sandbox' \in {sandbox, new}
          BY <3>1 DEF CreateSandbox
      <4>2. new.finished = ""
          BY DEF NoSandbox
      <4>. HIDE DEF new
      <4>. QED BY <4>1, <4>2 DEF Evidence, SandboxSound
    <3>. QED BY <1>8, <3>1 DEF ReconcileCreate
  <2>3. VersionSound(run', reports) /\ VersionSound(runSeen', reports)
    <3>1. CASE PatchRunStatus([SetRunSucceeded(runSeen, "Unknown", "SandboxCreated")
                                 EXCEPT !.sandboxName = TRUE, !.phase = "Pending"], ok, FALSE)
        BY <3>1, <1>a, <1>b, <1>e, <1>g, <1>h
    <3>2. CASE \E reason \in CreateReasons, patched \in BOOLEAN :
                  PatchRunStatus(SetRunSucceeded(runSeen, "Unknown", reason), patched, TRUE)
        BY <3>2, <1>a, <1>b, <1>e, <1>h
    <3>. QED BY <1>8, <3>1, <3>2 DEF ReconcileCreate
  <2>. QED BY <2>1, <2>2, <2>3 DEF Evidence
<1>9. CASE ReconcileSandboxMissing(ok)
  <2>1. Kept
      BY <1>9 DEF ReconcileSandboxMissing, clusterVars, historyVars
  <2>2. CASE UNCHANGED <<run, runSeen>>
      BY <2>1, <2>2 DEF Evidence
  <2>3. CASE PatchRunStatus(FailRun(runSeen, "SandboxNotFound"), ok, FALSE)
      BY <2>1, <2>3, <1>a, <1>b, <1>c, <1>e, <1>h
  <2>. QED BY <1>9, <2>2, <2>3 DEF ReconcileSandboxMissing
<1>10. CASE ReconcileFinished(ok)
  <2>1. Kept
      BY <1>10 DEF ReconcileFinished, clusterVars, historyVars
  <2>2. ASSUME NEW fresh \in BOOLEAN
        PROVE  /\ FinishRun(runSeen, TerminalPod(fresh), sandboxSeen.finished) \in RunVersions
               /\ VersionSound(FinishRun(runSeen, TerminalPod(fresh), sandboxSeen.finished), reports)
    <3>. DEFINE p == TerminalPod(fresh)
                w == FinishRun(runSeen, p, sandboxSeen.finished)
    <3>1. p \in Pods /\ PodSound(p, reports)
        BY DEF TerminalPod, TypeOK, Evidence
    <3>. HIDE DEF p
    <3>2. /\ w \in RunVersions
          /\ w.terminationData \in {p.blob, runSeen.terminationData}
          /\ w.conditions.verified = VerificationVerdict(w.terminationData)
          /\ w.conditions.succeeded = "True" => p.exit = 0 \/ sandboxSeen.finished = "PodSucceeded"
          /\ w.conditions.reason = "LimitReached" => p.exit = 2
          /\ w.conditions.reason = "Refused" => p.exit = 3
        BY <3>1, <1>a, FinishRunFact
    <3>. HIDE DEF w
    <3>3. w.terminationData # NoBlob => \E r \in reports : r.blob = w.terminationData
        BY <3>1, <3>2, <1>a DEF PodSound, VersionSound
    <3>4. w.conditions.verified = "True" => w.terminationData = "passed"
        BY <3>2 DEF VerificationVerdict
    <3>5. /\ w.conditions.succeeded = "True" => \E r \in reports : r.exit = 0
          /\ w.conditions.reason = "LimitReached" => \E r \in reports : r.exit = 2
          /\ w.conditions.reason = "Refused" => \E r \in reports : r.exit = 3
        BY <3>1, <3>2 DEF PodSound, NoExit, Evidence, SandboxSound
    <3>6. VersionSound(w, reports)
        BY <3>3, <3>4, <3>5 DEF VersionSound, NoBlob
    <3>. QED BY <3>2, <3>6 DEF w, p
  <2>. QED BY <1>10, <2>1, <2>2, <1>b, <1>c DEF ReconcileFinished
<1>11. CASE ReconcileStillRunning(ok)
  <2>1. Kept
      BY <1>11 DEF ReconcileStillRunning, clusterVars, historyVars
  <2>. QED BY <1>11, <2>1, <1>b, <1>c, <1>d DEF ReconcileStillRunning
<1>12. CASE ReconcileStuck(ok)
  <2>1. Kept
      BY <1>12 DEF ReconcileStuck, clusterVars, historyVars
  <2>. QED BY <1>12, <2>1, <1>b, <1>c, <1>d, <1>e, <1>f, <1>h DEF ReconcileStuck
<1>13. CASE ReconcileOverdue(ok)
  <2>1. Kept
      BY <1>13 DEF ReconcileOverdue, clusterVars, historyVars
  <2>. QED BY <1>13, <2>1, <1>b, <1>c, <1>d, <1>e, <1>f, <1>h DEF ReconcileOverdue
<1>14. CASE ReconcilePending(ok)
  <2>1. Kept
      BY <1>14 DEF ReconcilePending, clusterVars, historyVars
  <2>. QED BY <1>14, <2>1, <1>b, <1>c, <1>d, <1>e, <1>g, <1>h DEF ReconcilePending
<1>15. CASE ReconcileRunning(ok)
  <2>1. Kept
      BY <1>15 DEF ReconcileRunning, clusterVars, historyVars
  <2>. QED BY <1>15, <2>1, <1>b, <1>c, <1>d, <1>e, <1>g, <1>h DEF ReconcileRunning
<1>. QED BY <1>1, <1>2, <1>4, <1>5, <1>6, <1>7, <1>8, <1>9, <1>10, <1>11, <1>12, <1>13, <1>14, <1>15
         DEF Reconcile

\* The informers copy what is sound.
LEMMA ManagerEvidence == Evidence /\ Manager => Evidence'
<1>. SUFFICES ASSUME Evidence, Manager PROVE Evidence'
    OBVIOUS
<1>1. UNCHANGED <<run, pod, sandbox, reports>>
    BY DEF Manager, DeliverRun, SyncAgent, SyncSandbox, SyncPod, Wake, Restart, Tick,
           clusterVars, historyVars
<1>2. /\ runSeen' \in {run, runSeen} /\ podSeen' \in {pod, podSeen}
      /\ sandboxSeen' \in {sandbox, sandboxSeen}
    BY DEF Manager, DeliverRun, SyncAgent, SyncSandbox, SyncPod, Wake, Restart, Tick, clusterVars
<1>. QED BY <1>1, <1>2 DEF Evidence

\* The kubelet writes into a pod what it writes into the reports, and Agent
\* Sandbox takes its word for a pod that succeeded.
LEMMA EnvironmentEvidence == TypeOK /\ Evidence /\ Environment => Evidence'
<1>. SUFFICES ASSUME TypeOK, Evidence, Environment PROVE Evidence'
    OBVIOUS
<1>a. /\ VersionSound(runSeen, reports) /\ PodSound(podSeen, reports)
      /\ SandboxSound(sandboxSeen, reports)
      /\ pod \in Pods /\ sandbox \in Sandboxes
    BY DEF Evidence, TypeOK
<1>. USE DEF controllerVars, historyVars
<1>1. CASE AgentChange BY <1>1 DEF AgentChange, Evidence
<1>2. CASE PodCreate
  <2>1. pod'.exit = NoExit /\ pod'.blob = NoBlob /\ pod'.phase = "Pending"
      BY <1>2 DEF PodCreate, NoPod
  <2>2. PodSound(pod', reports)
      BY <2>1 DEF PodSound
  <2>. QED BY <1>2, <2>2 DEF PodCreate, Evidence
<1>3. CASE PodStuck \/ PodStart \/ PodLost
  <2>1. PICK phase \in {"Pending", "Stuck", "Running", "Failed"} : pod' = [pod EXCEPT !.phase = phase]
      BY <1>3 DEF PodStuck, PodStart, PodLost
  <2>2. PodSound(pod', reports)
      BY <1>a, <2>1 DEF PodSound, Evidence, Pods
  <2>. QED BY <1>3, <2>2 DEF PodStuck, PodStart, PodLost, Evidence
<1>5. CASE PodExit
  <2>1. PICK code \in ExitCodes, blob \in Blobs :
          /\ pod' = [pod EXCEPT !.phase = IF code = 0 THEN "Succeeded" ELSE "Failed",
                                !.exit = code, !.blob = blob]
          /\ reports' = reports \cup {[uid |-> pod.of, exit |-> code, blob |-> blob]}
      BY <1>5 DEF PodExit
  <2>2. /\ pod'.exit = code /\ pod'.blob = blob
        /\ pod'.phase = "Succeeded" => code = 0
      BY <1>a, <2>1 DEF Pods
  <2>3. \E r \in reports' : r.exit = code /\ r.blob = blob
    <3>. DEFINE report == [uid |-> pod.of, exit |-> code, blob |-> blob]
    <3>1. report.exit = code /\ report.blob = blob
        OBVIOUS
    <3>2. report \in reports'
        BY <2>1
    <3>. HIDE DEF report
    <3>. QED BY <3>1, <3>2
  <2>4. PodSound(pod', reports')
      BY <2>2, <2>3 DEF PodSound
  <2>5. reports \subseteq reports'
      BY <2>1
  <2>6. UNCHANGED <<run, runSeen, podSeen, sandbox, sandboxSeen>>
      BY <1>5 DEF PodExit
  <2>. QED BY <2>4, <2>5, <2>6, SoundMonotone DEF Evidence
<1>7. CASE SandboxReady \/ DropOwner
  <2>1. sandbox'.finished = sandbox.finished
      BY <1>7, <1>a DEF SandboxReady, DropOwner, Sandboxes
  <2>2. SandboxSound(sandbox', reports)
      BY <2>1 DEF SandboxSound, Evidence
  <2>. QED BY <1>7, <2>2 DEF SandboxReady, DropOwner, Evidence
<1>8. CASE SandboxFinish
  <2>1. PICK finished \in {"PodSucceeded", "PodFailed"} :
          /\ sandbox' = [sandbox EXCEPT !.ready = FALSE, !.finished = finished]
          /\ finished = "PodSucceeded" => pod.phase = "Succeeded"
      BY <1>8 DEF SandboxFinish
  <2>2. sandbox'.finished = finished
      BY <1>a, <2>1 DEF Sandboxes
  <2>3. SandboxSound(sandbox', reports)
      BY <2>1, <2>2 DEF SandboxSound, PodSound, Evidence
  <2>. QED BY <1>8, <2>3 DEF SandboxFinish, Evidence
<1>9. CASE CollectOwned \/ SandboxDelete
  <2>1. sandbox' \in {sandbox, NoSandbox}
      BY <1>9 DEF CollectOwned, SandboxDelete
  <2>. QED BY <1>9, <2>1, NothingClaimed DEF CollectOwned, SandboxDelete, Evidence
<1>10. CASE CollectPod \/ PodDelete
    BY <1>10, NothingClaimed DEF CollectPod, PodDelete, Evidence
<1>14. CASE UserDelete \/ UserCreate
    BY <1>14, NothingClaimed DEF UserDelete, UserCreate, Evidence
<1>. QED BY <1>1, <1>2, <1>3, <1>5, <1>7, <1>8, <1>9, <1>10, <1>14 DEF Environment

\* Evidence is an invariant.
THEOREM EvidenceKept == Spec => []Evidence
<1>1. Init => Evidence
    BY NothingClaimed DEF Init, Evidence
<1>2. TypeOK /\ Evidence /\ [Next]_vars => Evidence'
  <2>. SUFFICES ASSUME TypeOK, Evidence, [Next]_vars PROVE Evidence'
      OBVIOUS
  <2>1. CASE ReconcileMountSource \/ \E ok \in BOOLEAN : Reconcile(ok)
      BY <2>1, ReconcileEvidence
  <2>2. CASE Manager
      BY <2>2, ManagerEvidence
  <2>3. CASE Environment
      BY <2>3, EnvironmentEvidence
  <2>4. CASE UNCHANGED vars
      BY <2>4 DEF Evidence, vars, clusterVars, historyVars
  <2>. QED BY <2>1, <2>2, <2>3, <2>4 DEF Next, ReconcileFails
<1>. QED BY <1>1, <1>2, TypeCorrect, PTL DEF Spec

\* Every outcome of setTerminalOutcome is what an agent container reported,
\* whatever the staleness of the caches, the faults and the number of runs.
THEOREM OutcomesAreReported == Spec => []OutcomeSound
<1>1. Evidence => OutcomeSound
    BY DEF Evidence, VersionSound, OutcomeSound, Reported
<1>. QED BY <1>1, EvidenceKept, PTL

\* setRunVerified never renders silence as green: Verified=True is backed by a
\* termination message that says "passed".
THEOREM VerdictsAreReported == Spec => []VerifiedSound
<1>1. Evidence => VerifiedSound
    BY DEF Evidence, VersionSound, VerifiedSound
<1>. QED BY <1>1, EvidenceKept, PTL

\* Both together: what setTerminalOutcome and setRunVerified record is what some
\* agent container reported.
THEOREM ResultsAreReported == Spec => []ResultSound
BY OutcomesAreReported, VerdictsAreReported, PTL DEF ResultSound

-----------------------------------------------------------------------------
(* Outcomes, under ReadsOwnWrites.  A copy in the cache that differs from the *)
(* API server's is then one whose object was deleted, or deleted and created  *)
(* again and not yet patched: the patch of a reconcile that started from it   *)
(* meets an object without a status.                                          *)

Agrees(v) ==
    /\ v.phase = "Succeeded" <=> v.conditions.succeeded = "True"
    /\ v.phase = "Failed" <=> v.conditions.succeeded = "False"

Settled ==
    /\ Agrees(run) /\ Agrees(runSeen)
    /\ runSeen = run \/ run = NewRun(run.uid)

\* A run without a status names no outcome, in either place.
LEMMA NewRunAgrees == \A u : Agrees(NewRun(u))
BY DEF Agrees, NewRun

\* A new run has no phase and no outcome.
LEMMA NewRunFact ==
    ASSUME NEW u
    PROVE  /\ NewRun(u).uid = u /\ NewRun(u).phase = ""
           /\ NewRun(u).conditions.succeeded = "None"
           /\ ~IsTerminalPhase(NewRun(u).phase)
BY DEF NewRun, IsTerminalPhase

\* A patch keeps phase and condition in step if the reconcile computed them in
\* step, from a live run or leaving both alone.
LEMMA PatchSettled ==
    ASSUME ReadsOwnWrites, TypeOK, Settled, NEW changed \in RunVersions, Agrees(changed),
           \/ ~IsTerminalPhase(runSeen.phase)
           \/ changed.phase = runSeen.phase /\ changed.conditions = runSeen.conditions,
           NEW ok, NEW requeue, PatchRunStatus(changed, ok, requeue)
    PROVE  Settled'
<1>. DEFINE merged == MergePatch(runSeen, changed, run)
            phase == Merged(runSeen.phase, changed.phase, run.phase)
<1>1. /\ merged.phase = IF phase = "" THEN "Pending" ELSE phase
      /\ merged.conditions = Merged(runSeen.conditions, changed.conditions, run.conditions)
    BY DEF MergePatch
<1>2. Agrees(merged)
  <2>1. CASE runSeen = run
    <3>1. phase = changed.phase /\ merged.conditions = changed.conditions
        BY <1>1, <2>1 DEF Merged
    <3>. QED BY <1>1, <3>1 DEF Agrees
  <2>2. CASE run = NewRun(run.uid)
    <3>1. run.phase = "" /\ run.conditions.succeeded = "None"
        BY <2>2, NewRunFact
    <3>2. CASE changed.phase = runSeen.phase /\ changed.conditions = runSeen.conditions
        BY <1>1, <3>1, <3>2 DEF Merged, Agrees
    <3>3. CASE ~IsTerminalPhase(runSeen.phase)
        BY <1>1, <3>1, <3>3 DEF Merged, Agrees, Settled, IsTerminalPhase
    <3>. QED BY <3>2, <3>3
  <2>. QED BY <2>1, <2>2 DEF Settled
<1>. HIDE DEF merged
<1>3. \/ run' = merged /\ runSeen' = merged
      \/ UNCHANGED <<run, runSeen>>
    BY DEF PatchRunStatus, Publish, merged
<1>. QED BY <1>2, <1>3 DEF Settled

\* Every reconcile computes an outcome and its phase together, and only for a
\* run that has none.
LEMMA ReconcileSettled ==
    ASSUME ReadsOwnWrites, TypeOK, Settled, NEW ok \in BOOLEAN,
           Reconcile(ok) \/ ReconcileMountSource
    PROVE  Settled'
<1>. USE ConstantsAssumption
<1>a. /\ run \in RunVersions /\ runSeen \in RunVersions /\ now \in 0..MaxTime
      /\ Agrees(runSeen)
    BY DEF TypeOK, Settled
<1>b. ASSUME ~IsTerminalPhase(runSeen.phase), NEW changed \in RunVersions, Agrees(changed),
             NEW patched, NEW requeue, PatchRunStatus(changed, patched, requeue)
      PROVE  Settled'
    BY <1>b, PatchSettled
<1>c. ASSUME NEW v \in RunVersions, NEW reason \in Reasons
      PROVE  /\ FailRun(v, reason) \in RunVersions /\ Agrees(FailRun(v, reason))
             /\ [FailRun(v, reason) EXCEPT !.completionTime = now] \in RunVersions
             /\ Agrees([FailRun(v, reason) EXCEPT !.completionTime = now])
  <2>. DEFINE f == FailRun(v, reason)
  <2>1. f \in RunVersions /\ f.phase = "Failed" /\ f.conditions.succeeded = "False"
      BY FailRunFact
  <2>. HIDE DEF f
  <2>2. /\ [f EXCEPT !.completionTime = now] \in RunVersions
        /\ Agrees([f EXCEPT !.completionTime = now])
      BY <1>a, <2>1 DEF RunVersions, Agrees
  <2>. QED BY <2>1, <2>2 DEF Agrees, f
<1>d. ASSUME NEW v \in RunVersions, ~IsTerminalPhase(v.phase), NEW reason \in Reasons,
             NEW phase \in {"Pending", "Running"}
      PROVE  LET s == SetRunSucceeded(v, "Unknown", reason) IN
             /\ s \in RunVersions /\ Agrees(s)
             /\ [s EXCEPT !.phase = phase] \in RunVersions
             /\ Agrees([s EXCEPT !.phase = phase])
             /\ [s EXCEPT !.sandboxName = TRUE, !.phase = phase] \in RunVersions
             /\ Agrees([s EXCEPT !.sandboxName = TRUE, !.phase = phase])
  <2>. DEFINE s == SetRunSucceeded(v, "Unknown", reason)
  <2>1. s \in RunVersions /\ s.phase = v.phase /\ s.conditions.succeeded = "Unknown"
    <3>1. "Unknown" \in Statuses
        BY DEF Statuses
    <3>. QED BY <3>1, SetRunSucceededFact
  <2>. HIDE DEF s
  <2>2. Agrees(s)
      BY <1>d, <2>1 DEF Agrees, IsTerminalPhase
  <2>3. /\ [s EXCEPT !.phase = phase] \in RunVersions
        /\ Agrees([s EXCEPT !.phase = phase])
      BY <2>1 DEF RunVersions, Phases, Agrees
  <2>4. /\ [s EXCEPT !.sandboxName = TRUE, !.phase = phase] \in RunVersions
        /\ Agrees([s EXCEPT !.sandboxName = TRUE, !.phase = phase])
      BY <2>1 DEF RunVersions, Phases, Agrees
  <2>. QED BY <2>1, <2>2, <2>3, <2>4 DEF s
<1>e. /\ WithACPReady \in RunVersions /\ WithACPReady.phase = runSeen.phase
      /\ Agrees(WithACPReady)
    BY <1>a DEF WithACPReady, RunVersions, Agrees
<1>f. /\ {"AgentNotFound", "AgentNotReady", "SandboxCreated", "SandboxNotFound", "PodNotRunning",
          "Running", "FatalWaiting", "StartupDeadlineExceeded"} \subseteq Reasons
      /\ InvalidReasons \subseteq Reasons /\ SourceReasons \subseteq Reasons
      /\ CreateReasons \subseteq Reasons
    BY DEF Reasons
<1>g. Live => ~IsTerminalPhase(runSeen.phase)
    BY DEF Live
<1>h. AwaitingPod \/ WatchesSandbox => Live
    BY DEF AwaitingPod, WatchesSandbox
<1>1. CASE ReconcileMissing(ok)
    BY <1>1 DEF ReconcileMissing, Settled
<1>2. CASE ReconcileTTL(ok)
  <2>1. CASE UNCHANGED <<run, runSeen>>
      BY <2>1 DEF Settled
  <2>2. CASE PatchRunStatus([runSeen EXCEPT !.completionTime = now], ok, FALSE)
    <3>1. LET c == [runSeen EXCEPT !.completionTime = now] IN
          /\ c \in RunVersions /\ Agrees(c)
          /\ c.phase = runSeen.phase /\ c.conditions = runSeen.conditions
        BY <1>a DEF RunVersions, Agrees
    <3>. QED BY <2>2, <3>1, PatchSettled
  <2>3. CASE DeleteRun(ok)
      BY <2>3, NewRunAgrees DEF DeleteRun, Publish, Settled, NoRun, NewRun
  <2>. QED BY <1>2, <2>1, <2>2, <2>3 DEF ReconcileTTL
<1>4. CASE ReconcileAgentNotFound(ok)
    BY <1>4, <1>a, <1>b, <1>c, <1>f, <1>g DEF ReconcileAgentNotFound
<1>5. CASE ReconcileAgentNotReady(ok)
    BY <1>5, <1>a, <1>b, <1>d, <1>f, <1>g DEF ReconcileAgentNotReady
<1>6. CASE ReconcileInvalid(ok)
    BY <1>6, <1>a, <1>b, <1>c, <1>f, <1>g DEF ReconcileInvalid
<1>7. CASE ReconcileMountSource
    BY <1>7, <1>a, <1>b, <1>d, <1>f, <1>g DEF ReconcileMountSource
<1>8. CASE ReconcileCreate(ok)
  <2>1. CASE PatchRunStatus([SetRunSucceeded(runSeen, "Unknown", "SandboxCreated")
                               EXCEPT !.sandboxName = TRUE, !.phase = "Pending"], ok, FALSE)
      BY <1>8, <2>1, <1>a, <1>b, <1>d, <1>f, <1>g DEF ReconcileCreate
  <2>2. CASE \E reason \in CreateReasons, patched \in BOOLEAN :
                PatchRunStatus(SetRunSucceeded(runSeen, "Unknown", reason), patched, TRUE)
      BY <1>8, <2>2, <1>a, <1>b, <1>d, <1>f, <1>g DEF ReconcileCreate
  <2>. QED BY <1>8, <2>1, <2>2 DEF ReconcileCreate
<1>9. CASE ReconcileSandboxMissing(ok)
  <2>1. CASE UNCHANGED <<run, runSeen>>
      BY <2>1 DEF Settled
  <2>2. CASE PatchRunStatus(FailRun(runSeen, "SandboxNotFound"), ok, FALSE)
      BY <1>9, <2>2, <1>a, <1>b, <1>c, <1>f, <1>g DEF ReconcileSandboxMissing
  <2>. QED BY <1>9, <2>1, <2>2 DEF ReconcileSandboxMissing
<1>10. CASE ReconcileFinished(ok)
  <2>1. ASSUME NEW p \in Pods
        PROVE  /\ FinishRun(runSeen, p, sandboxSeen.finished) \in RunVersions
               /\ Agrees(FinishRun(runSeen, p, sandboxSeen.finished))
    <3>1. FinishRun(runSeen, p, sandboxSeen.finished) \in RunVersions
        BY <1>a, FinishRunFact
    <3>. DEFINE data == IF p.blob # NoBlob THEN p.blob ELSE runSeen.terminationData
                base == [runSeen EXCEPT !.completionTime = now,
                                        !.terminationData = data,
                                        !.conditions.acpReady = "False",
                                        !.conditions.verified = VerificationVerdict(data)]
                reason == OutcomeReason(p.exit, sandboxSeen.finished)
    <3>2. base \in RunVersions
      <4>1. data \in Blobs
          BY <1>a DEF Pods, RunVersions
      <4>2. VerificationVerdict(data) \in {"True", "False", "Unknown"}
          BY DEF VerificationVerdict
      <4>. HIDE DEF data
      <4>. QED BY <1>a, <4>1, <4>2 DEF RunVersions
    <3>3. reason \in Reasons
        BY DEF OutcomeReason, Reasons, HarnessReasons
    <3>4. FinishRun(runSeen, p, sandboxSeen.finished) =
            IF reason = "Succeeded"
            THEN [SetRunSucceeded(base, "True", reason) EXCEPT !.phase = "Succeeded"]
            ELSE FailRun(base, reason)
        BY DEF FinishRun, SetTerminalOutcome
    <3>. HIDE DEF base, reason
    <3>5. Agrees(FailRun(base, reason))
        BY <1>c, <3>2, <3>3
    <3>6. Agrees([SetRunSucceeded(base, "True", reason) EXCEPT !.phase = "Succeeded"])
      <4>. DEFINE s == SetRunSucceeded(base, "True", reason)
      <4>1. s \in RunVersions /\ s.conditions.succeeded = "True"
          BY <3>2, <3>3, SetRunSucceededFact DEF Statuses
      <4>. HIDE DEF s
      <4>2. "Succeeded" \in Phases
          BY DEF Phases
      <4>3. LET w == [s EXCEPT !.phase = "Succeeded"] IN
            w.phase = "Succeeded" /\ w.conditions = s.conditions
          BY <4>1, <4>2, SetPhaseFact
      <4>4. Agrees([s EXCEPT !.phase = "Succeeded"])
          BY <4>1, <4>3 DEF Agrees
      <4>. QED BY <4>4 DEF s
    <3>. QED BY <3>1, <3>4, <3>5, <3>6
  <2>2. \A fresh \in BOOLEAN : TerminalPod(fresh) \in Pods
      BY DEF TerminalPod, TypeOK
  <2>. QED BY <1>10, <2>1, <2>2, <1>b, <1>g DEF ReconcileFinished
<1>11. CASE ReconcileStillRunning(ok)
    BY <1>11, <1>b, <1>e, <1>g, <1>h DEF ReconcileStillRunning
<1>12. CASE ReconcileStuck(ok)
    BY <1>12, <1>b, <1>c, <1>e, <1>f, <1>g, <1>h DEF ReconcileStuck
<1>13. CASE ReconcileOverdue(ok)
    BY <1>13, <1>b, <1>c, <1>e, <1>f, <1>g, <1>h DEF ReconcileOverdue
<1>14. CASE ReconcilePending(ok)
    BY <1>14, <1>b, <1>d, <1>e, <1>f, <1>g, <1>h DEF ReconcilePending
<1>15. CASE ReconcileRunning(ok)
    BY <1>15, <1>b, <1>d, <1>e, <1>f, <1>g, <1>h DEF ReconcileRunning
<1>. QED BY <1>1, <1>2, <1>4, <1>5, <1>6, <1>7, <1>8, <1>9, <1>10, <1>11, <1>12, <1>13, <1>14, <1>15
         DEF Reconcile

\* Nobody but the reconciler and the user writes the run.
LEMMA OthersLeaveTheRun ==
    ASSUME Manager \/ Environment
    PROVE  /\ UNCHANGED run \/ (run.uid # 0 /\ run' = NoRun)
              \/ (run.uid = 0 /\ run' = NewRun(uids + 1))
           /\ runSeen' \in {run, runSeen}
<1>1. CASE Manager
    BY <1>1 DEF Manager, DeliverRun, SyncAgent, SyncSandbox, SyncPod, Wake, Restart, Tick
<1>2. CASE Environment
    BY <1>2 DEF Environment, AgentChange, PodCreate, PodStuck, PodStart, PodExit, PodLost,
                SandboxReady, SandboxFinish, CollectOwned, CollectPod, SandboxDelete, PodDelete,
                DropOwner, UserDelete, UserCreate, controllerVars
<1>. QED BY <1>1, <1>2

\* Settled is an invariant of a reconciler that reads its own writes.
THEOREM SettledKept == ASSUME ReadsOwnWrites PROVE Spec => []Settled
<1>1. Init => Settled
    BY NewRunAgrees DEF Init, Settled
<1>2. TypeOK /\ Settled /\ [Next]_vars => Settled'
  <2>. SUFFICES ASSUME TypeOK, Settled, [Next]_vars PROVE Settled'
      OBVIOUS
  <2>1. CASE ReconcileMountSource \/ \E ok \in BOOLEAN : Reconcile(ok)
      BY <2>1, ReconcileSettled
  <2>2. CASE Manager
    <3>1. UNCHANGED run
        BY <2>2 DEF Manager, DeliverRun, SyncAgent, SyncSandbox, SyncPod, Wake, Restart, Tick
    <3>. QED BY <2>2, <3>1, OthersLeaveTheRun DEF Settled
  <2>3. CASE Environment
    <3>1. UNCHANGED runSeen
        BY <2>3 DEF Environment, AgentChange, PodCreate, PodStuck, PodStart, PodExit, PodLost,
                SandboxReady, SandboxFinish, CollectOwned, CollectPod, SandboxDelete, PodDelete,
                DropOwner, UserDelete, UserCreate, controllerVars
    <3>2. UNCHANGED run \/ run' = NewRun(run'.uid)
        BY <2>3, OthersLeaveTheRun, NewRunFact DEF NoRun
    <3>3. Agrees(run') /\ Agrees(runSeen')
        BY <3>1, <3>2, NewRunAgrees DEF Settled
    <3>. QED BY <3>1, <3>2, <3>3 DEF Settled
  <2>4. CASE UNCHANGED vars
      BY <2>4 DEF Settled, vars
  <2>. QED BY <2>1, <2>2, <2>3, <2>4 DEF Next, ReconcileFails
<1>. QED BY <1>1, <1>2, TypeCorrect, PTL DEF Spec

\* The phase and the Succeeded condition name the same outcome, for every
\* number of runs of the name and whatever is deleted, restarted or retried.
THEOREM PhasesAgree == ASSUME ReadsOwnWrites PROVE Spec => []PhaseMatchesOutcome
<1>1. Settled => PhaseMatchesOutcome
    BY DEF Settled, Agrees, PhaseMatchesOutcome
<1>. QED BY <1>1, SettledKept, PTL

\* A terminal run keeps its outcome, verdict and termination data for as long
\* as the object exists.
THEOREM TerminalKept == ASSUME ReadsOwnWrites PROVE Spec => TerminalStable
<1>. DEFINE Kept == /\ run'.phase = run.phase
                    /\ run'.conditions = run.conditions
                    /\ run'.terminationData = run.terminationData
<1>1. TypeOK /\ Settled /\ [Next]_vars =>
        [IsTerminalPhase(run.phase) /\ run'.uid = run.uid => Kept]_vars
  <2>. SUFFICES ASSUME TypeOK, Settled, Next, IsTerminalPhase(run.phase), run'.uid = run.uid
                PROVE  Kept
      OBVIOUS
  <2>1. runSeen = run
      BY NewRunFact DEF Settled
  <2>2. ~Live /\ ~WatchesSandbox /\ ~AwaitingPod
      BY <2>1 DEF Live, WatchesSandbox, AwaitingPod
  <2>3. CASE ReconcileMountSource \/ \E ok \in BOOLEAN : Reconcile(ok)
    <3>1. CASE \E ok \in BOOLEAN : ReconcileTTL(ok)
      <4>. DEFINE c == [runSeen EXCEPT !.completionTime = now]
      <4>0. PICK ok \in BOOLEAN : ReconcileTTL(ok)
          BY <3>1
      <4>1. CASE UNCHANGED <<run, runSeen>>
          BY <4>1
      <4>2. CASE PatchRunStatus(c, ok, FALSE)
        <5>1. /\ c.phase = run.phase /\ c.conditions = run.conditions
              /\ c.terminationData = run.terminationData
            BY <2>1 DEF TypeOK, RunVersions
        <5>. HIDE DEF c
        <5>2. LET m == MergePatch(runSeen, c, run) IN
              /\ m.phase = run.phase /\ m.conditions = run.conditions
              /\ m.terminationData = run.terminationData
            BY <2>1, <5>1 DEF MergePatch, Merged, IsTerminalPhase
        <5>. QED BY <4>2, <5>2 DEF PatchRunStatus, Publish
      <4>3. CASE DeleteRun(ok)
          BY <4>3, NewRunFact DEF DeleteRun, Publish, NoRun
      <4>. QED BY <4>0, <4>1, <4>2, <4>3 DEF ReconcileTTL
    <3>2. CASE \E ok \in BOOLEAN : ReconcileMissing(ok)
        BY <3>2 DEF ReconcileMissing
    <3>. QED BY <2>2, <2>3, <3>1, <3>2 DEF Reconcile, ReconcileMountSource, ReconcileAgentNotFound,
            ReconcileAgentNotReady, ReconcileInvalid, ReconcileCreate, ReconcileSandboxMissing,
            ReconcileFinished, ReconcileStillRunning, ReconcileStuck, ReconcileOverdue,
            ReconcilePending, ReconcileRunning, Live
  <2>4. CASE Manager \/ Environment
    <3>1. uids + 1 # 0
        BY ConstantsAssumption DEF TypeOK, Uids
    <3>. QED BY <2>4, <3>1, OthersLeaveTheRun, NewRunFact DEF NoRun
  <2>. QED BY <2>3, <2>4 DEF Next, ReconcileFails
<1>. QED BY <1>1, SettledKept, TypeCorrect, PTL DEF Spec, TerminalStable

-----------------------------------------------------------------------------
(* What one reconcile may do to the run, whatever way it takes.              *)

\* What the status a reconcile writes has to do with the copy it read: a phase
\* changes only on a run that has none of the final ones; Running is entered
\* with a Sandbox and left with an outcome; the name of the Sandbox is recorded
\* when there is one, and SandboxNotFound when there is none.
MayWrite(w) ==
    /\ w \in RunVersions
    /\ w.phase # runSeen.phase =>
         /\ ~IsTerminalPhase(runSeen.phase) /\ w.phase # ""
         /\ w.phase = "Pending" => ~runSeen.sandboxName \/ runSeen.phase # "Running"
         /\ w.phase = "Running" => runSeen.sandboxName
    /\ w.sandboxName => runSeen.sandboxName \/ sandbox'.uid # 0
    /\ runSeen.sandboxName => w.sandboxName
    /\ w.conditions.reason = "SandboxNotFound" =>
         \/ runSeen.conditions.reason = "SandboxNotFound"
         \/ runSeen.sandboxName /\ sandbox.uid = 0

\* The copy the reconcile read has been terminal for its lifetime.
ExpiredCopy ==
    /\ IsTerminalPhase(runSeen.phase) /\ HasTTL
    /\ runSeen.completionTime # 0 /\ now >= runSeen.completionTime + TTL

\* Only the status of the run is written, or nothing, or the run is deleted.
Effect ==
    \/ UNCHANGED <<run, runSeen>>
    \/ ExpiredCopy /\ \E ok \in BOOLEAN : DeleteRun(ok)
    \/ \E w : MayWrite(w) /\ \E ok, requeue \in BOOLEAN : PatchRunStatus(w, ok, requeue)

\* The helpers that build a status leave the name of the Sandbox alone.
LEMMA SandboxNameFact ==
    ASSUME NEW v \in RunVersions
    PROVE  /\ \A status, reason : SetRunSucceeded(v, status, reason).sandboxName = v.sandboxName
           /\ \A reason : FailRun(v, reason).sandboxName = v.sandboxName
           /\ \A phase : [v EXCEPT !.phase = phase].sandboxName = v.sandboxName
           /\ \A time : [v EXCEPT !.completionTime = time].sandboxName = v.sandboxName
           /\ \A p, finished : FinishRun(v, p, finished).sandboxName = v.sandboxName
<1>1. \A status, reason : SetRunSucceeded(v, status, reason).sandboxName = v.sandboxName
    BY DEF SetRunSucceeded, RunVersions
<1>2. \A reason : FailRun(v, reason).sandboxName = v.sandboxName
    BY DEF FailRun, SetRunSucceeded, RunVersions
<1>3. \A phase : [v EXCEPT !.phase = phase].sandboxName = v.sandboxName
    BY DEF RunVersions
<1>4. \A time : [v EXCEPT !.completionTime = time].sandboxName = v.sandboxName
    BY DEF RunVersions
<1>5. \A p, finished : FinishRun(v, p, finished).sandboxName = v.sandboxName
    BY DEF FinishRun, SetTerminalOutcome, FailRun, SetRunSucceeded, RunVersions
<1>. QED BY <1>1, <1>2, <1>3, <1>4, <1>5

\* The Finished branch always ends the run, with one of the harness's reasons.
LEMMA FinishRunPhase ==
    ASSUME NEW v \in RunVersions, NEW p \in Pods, NEW finished, now \in 0..MaxTime, NEW w,
           w = FinishRun(v, p, finished)
    PROVE  w.phase \in {"Succeeded", "Failed"} /\ w.conditions.reason \in HarnessReasons
<1>. DEFINE data == IF p.blob # NoBlob THEN p.blob ELSE v.terminationData
            base == [v EXCEPT !.completionTime = now,
                              !.terminationData = data,
                              !.conditions.acpReady = "False",
                              !.conditions.verified = VerificationVerdict(data)]
            reason == OutcomeReason(p.exit, finished)
            s == SetRunSucceeded(base, "True", reason)
<1>1. base \in RunVersions
  <2>1. data \in Blobs
      BY DEF Pods, RunVersions
  <2>2. VerificationVerdict(data) \in {"True", "False", "Unknown"}
      BY DEF VerificationVerdict
  <2>. HIDE DEF data
  <2>. QED BY <2>1, <2>2 DEF RunVersions
<1>2. reason \in HarnessReasons
    BY DEF OutcomeReason, HarnessReasons
<1>3. reason \in Reasons /\ "True" \in Statuses /\ "Succeeded" \in Phases
    BY <1>2 DEF Reasons, Statuses, Phases
<1>4. w = IF reason = "Succeeded" THEN [s EXCEPT !.phase = "Succeeded"] ELSE FailRun(base, reason)
    BY DEF FinishRun, SetTerminalOutcome
<1>. HIDE DEF base, reason
<1>5. s \in RunVersions /\ s.conditions.reason = reason
    BY <1>1, <1>3, SetRunSucceededFact
<1>. HIDE DEF s
<1>6. CASE reason = "Succeeded"
    BY <1>2, <1>3, <1>4, <1>5, <1>6, SetPhaseFact
<1>7. CASE reason # "Succeeded"
    BY <1>1, <1>2, <1>3, <1>4, <1>7, FailRunFact
<1>. QED BY <1>6, <1>7

\* The reconciles that leave the name of the Sandbox alone.
LEMMA MayWriteFact ==
    ASSUME NEW w \in RunVersions, runSeen \in RunVersions, w.sandboxName = runSeen.sandboxName,
           \/ w.conditions.reason # "SandboxNotFound"
           \/ w.conditions.reason = runSeen.conditions.reason
           \/ runSeen.sandboxName /\ sandbox.uid = 0,
           \/ w.phase = runSeen.phase
           \/ ~IsTerminalPhase(runSeen.phase) /\ w.phase \in {"Succeeded", "Failed"}
           \/ /\ ~IsTerminalPhase(runSeen.phase) /\ runSeen.sandboxName
              /\ runSeen.phase # "Running" /\ w.phase \in {"Pending", "Running"}
    PROVE  MayWrite(w)
<1>1. w.phase # runSeen.phase =>
         /\ ~IsTerminalPhase(runSeen.phase) /\ w.phase # ""
         /\ w.phase = "Pending" => ~runSeen.sandboxName \/ runSeen.phase # "Running"
         /\ w.phase = "Running" => runSeen.sandboxName
    OBVIOUS
<1>2. /\ w.sandboxName => runSeen.sandboxName \/ sandbox'.uid # 0
      /\ runSeen.sandboxName => w.sandboxName
    OBVIOUS
<1>3. w.conditions.reason = "SandboxNotFound" =>
         \/ runSeen.conditions.reason = "SandboxNotFound"
         \/ runSeen.sandboxName /\ sandbox.uid = 0
    OBVIOUS
<1>. QED BY <1>1, <1>2, <1>3 DEF MayWrite

\* Every way through Reconcile has such an effect.
LEMMA ReconcileEffect ==
    ASSUME TypeOK, NEW ok \in BOOLEAN, Reconcile(ok) \/ ReconcileMountSource
    PROVE  Effect
<1>. USE ConstantsAssumption
<1>a. runSeen \in RunVersions /\ now \in 0..MaxTime
    BY DEF TypeOK
<1>b. ASSUME NEW w, MayWrite(w), NEW patched \in BOOLEAN, NEW requeue \in BOOLEAN,
             PatchRunStatus(w, patched, requeue)
      PROVE  Effect
    BY <1>b DEF Effect
<1>c. ASSUME NEW v \in RunVersions, v.sandboxName = runSeen.sandboxName,
             ~IsTerminalPhase(runSeen.phase), NEW reason \in Reasons,
             reason # "SandboxNotFound" \/ (runSeen.sandboxName /\ sandbox.uid = 0)
      PROVE  MayWrite(FailRun(v, reason))
  <2>1. PICK w : w = FailRun(v, reason)
      OBVIOUS
  <2>2. w \in RunVersions /\ w.phase = "Failed" /\ w.conditions.reason = reason
      BY <2>1, FailRunFact
  <2>3. w.sandboxName = runSeen.sandboxName
      BY <1>c, <2>1, SandboxNameFact
  <2>. QED BY <1>a, <1>c, <2>1, <2>2, <2>3, MayWriteFact
<1>d. ASSUME NEW v \in RunVersions, v.sandboxName = runSeen.sandboxName, v.phase = runSeen.phase,
             NEW reason \in Reasons, reason # "SandboxNotFound"
      PROVE  /\ MayWrite(SetRunSucceeded(v, "Unknown", reason))
             /\ ~IsTerminalPhase(runSeen.phase) /\ runSeen.sandboxName /\ runSeen.phase # "Running" =>
                  \A phase \in {"Pending", "Running"} :
                    MayWrite([SetRunSucceeded(v, "Unknown", reason) EXCEPT !.phase = phase])
  <2>1. PICK s : s = SetRunSucceeded(v, "Unknown", reason)
      OBVIOUS
  <2>2. s \in RunVersions /\ s.phase = runSeen.phase /\ s.conditions.reason = reason
    <3>1. "Unknown" \in Statuses
        BY DEF Statuses
    <3>. QED BY <1>d, <2>1, <3>1, SetRunSucceededFact
  <2>3. s.sandboxName = runSeen.sandboxName
      BY <1>d, <2>1, SandboxNameFact
  <2>4. MayWrite(s)
      BY <1>a, <1>d, <2>2, <2>3, MayWriteFact
  <2>5. ASSUME ~IsTerminalPhase(runSeen.phase), runSeen.sandboxName,
               runSeen.phase # "Running", NEW phase \in {"Pending", "Running"}
        PROVE  MayWrite([s EXCEPT !.phase = phase])
    <3>1. PICK w : w = [s EXCEPT !.phase = phase]
        OBVIOUS
    <3>2. w \in RunVersions /\ w.phase = phase /\ w.conditions = s.conditions
      <4>1. phase \in Phases
          BY DEF Phases
      <4>. QED BY <2>2, <3>1, <4>1, SetPhaseFact
    <3>3. w.sandboxName = runSeen.sandboxName
        BY <2>2, <2>3, <3>1, SandboxNameFact
    <3>. QED BY <1>a, <1>d, <2>2, <2>5, <3>1, <3>2, <3>3, MayWriteFact
  <2>. QED BY <2>1, <2>4, <2>5
<1>e. /\ WithACPReady \in RunVersions /\ WithACPReady.phase = runSeen.phase
      /\ WithACPReady.conditions.reason = runSeen.conditions.reason
      /\ WithACPReady.sandboxName = runSeen.sandboxName
  <2>1. /\ WithACPReady \in RunVersions /\ WithACPReady.phase = runSeen.phase
        /\ WithACPReady.conditions.reason = runSeen.conditions.reason
      BY <1>a DEF WithACPReady, RunVersions
  <2>2. WithACPReady.sandboxName = runSeen.sandboxName
      BY <1>a DEF WithACPReady, RunVersions
  <2>. QED BY <2>1, <2>2
<1>f. ASSUME NEW w, MayWrite(w) PROVE MayWrite([w EXCEPT !.completionTime = now])
  <2>1. PICK t : t = [w EXCEPT !.completionTime = now]
      OBVIOUS
  <2>2. w \in RunVersions
      BY <1>f DEF MayWrite
  <2>3. t \in RunVersions /\ t.phase = w.phase /\ t.conditions = w.conditions
      BY <1>a, <2>1, <2>2 DEF RunVersions
  <2>4. t.sandboxName = w.sandboxName
      BY <2>1, <2>2, SandboxNameFact
  <2>. QED BY <1>f, <2>1, <2>3, <2>4 DEF MayWrite
<1>g. /\ {"AgentNotFound", "AgentNotReady", "SandboxCreated", "PodNotRunning", "Running",
          "FatalWaiting", "StartupDeadlineExceeded"} \subseteq Reasons \ {"SandboxNotFound"}
      /\ InvalidReasons \subseteq Reasons \ {"SandboxNotFound"}
      /\ SourceReasons \subseteq Reasons \ {"SandboxNotFound"}
      /\ CreateReasons \subseteq Reasons \ {"SandboxNotFound"}
      /\ "SandboxNotFound" \in Reasons
    BY DEF Reasons, InvalidReasons, SourceReasons, CreateReasons
<1>h. /\ Live => ~IsTerminalPhase(runSeen.phase) /\ runSeen.uid # 0
      /\ WatchesSandbox => Live /\ runSeen.sandboxName
      /\ AwaitingPod => WatchesSandbox /\ runSeen.phase # "Running"
    BY DEF Live, Reconciling, WatchesSandbox, AwaitingPod
<1>1. CASE ReconcileMissing(ok)
    BY <1>1 DEF ReconcileMissing, Effect
<1>2. CASE ReconcileTTL(ok)
  <2>1. CASE UNCHANGED <<run, runSeen>>
      BY <2>1 DEF Effect
  <2>2. CASE PatchRunStatus([runSeen EXCEPT !.completionTime = now], ok, FALSE)
    <3>1. MayWrite(runSeen)
        BY <1>a, MayWriteFact
    <3>. QED BY <2>2, <3>1, <1>b, <1>f
  <2>3. CASE /\ HasTTL /\ runSeen.completionTime # 0 /\ now >= runSeen.completionTime + TTL
             /\ DeleteRun(ok)
      BY <1>2, <2>3 DEF ReconcileTTL, ExpiredCopy, Effect
  <2>. QED BY <1>2, <2>1, <2>2, <2>3 DEF ReconcileTTL
<1>4. CASE ReconcileAgentNotFound(ok)
    BY <1>4, <1>a, <1>b, <1>c, <1>g, <1>h DEF ReconcileAgentNotFound
<1>5. CASE ReconcileAgentNotReady(ok)
    BY <1>5, <1>a, <1>b, <1>d, <1>g DEF ReconcileAgentNotReady
<1>6. CASE ReconcileInvalid(ok)
    BY <1>6, <1>a, <1>b, <1>c, <1>g, <1>h DEF ReconcileInvalid
<1>7. CASE ReconcileMountSource
    BY <1>7, <1>a, <1>b, <1>d, <1>g DEF ReconcileMountSource
<1>8. CASE ReconcileCreate(ok)
  <2>0. ~IsTerminalPhase(runSeen.phase) /\ runSeen.uid # 0 /\ ~runSeen.sandboxName
      BY <1>8, <1>h DEF ReconcileCreate
  <2>1. CASE /\ CreateSandbox(3)
             /\ PatchRunStatus([SetRunSucceeded(runSeen, "Unknown", "SandboxCreated")
                               EXCEPT !.sandboxName = TRUE, !.phase = "Pending"], ok, FALSE)
    <3>1. PICK s : s = SetRunSucceeded(runSeen, "Unknown", "SandboxCreated")
        OBVIOUS
    <3>2. s \in RunVersions /\ s.conditions.reason = "SandboxCreated"
      <4>1. "Unknown" \in Statuses /\ "SandboxCreated" \in Reasons
          BY <1>g DEF Statuses
      <4>. QED BY <1>a, <3>1, <4>1, SetRunSucceededFact
    <3>3. PICK w : w = [s EXCEPT !.sandboxName = TRUE, !.phase = "Pending"]
        OBVIOUS
    <3>4. w \in RunVersions /\ w.phase = "Pending" /\ w.conditions = s.conditions
        BY <3>2, <3>3 DEF RunVersions, Phases
    <3>5. sandbox'.uid # 0
      <4>1. PICK new : new = [NoSandbox EXCEPT !.uid = runSeen.uid, !.owned = TRUE, !.created = now]
          OBVIOUS
      <4>2. new.uid = runSeen.uid
          BY <4>1 DEF NoSandbox
      <4>3. sandbox' = IF sandbox.uid = 0 THEN new ELSE sandbox
          BY <2>1, <4>1 DEF CreateSandbox
      <4>. QED BY <2>0, <4>2, <4>3
    <3>6. w.conditions.reason # "SandboxNotFound"
        BY <3>2, <3>4
    <3>7. MayWrite(w)
        BY <2>0, <3>4, <3>5, <3>6 DEF MayWrite
    <3>. QED BY <2>1, <3>1, <3>3, <3>7, <1>b
  <2>2. CASE \E reason \in CreateReasons, patched \in BOOLEAN :
                PatchRunStatus(SetRunSucceeded(runSeen, "Unknown", reason), patched, TRUE)
      BY <2>2, <1>a, <1>b, <1>d, <1>g
  <2>. QED BY <1>8, <2>1, <2>2 DEF ReconcileCreate
<1>9. CASE ReconcileSandboxMissing(ok)
  <2>1. CASE UNCHANGED <<run, runSeen>>
      BY <2>1 DEF Effect
  <2>2. CASE sandbox.uid = 0 /\ PatchRunStatus(FailRun(runSeen, "SandboxNotFound"), ok, FALSE)
    <3>1. MayWrite(FailRun(runSeen, "SandboxNotFound"))
        BY <1>9, <2>2, <1>a, <1>c, <1>g, <1>h DEF ReconcileSandboxMissing
    <3>. QED BY <2>2, <3>1, <1>b
  <2>. QED BY <1>9, <2>1, <2>2 DEF ReconcileSandboxMissing
<1>10. CASE ReconcileFinished(ok)
  <2>1. ASSUME NEW fresh \in BOOLEAN
        PROVE  MayWrite(FinishRun(runSeen, TerminalPod(fresh), sandboxSeen.finished))
    <3>1. PICK p : p = TerminalPod(fresh)
        OBVIOUS
    <3>2. p \in Pods
        BY <3>1 DEF TerminalPod, TypeOK
    <3>3. PICK w : w = FinishRun(runSeen, p, sandboxSeen.finished)
        OBVIOUS
    <3>4. w \in RunVersions
        BY <1>a, <3>2, <3>3, FinishRunFact
    <3>5. w.phase \in {"Succeeded", "Failed"} /\ w.conditions.reason \in HarnessReasons
        BY <1>a, <3>2, <3>3, FinishRunPhase
    <3>6. w.conditions.reason # "SandboxNotFound"
        BY <3>5 DEF HarnessReasons
    <3>7. w.sandboxName = runSeen.sandboxName
        BY <1>a, <3>3, SandboxNameFact
    <3>. QED BY <1>10, <1>a, <1>h, <3>1, <3>3, <3>4, <3>5, <3>6, <3>7, MayWriteFact
         DEF ReconcileFinished
  <2>. QED BY <1>10, <2>1, <1>b DEF ReconcileFinished
<1>11. CASE ReconcileStillRunning(ok)
  <2>1. MayWrite(WithACPReady)
      BY <1>a, <1>e, MayWriteFact
  <2>. QED BY <1>11, <2>1, <1>b DEF ReconcileStillRunning
<1>12. CASE ReconcileStuck(ok)
    BY <1>12, <1>b, <1>c, <1>e, <1>f, <1>g, <1>h DEF ReconcileStuck
<1>13. CASE ReconcileOverdue(ok)
    BY <1>13, <1>b, <1>c, <1>e, <1>f, <1>g, <1>h DEF ReconcileOverdue
<1>14. CASE ReconcilePending(ok)
    BY <1>14, <1>b, <1>d, <1>e, <1>g, <1>h DEF ReconcilePending
<1>15. CASE ReconcileRunning(ok)
    BY <1>15, <1>b, <1>d, <1>e, <1>g, <1>h DEF ReconcileRunning
<1>. QED BY <1>1, <1>2, <1>4, <1>5, <1>6, <1>7, <1>8, <1>9, <1>10, <1>11, <1>12, <1>13, <1>14, <1>15
         DEF Reconcile

\* What a status patch does to the run and to the cached copy.
LEMMA PatchFact ==
    ASSUME TypeOK, NEW w \in RunVersions, NEW ok, NEW requeue, PatchRunStatus(w, ok, requeue)
    PROVE  \/ UNCHANGED <<run, runSeen>>
           \/ /\ run.uid # 0 /\ run'.uid = run.uid
              /\ run' = MergePatch(runSeen, w, run)
              /\ runSeen' = IF ReadsOwnWrites THEN run' ELSE runSeen
<1>1. PICK m : m = MergePatch(runSeen, w, run)
    OBVIOUS
<1>2. m.uid = run.uid
    BY <1>1, MergePatchFact DEF TypeOK
<1>3. \/ UNCHANGED <<run, runSeen>>
      \/ run.uid # 0 /\ run' = m /\ runSeen' = IF ReadsOwnWrites THEN m ELSE runSeen
    BY <1>1 DEF PatchRunStatus, Publish
<1>. QED BY <1>1, <1>2, <1>3

\* What a reconcile does to the other objects: it creates a Sandbox of the run
\* it read, and removes the Sandbox and the pod only of a run that is gone.
LEMMA ReconcileRest ==
    ASSUME TypeOK, NEW ok \in BOOLEAN, Reconcile(ok) \/ ReconcileMountSource
    PROVE  /\ UNCHANGED <<now, uids, reports>>
           /\ sandbox'.uid \in {0, sandbox.uid, runSeen.uid}
           /\ run.uid # 0 /\ sandbox.uid # 0 => sandbox'.uid # 0
           /\ pod'.of \in {0, pod.of}
<1>1. UNCHANGED <<now, uids, reports>>
    BY DEF Reconcile, ReconcileMountSource, ReconcileMissing, ReconcileTTL, ReconcileAgentNotFound,
        ReconcileAgentNotReady, ReconcileInvalid, ReconcileCreate, ReconcileSandboxMissing,
        ReconcileFinished, ReconcileStillRunning, ReconcileStuck, ReconcileOverdue,
        ReconcilePending, ReconcileRunning, historyVars
<1>2. CASE ReconcileMissing(ok)
  <2>1. CASE UNCHANGED <<sandbox, pod>>
      BY <1>1, <2>1
  <2>2. CASE run.uid = 0 /\ \E calls \in 0..4 :
               /\ sandbox' = IF calls >= 1 /\ sandboxSeen.uid # 0 THEN NoSandbox ELSE sandbox
               /\ pod' = IF calls = 4 /\ podSeen.of # 0 /\ sandbox'.uid # podSeen.of
                         THEN NoPod ELSE pod
    <3>1. sandbox' \in {sandbox, NoSandbox} /\ pod' \in {pod, NoPod}
        BY <2>2
    <3>2. NoSandbox.uid = 0 /\ NoPod.of = 0
        BY DEF NoSandbox, NoPod
    <3>. QED BY <1>1, <2>2, <3>1, <3>2
  <2>. QED BY <1>2, <2>1, <2>2 DEF ReconcileMissing
<1>3. CASE ReconcileCreate(ok)
  <2>0. pod' = pod
      BY <1>3 DEF ReconcileCreate
  <2>1. PICK new : new = [NoSandbox EXCEPT !.uid = runSeen.uid, !.owned = TRUE, !.created = now]
      OBVIOUS
  <2>2. new.uid = runSeen.uid
      BY <2>1 DEF NoSandbox
  <2>3. sandbox' = sandbox \/ (sandbox.uid = 0 /\ sandbox' = new)
    <3>1. ASSUME NEW writes, CreateSandbox(writes)
          PROVE  sandbox' = sandbox \/ (sandbox.uid = 0 /\ sandbox' = new)
        BY <2>1, <3>1 DEF CreateSandbox
    <3>. QED BY <1>3, <3>1 DEF ReconcileCreate
  <2>. QED BY <1>1, <2>0, <2>2, <2>3
<1>4. CASE ~ReconcileMissing(ok) /\ ~ReconcileCreate(ok)
  <2>1. UNCHANGED <<sandbox, pod>>
      BY <1>4 DEF Reconcile, ReconcileMountSource, ReconcileTTL, ReconcileAgentNotFound,
        ReconcileAgentNotReady, ReconcileInvalid, ReconcileSandboxMissing,
        ReconcileFinished, ReconcileStillRunning, ReconcileStuck, ReconcileOverdue,
        ReconcilePending, ReconcileRunning, clusterVars
  <2>. QED BY <1>1, <2>1
<1>. QED BY <1>2, <1>3, <1>4

\* What the manager's informers and the other actors do, in the same terms.
LEMMA OthersFact ==
    ASSUME TypeOK, Manager \/ Environment
    PROVE  /\ run' = run \/ "user" \in Faults
           /\ \/ sandbox'.uid = sandbox.uid
              \/ sandbox'.uid = 0 /\ (sandbox.uid # run.uid \/ "deleteSandbox" \in Faults)
           /\ pod'.of \in {0, pod.of, sandbox.uid}
           /\ reports' = reports \/ \E r : r.uid = pod.of /\ reports' = reports \cup {r}
           /\ reports' # reports => run' = run
<1>a. NoSandbox.uid = 0 /\ NoPod.of = 0
    BY DEF NoSandbox, NoPod
<1>b. sandbox \in Sandboxes /\ pod \in Pods
    BY DEF TypeOK
<1>1. CASE Manager
  <2>1. UNCHANGED <<run, sandbox, pod, reports>>
      BY <1>1 DEF Manager, DeliverRun, SyncAgent, SyncSandbox, SyncPod, Wake, Restart, Tick,
           clusterVars, historyVars
  <2>. QED BY <2>1
<1>2. CASE AgentChange \/ UserDelete \/ UserCreate
    BY <1>2 DEF AgentChange, UserDelete, UserCreate, historyVars
<1>3. CASE PodCreate
  <2>1. pod'.of = sandbox.uid
      BY <1>3 DEF PodCreate, NoPod
  <2>. QED BY <1>3, <2>1 DEF PodCreate, historyVars
<1>4. CASE PodStuck \/ PodStart \/ PodLost
  <2>1. pod'.of = pod.of
      BY <1>4, <1>b DEF PodStuck, PodStart, PodLost, Pods
  <2>. QED BY <1>4, <2>1 DEF PodStuck, PodStart, PodLost, historyVars
<1>5. CASE PodExit
  <2>1. PICK code \in ExitCodes, blob \in Blobs :
          /\ pod' = [pod EXCEPT !.phase = IF code = 0 THEN "Succeeded" ELSE "Failed",
                                !.exit = code, !.blob = blob]
          /\ reports' = reports \cup {[uid |-> pod.of, exit |-> code, blob |-> blob]}
      BY <1>5 DEF PodExit
  <2>2. pod'.of = pod.of
      BY <2>1, <1>b DEF Pods
  <2>3. PICK r : r = [uid |-> pod.of, exit |-> code, blob |-> blob]
      OBVIOUS
  <2>4. r.uid = pod.of
      BY <2>3
  <2>. QED BY <1>5, <2>1, <2>2, <2>3, <2>4 DEF PodExit
<1>6. CASE SandboxReady \/ SandboxFinish \/ DropOwner
  <2>1. sandbox'.uid = sandbox.uid
      BY <1>6, <1>b DEF SandboxReady, SandboxFinish, DropOwner, Sandboxes
  <2>. QED BY <1>6, <2>1 DEF SandboxReady, SandboxFinish, DropOwner, historyVars
<1>7. CASE CollectOwned \/ SandboxDelete
    BY <1>7, <1>a DEF CollectOwned, SandboxDelete, historyVars
<1>8. CASE CollectPod \/ PodDelete
    BY <1>8, <1>a DEF CollectPod, PodDelete, historyVars
<1>. QED BY <1>1, <1>2, <1>3, <1>4, <1>5, <1>6, <1>7, <1>8 DEF Environment

-----------------------------------------------------------------------------
(* One object of the name.  Nobody but the user creates runs, so where users  *)
(* create none, or the name is used once, every uid in sight is that run's.   *)

OneObject == MaxUid = 1 \/ "user" \notin Faults

One ==
    /\ run.uid \in {0, 1} /\ runSeen.uid \in {0, 1}
    /\ sandbox.uid \in {0, 1} /\ pod.of \in {0, 1}
    /\ \A r \in reports : r.uid = 1

\* One is an invariant.
THEOREM OneKept == ASSUME OneObject PROVE Spec => []One
<1>a. NoRun.uid = 0 /\ NewRun(1).uid = 1 /\ NoSandbox.uid = 0 /\ NoPod.of = 0
    BY DEF NoRun, NewRun, NoSandbox, NoPod
<1>1. Init => One
    BY <1>a DEF Init, One
<1>2. TypeOK /\ TypeOK' /\ One /\ [Next]_vars => One'
  <2>. SUFFICES ASSUME TypeOK, TypeOK', One, [Next]_vars PROVE One'
      OBVIOUS
  <2>1. CASE ReconcileMountSource \/ \E ok \in BOOLEAN : Reconcile(ok)
    <3>1. /\ UNCHANGED reports
          /\ sandbox'.uid \in {0, sandbox.uid, runSeen.uid} /\ pod'.of \in {0, pod.of}
        BY <2>1, ReconcileRest
    <3>2. Effect
        BY <2>1, ReconcileEffect
    <3>3. run'.uid \in {0, 1} /\ runSeen'.uid \in {0, 1}
      <4>1. CASE UNCHANGED <<run, runSeen>>
          BY <4>1 DEF One
      <4>2. CASE \E ok \in BOOLEAN : DeleteRun(ok)
          BY <4>2, <1>a DEF DeleteRun, Publish, One
      <4>3. CASE \E w : MayWrite(w) /\ \E ok, requeue \in BOOLEAN : PatchRunStatus(w, ok, requeue)
          BY <4>3, PatchFact DEF MayWrite, One
      <4>. QED BY <3>2, <4>1, <4>2, <4>3 DEF Effect
    <3>. QED BY <3>1, <3>3 DEF One
  <2>2. CASE Manager \/ Environment
    <3>1. /\ sandbox'.uid \in {0, sandbox.uid} /\ pod'.of \in {0, pod.of, sandbox.uid}
          /\ reports' = reports \/ \E r : r.uid = pod.of /\ reports' = reports \cup {r}
        BY <2>2, OthersFact
    <3>2. run'.uid \in {0, 1} /\ runSeen'.uid \in {0, 1}
      <4>1. CASE MaxUid = 1
        <5>1. run'.uid \in 0..1 /\ runSeen'.uid \in 0..1
            BY <4>1 DEF TypeOK, RunVersions
        <5>. QED BY <5>1
      <4>2. CASE "user" \notin Faults
        <5>1. run' = run
            BY <2>2, <4>2, OthersFact
        <5>2. runSeen' \in {run, runSeen}
            BY <2>2, OthersLeaveTheRun
        <5>. QED BY <5>1, <5>2 DEF One
      <4>. QED BY <4>1, <4>2 DEF OneObject
    <3>3. \A r \in reports' : r.uid = 1
      <4>1. \A r \in reports' : r.uid \in {0, 1}
          BY <3>1 DEF One
      <4>2. \A r \in reports' : r.uid # 0
          BY ConstantsAssumption DEF TypeOK, Uids
      <4>. QED BY <4>1, <4>2
    <3>. QED BY <3>1, <3>2, <3>3 DEF One
  <2>3. CASE UNCHANGED vars
      BY <2>3 DEF One, vars, clusterVars, historyVars
  <2>. QED BY <2>1, <2>2, <2>3 DEF Next, ReconcileFails
<1>. QED BY <1>1, <1>2, TypeCorrect, PTL DEF Spec

\* With one object, nobody creates a second.
LEMMA OthersDelete ==
    ASSUME OneObject, TypeOK, Manager \/ Environment
    PROVE  run' = run \/ (run.uid # 0 /\ run' = NoRun)
<1>1. ~UserCreate
  <2>1. CASE MaxUid = 1
    <3>1. uids \in 1..1
        BY <2>1 DEF TypeOK, Uids
    <3>2. ~(uids < MaxUid)
        BY <2>1, <3>1
    <3>. QED BY <3>2 DEF UserCreate
  <2>2. CASE "user" \notin Faults
      BY <2>2 DEF UserCreate
  <2>. QED BY <2>1, <2>2 DEF OneObject
<1>2. CASE Manager
    BY <1>2 DEF Manager, DeliverRun, SyncAgent, SyncSandbox, SyncPod, Wake, Restart, Tick
<1>3. CASE Environment
    BY <1>1, <1>3 DEF Environment, AgentChange, PodCreate, PodStuck, PodStart, PodExit, PodLost,
            SandboxReady, SandboxFinish, CollectOwned, CollectPod, SandboxDelete, PodDelete,
            DropOwner, UserDelete
<1>. QED BY <1>2, <1>3

\* With one object and a cache that holds the reconciler's own writes, the
\* cache is only ever behind on a run that is gone.
Synced == run.uid = 0 \/ runSeen = run

\* Synced is an invariant.
THEOREM SyncedKept == ASSUME ReadsOwnWrites, OneObject PROVE Spec => []Synced
<1>a. NoRun.uid = 0
    BY DEF NoRun, NewRun
<1>1. Init => Synced
    BY DEF Init, Synced
<1>2. TypeOK /\ Synced /\ [Next]_vars => Synced'
  <2>. SUFFICES ASSUME TypeOK, Synced, [Next]_vars PROVE Synced'
      OBVIOUS
  <2>1. CASE ReconcileMountSource \/ \E ok \in BOOLEAN : Reconcile(ok)
    <3>1. Effect
        BY <2>1, ReconcileEffect
    <3>2. CASE UNCHANGED <<run, runSeen>>
        BY <3>2 DEF Synced
    <3>3. CASE \E ok \in BOOLEAN : DeleteRun(ok)
        BY <3>3, <1>a DEF DeleteRun, Publish, Synced
    <3>4. CASE \E w : MayWrite(w) /\ \E ok, requeue \in BOOLEAN : PatchRunStatus(w, ok, requeue)
        BY <3>4, PatchFact DEF MayWrite, Synced
    <3>. QED BY <3>1, <3>2, <3>3, <3>4 DEF Effect
  <2>2. CASE Manager
    <3>1. UNCHANGED run
        BY <2>2 DEF Manager, DeliverRun, SyncAgent, SyncSandbox, SyncPod, Wake, Restart, Tick
    <3>. QED BY <2>2, <3>1, OthersLeaveTheRun DEF Synced
  <2>3. CASE Environment
    <3>1. UNCHANGED runSeen
        BY <2>3 DEF Environment, AgentChange, PodCreate, PodStuck, PodStart, PodExit, PodLost,
                SandboxReady, SandboxFinish, CollectOwned, CollectPod, SandboxDelete, PodDelete,
                DropOwner, UserDelete, UserCreate, controllerVars
    <3>2. run' = run \/ run' = NoRun
        BY <2>3, OthersDelete
    <3>. QED BY <3>1, <3>2, <1>a DEF Synced
  <2>4. CASE UNCHANGED vars
      BY <2>4 DEF Synced, vars
  <2>. QED BY <2>1, <2>2, <2>3, <2>4 DEF Next, ReconcileFails
<1>. QED BY <1>1, <1>2, TypeCorrect, PTL DEF Spec

\* Where users delete nothing, a run disappears only when it has been terminal
\* for its TTL: the copy reconcileTTL read is the object its Delete meets.
THEOREM OnlyExpiredDeleted ==
    ASSUME ReadsOwnWrites, "user" \notin Faults
    PROVE  Spec => DeletesOnlyExpired
<1>0. OneObject
    BY DEF OneObject
<1>1. TypeOK /\ Synced /\ [Next]_vars => [run.uid # 0 /\ run'.uid = 0 => Expired]_vars
  <2>. SUFFICES ASSUME TypeOK, Synced, Next, run.uid # 0, run'.uid = 0 PROVE Expired
      OBVIOUS
  <2>1. runSeen = run
      BY DEF Synced
  <2>2. CASE ReconcileMountSource \/ \E ok \in BOOLEAN : Reconcile(ok)
    <3>1. Effect
        BY <2>2, ReconcileEffect
    <3>2. ~UNCHANGED <<run, runSeen>>
        OBVIOUS
    <3>3. CASE ExpiredCopy
        BY <2>1, <3>3 DEF ExpiredCopy, Expired
    <3>4. CASE \E w : MayWrite(w) /\ \E ok, requeue \in BOOLEAN : PatchRunStatus(w, ok, requeue)
        BY <3>4, PatchFact DEF MayWrite
    <3>. QED BY <3>1, <3>2, <3>3, <3>4 DEF Effect
  <2>3. CASE Manager \/ Environment
      BY <2>3, OthersFact
  <2>. QED BY <2>2, <2>3 DEF Next, ReconcileFails
<1>. QED BY <1>0, <1>1, SyncedKept, TypeCorrect, PTL DEF Spec, DeletesOnlyExpired

-----------------------------------------------------------------------------
(* A Sandbox that nobody deletes is not declared missing, however stale the   *)
(* caches are.                                                                *)

\* Nobody deletes the Sandbox, or the run it belongs to.
SandboxLeftAlone == Faults \cap {"user", "deleteSandbox"} = {}

\* While the run is there, a copy of it that names its Sandbox names one that
\* is there, and no copy has been told otherwise.
Held ==
    /\ run.uid # 0 /\ (run.sandboxName \/ runSeen.sandboxName) => sandbox.uid # 0
    /\ run.conditions.reason # "SandboxNotFound"
    /\ runSeen.conditions.reason # "SandboxNotFound"

\* Held is an invariant.
THEOREM HeldKept == ASSUME SandboxLeftAlone PROVE Spec => []Held
<1>0. OneObject /\ "user" \notin Faults /\ "deleteSandbox" \notin Faults
    BY DEF OneObject, SandboxLeftAlone
<1>a. /\ NoRun.uid = 0 /\ NoRun.conditions.reason = "" /\ NewRun(1).conditions.reason = ""
    BY DEF NoRun, NewRun
<1>b. ~NewRun(1).sandboxName /\ ~NoRun.sandboxName
    BY DEF NoRun, NewRun
<1>1. Init => Held
    BY <1>a, <1>b DEF Init, Held
<1>2. TypeOK /\ One /\ Held /\ [Next]_vars => Held'
  <2>. SUFFICES ASSUME TypeOK, One, Held, [Next]_vars PROVE Held'
      OBVIOUS
  <2>1. CASE ReconcileMountSource \/ \E ok \in BOOLEAN : Reconcile(ok)
    <3>1. run.uid # 0 /\ sandbox.uid # 0 => sandbox'.uid # 0
        BY <2>1, ReconcileRest
    <3>2. Effect
        BY <2>1, ReconcileEffect
    <3>3. CASE UNCHANGED <<run, runSeen>>
        BY <3>1, <3>3 DEF Held
    <3>4. CASE \E ok \in BOOLEAN : DeleteRun(ok)
      <4>1. \/ UNCHANGED <<run, runSeen>>
            \/ run' = NoRun /\ runSeen' \in {NoRun, runSeen}
          BY <3>4 DEF DeleteRun, Publish
      <4>. QED BY <4>1, <3>3, <1>a DEF Held
    <3>5. CASE \E w : MayWrite(w) /\ \E ok, requeue \in BOOLEAN : PatchRunStatus(w, ok, requeue)
      <4>1. PICK w : MayWrite(w) /\ \E ok, requeue \in BOOLEAN : PatchRunStatus(w, ok, requeue)
          BY <3>5
      <4>2. w \in RunVersions
          BY <4>1 DEF MayWrite
      <4>3. PICK m : m = MergePatch(runSeen, w, run)
          OBVIOUS
      <4>4. CASE run.uid # 0 /\ run' = m /\ run'.uid = run.uid /\ runSeen' \in {m, runSeen}
        <5>1. m.conditions \in {w.conditions, run.conditions}
            BY <4>2, <4>3, MergePatchFact DEF TypeOK
        <5>2. m.sandboxName = w.sandboxName \/ m.sandboxName = run.sandboxName
            BY <4>3 DEF MergePatch, Merged
        <5>3. w.conditions.reason # "SandboxNotFound"
            BY <4>1, <4>4 DEF MayWrite, Held
        <5>4. (m.sandboxName \/ runSeen.sandboxName) => sandbox'.uid # 0
            BY <3>1, <4>1, <4>4, <5>2 DEF MayWrite, Held
        <5>5. m.conditions.reason # "SandboxNotFound"
            BY <5>1, <5>3 DEF Held
        <5>. QED BY <4>4, <5>4, <5>5 DEF Held
      <4>. QED BY <3>3, <4>1, <4>2, <4>3, <4>4, PatchFact
    <3>. QED BY <3>2, <3>3, <3>4, <3>5 DEF Effect
  <2>2. CASE Manager \/ Environment
    <3>1. /\ run' = run
          /\ sandbox'.uid = sandbox.uid \/ (sandbox'.uid = 0 /\ sandbox.uid # run.uid)
        BY <2>2, <1>0, OthersFact
    <3>2. runSeen' \in {run, runSeen}
        BY <2>2, OthersLeaveTheRun
    <3>3. run.uid # 0 /\ sandbox.uid # 0 => sandbox.uid = run.uid
        BY DEF One
    <3>. QED BY <3>1, <3>2, <3>3 DEF Held
  <2>3. CASE UNCHANGED vars
      BY <2>3 DEF Held, vars, clusterVars
  <2>. QED BY <2>1, <2>2, <2>3 DEF Next, ReconcileFails
<1>. QED BY <1>0, <1>1, <1>2, TypeCorrect, OneKept, PTL DEF Spec

\* A Sandbox that nobody deletes is never declared missing by its run, however
\* far the informers are behind, whatever fails, is retried or restarts.
THEOREM NotFoundIsTrue == ASSUME SandboxLeftAlone PROVE Spec => []NoSpuriousNotFound
<1>1. Held => NoSpuriousNotFound
    BY DEF Held, NoSpuriousNotFound
<1>. QED BY <1>1, HeldKept, PTL

-----------------------------------------------------------------------------
(* The run implements RunLifecycle.                                          *)

\* A run that is Running has its Sandbox recorded.
Placed == run.uid # 0 /\ run.phase = "Running" => run.sandboxName

\* A patch of a run the cache agrees with writes what the reconcile computed.
LEMMA PatchSynced ==
    ASSUME TypeOK, Synced, NEW w \in RunVersions, NEW ok, NEW requeue,
           PatchRunStatus(w, ok, requeue)
    PROVE  \/ UNCHANGED <<run, runSeen>>
           \/ /\ run.uid # 0 /\ run'.uid = run.uid /\ runSeen = run
              /\ run'.phase = IF w.phase = "" THEN "Pending" ELSE w.phase
              /\ run'.sandboxName = w.sandboxName
<1>1. SUFFICES ASSUME ~UNCHANGED <<run, runSeen>>
      PROVE  /\ run.uid # 0 /\ run'.uid = run.uid /\ runSeen = run
             /\ run'.phase = IF w.phase = "" THEN "Pending" ELSE w.phase
             /\ run'.sandboxName = w.sandboxName
    OBVIOUS
<1>2. run.uid # 0 /\ run'.uid = run.uid /\ run' = MergePatch(runSeen, w, run)
    BY <1>1, PatchFact
<1>3. runSeen = run
    BY <1>2 DEF Synced
<1>4. run'.phase = IF w.phase = "" THEN "Pending" ELSE w.phase
    BY <1>2, <1>3 DEF MergePatch, Merged
<1>5. run'.sandboxName = Merged(runSeen.sandboxName, w.sandboxName, run.sandboxName)
    BY <1>2 DEF MergePatch
<1>6. run'.sandboxName = w.sandboxName
    BY <1>3, <1>5 DEF Merged
<1>. QED BY <1>2, <1>3, <1>4, <1>6

\* Placed is an invariant.
THEOREM PlacedKept == ASSUME ReadsOwnWrites, OneObject PROVE Spec => []Placed
<1>a. NoRun.uid = 0 /\ NewRun(1).phase = ""
    BY DEF NoRun, NewRun
<1>1. Init => Placed
    BY <1>a DEF Init, Placed
<1>2. TypeOK /\ Synced /\ Placed /\ [Next]_vars => Placed'
  <2>. SUFFICES ASSUME TypeOK, Synced, Placed, [Next]_vars PROVE Placed'
      OBVIOUS
  <2>1. CASE ReconcileMountSource \/ \E ok \in BOOLEAN : Reconcile(ok)
    <3>1. Effect
        BY <2>1, ReconcileEffect
    <3>2. CASE UNCHANGED <<run, runSeen>>
        BY <3>2 DEF Placed
    <3>3. CASE \E ok \in BOOLEAN : DeleteRun(ok)
        BY <3>2, <3>3, <1>a DEF DeleteRun, Publish, Placed
    <3>4. CASE \E w : MayWrite(w) /\ \E ok, requeue \in BOOLEAN : PatchRunStatus(w, ok, requeue)
      <4>1. PICK w : MayWrite(w) /\ \E ok, requeue \in BOOLEAN : PatchRunStatus(w, ok, requeue)
          BY <3>4
      <4>2. CASE /\ run.uid # 0 /\ run'.uid = run.uid /\ runSeen = run
                 /\ run'.phase = IF w.phase = "" THEN "Pending" ELSE w.phase
                 /\ run'.sandboxName = w.sandboxName
        <5>1. run'.phase = "Running" => run.sandboxName
            BY <4>1, <4>2 DEF MayWrite, Placed
        <5>2. run.sandboxName => run'.sandboxName
            BY <4>1, <4>2 DEF MayWrite
        <5>. QED BY <5>1, <5>2 DEF Placed
      <4>3. w \in RunVersions
          BY <4>1 DEF MayWrite
      <4>. QED BY <3>2, <4>1, <4>2, <4>3, PatchSynced
    <3>. QED BY <3>1, <3>2, <3>3, <3>4 DEF Effect
  <2>2. CASE Manager \/ Environment
    <3>1. run' = run \/ run' = NoRun \/ run' = NewRun(uids + 1)
        BY <2>2, OthersLeaveTheRun
    <3>2. NewRun(uids + 1).phase = ""
        BY DEF NewRun
    <3>. QED BY <3>1, <3>2, <1>a DEF Placed
  <2>3. CASE UNCHANGED vars
      BY <2>3 DEF Placed, vars
  <2>. QED BY <2>1, <2>2, <2>3 DEF Next, ReconcileFails
<1>. QED BY <1>1, <1>2, TypeCorrect, SyncedKept, PTL DEF Spec

\* The state and the history variable of the lifecycle, as the mapping gives them.
State == IF run.uid = 0 THEN "absent" ELSE IF run.phase = "" THEN "Pending" ELSE run.phase
Worked == \E r \in reports : r.uid = run.uid /\ r.exit = 0

\* Every step is a step of the abstract life, or none.
LEMMA RefinementStep ==
    ASSUME OneObject, TypeOK, TypeOK', Synced, Placed, One', Settled', Evidence', Next
    PROVE  \/ UNCHANGED <<State, Worked>>
           \/ Worked' /\ UNCHANGED State
           \/ State # "absent" /\ State' = "absent" /\ ~Worked'
           \/ /\ UNCHANGED Worked
              /\ \/ State = "Pending" /\ State' = "Running"
                 \/ State \in {"Pending", "Running"} /\ State' = "Failed"
                 \/ State \in {"Pending", "Running"} /\ State' = "Succeeded" /\ Worked
<1>0. run.phase \in Phases /\ run'.phase \in Phases
    BY DEF TypeOK, RunVersions
<1>1. ASSUME run' = run, reports \subseteq reports'
      PROVE  UNCHANGED <<State, Worked>> \/ (Worked' /\ UNCHANGED State)
  <2>1. UNCHANGED State
      BY <1>1 DEF State
  <2>2. Worked => Worked'
      BY <1>1 DEF Worked
  <2>3. CASE Worked'
      BY <2>1, <2>3
  <2>4. CASE ~Worked'
    <3>1. UNCHANGED Worked
        BY <2>2, <2>4, Zenon DEF Worked
    <3>. QED BY <2>1, <3>1
  <2>. QED BY <2>3, <2>4
<1>2. ASSUME run.uid # 0, run' = NoRun
      PROVE  State # "absent" /\ State' = "absent" /\ ~Worked'
  <2>1. run'.uid = 0
      BY <1>2 DEF NoRun, NewRun
  <2>2. State # "absent"
      BY <1>0, <1>2 DEF State, Phases
  <2>3. State' = "absent"
      BY <2>1 DEF State
  <2>4. \A r \in reports' : r.uid # 0
      BY ConstantsAssumption DEF TypeOK, Uids
  <2>5. ~Worked'
      BY <2>1, <2>4 DEF Worked
  <2>. QED BY <2>2, <2>3, <2>5
<1>3. CASE ReconcileMountSource \/ \E ok \in BOOLEAN : Reconcile(ok)
  <2>0. reports' = reports
      BY <1>3, ReconcileRest
  <2>1. Effect
      BY <1>3, ReconcileEffect
  <2>2. CASE UNCHANGED <<run, runSeen>>
      BY <1>1, <2>0, <2>2
  <2>3. CASE \E ok \in BOOLEAN : DeleteRun(ok)
    <3>1. run' = run \/ (run.uid # 0 /\ run' = NoRun)
        BY <2>3 DEF DeleteRun, Publish
    <3>. QED BY <1>1, <1>2, <2>0, <3>1
  <2>4. CASE \E w : MayWrite(w) /\ \E ok, requeue \in BOOLEAN : PatchRunStatus(w, ok, requeue)
    <3>1. PICK w : MayWrite(w) /\ \E ok, requeue \in BOOLEAN : PatchRunStatus(w, ok, requeue)
        BY <2>4
    <3>2. w \in RunVersions
        BY <3>1 DEF MayWrite
    <3>3. CASE /\ run.uid # 0 /\ run'.uid = run.uid /\ runSeen = run
               /\ run'.phase = IF w.phase = "" THEN "Pending" ELSE w.phase
      <4>1. UNCHANGED Worked
          BY <2>0, <3>3 DEF Worked
      <4>2. /\ State = IF run.phase = "" THEN "Pending" ELSE run.phase
            /\ State' = IF run'.phase = "" THEN "Pending" ELSE run'.phase
          BY <3>3 DEF State
      <4>3. CASE w.phase = run.phase
        <5>1. State' = State
            BY <3>3, <4>2, <4>3
        <5>. QED BY <4>1, <5>1
      <4>4. CASE w.phase # run.phase
        <5>1. /\ ~IsTerminalPhase(run.phase) /\ w.phase # ""
              /\ w.phase = "Pending" => ~run.sandboxName \/ run.phase # "Running"
            BY <3>1, <3>3, <4>4 DEF MayWrite
        <5>2. w.phase = "Pending" => run.phase # "Running"
            BY <3>3, <5>1 DEF Placed
        <5>3. run.phase \in {"", "Pending", "Running"}
            BY <1>0, <5>1 DEF Phases, IsTerminalPhase
        <5>4. run'.phase = w.phase /\ w.phase \in {"Pending", "Running", "Succeeded", "Failed"}
            BY <1>0, <3>3, <5>1 DEF Phases
        <5>5. CASE w.phase = "Pending"
          <6>1. State = "Pending" /\ State' = "Pending"
              BY <4>2, <5>2, <5>3, <5>4, <5>5
          <6>. QED BY <4>1, <6>1
        <5>6. CASE w.phase = "Running"
          <6>1. State = "Pending" /\ State' = "Running"
              BY <4>2, <4>4, <5>3, <5>4, <5>6
          <6>. QED BY <4>1, <6>1
        <5>7. CASE w.phase = "Failed"
          <6>1. State \in {"Pending", "Running"} /\ State' = "Failed"
              BY <4>2, <5>3, <5>4, <5>7
          <6>. QED BY <4>1, <6>1
        <5>8. CASE w.phase = "Succeeded"
          <6>1. State \in {"Pending", "Running"} /\ State' = "Succeeded"
              BY <4>2, <5>3, <5>4, <5>8
          <6>2. run'.conditions.succeeded = "True"
              BY <5>4, <5>8 DEF Settled, Agrees
          <6>3. \E r \in reports' : r.exit = 0
              BY <6>2 DEF Evidence, VersionSound
          <6>4. run.uid = 1 /\ \A r \in reports' : r.uid = 1
              BY <3>3 DEF One
          <6>5. Worked
              BY <2>0, <6>3, <6>4 DEF Worked
          <6>. QED BY <4>1, <6>1, <6>5
        <5>. QED BY <5>4, <5>5, <5>6, <5>7, <5>8
      <4>. QED BY <4>3, <4>4
    <3>. QED BY <2>2, <3>1, <3>2, <3>3, PatchSynced
  <2>. QED BY <2>1, <2>2, <2>3, <2>4 DEF Effect
<1>4. CASE Manager \/ Environment
  <2>1. reports \subseteq reports' /\ (reports' # reports => run' = run)
      BY <1>4, OthersFact
  <2>2. run' = run \/ (run.uid # 0 /\ run' = NoRun)
      BY <1>4, OthersDelete
  <2>. QED BY <1>1, <1>2, <2>1, <2>2
<1>. QED BY <1>3, <1>4 DEF Next, ReconcileFails

\* An AgentRun keeps the promise of RunLifecycle, the one the workflow
\* controller and every other client watches: the phase only moves forward, an
\* outcome is final, and success is declared only for an agent that exited 0.
THEOREM Refinement == ASSUME ReadsOwnWrites, OneObject PROVE Spec => RefinesLifecycle
<1>1. Init => Lifecycle!Init
  <2>. SUFFICES ASSUME Init PROVE Lifecycle!Init
      OBVIOUS
  <2>0. run.uid = 1
      BY DEF Init, NewRun
  <2>1. run.phase = ""
      BY DEF Init, NewRun
  <2>2. State = "Pending"
    <3>1. run.uid # 0
        BY <2>0
    <3>. QED BY <2>1, <3>1, Zenon DEF State
  <2>3. ~Worked
      BY DEF Init, Worked
  <2>. QED BY <2>2, <2>3 DEF Lifecycle!Init, State, Worked
<1>2. TypeOK /\ TypeOK' /\ Synced /\ Placed /\ One' /\ Settled' /\ Evidence' /\ [Next]_vars
        => [Lifecycle!Next]_(Lifecycle!lifecycleVars)
  <2>. SUFFICES ASSUME TypeOK, TypeOK', Synced, Placed, One', Settled', Evidence', [Next]_vars
                PROVE  [Lifecycle!Next]_(Lifecycle!lifecycleVars)
      OBVIOUS
  <2>1. CASE Next
    <3>1. CASE UNCHANGED <<State, Worked>>
        BY <3>1, Zenon DEF Lifecycle!lifecycleVars, State, Worked
    <3>2. CASE Worked' /\ UNCHANGED State
        BY <3>2, Zenon DEF Lifecycle!Next, Lifecycle!Work, State, Worked
    <3>3. CASE State # "absent" /\ State' = "absent" /\ ~Worked'
        BY <3>3, Zenon DEF Lifecycle!Next, Lifecycle!Remove, State, Worked
    <3>4. CASE UNCHANGED Worked /\ State = "Pending" /\ State' = "Running"
        BY <3>4, Zenon DEF Lifecycle!Next, Lifecycle!Start, State, Worked
    <3>5. CASE UNCHANGED Worked /\ State \in {"Pending", "Running"} /\ State' = "Failed"
        BY <3>5, Zenon DEF Lifecycle!Next, Lifecycle!Fail, State, Worked
    <3>6. CASE UNCHANGED Worked /\ State \in {"Pending", "Running"} /\ State' = "Succeeded" /\ Worked
        BY <3>6, Zenon DEF Lifecycle!Next, Lifecycle!Succeed, State, Worked
    <3>. QED BY <2>1, <3>1, <3>2, <3>3, <3>4, <3>5, <3>6, RefinementStep
  <2>2. CASE UNCHANGED vars
      BY <2>2 DEF vars, historyVars, Lifecycle!lifecycleVars
  <2>. QED BY <2>1, <2>2
<1>. QED BY <1>1, <1>2, TypeCorrect, SyncedKept, PlacedKept, OneKept, SettledKept, EvidenceKept, PTL
     DEF Spec, RefinesLifecycle, Lifecycle!Spec

=============================================================================
