----------------------- MODULE AgentWorkflowRunProofs -----------------------
(* Proofs about AgentWorkflowRun, for every number of stages, of versions of  *)
(* the workflow and of runs of the name.                                      *)
EXTENDS AgentWorkflowRun, InductionFacts

Stages == [StageIds -> StageStatuses]

-----------------------------------------------------------------------------
(* What the operators on a run's status return.                              *)

\* A status with these stages, this phase and this reason.
SetStatus(v, stages, phase, reason) ==
    [v EXCEPT !.stages = stages, !.phase = phase, !.reason = reason]

\* It is a run's status, with exactly that.
LEMMA SetStatusFact ==
    ASSUME NEW v \in Runs, NEW stages \in Stages, NEW phase \in Phases, NEW reason \in Reasons
    PROVE  LET w == SetStatus(v, stages, phase, reason) IN
           w \in Runs /\ w.stages = stages /\ w.phase = phase
BY DEF SetStatus, Runs, Stages

\* One stage's phase is set, and nothing else of it.
SetStagePhase(stages, i, phase) == [stages EXCEPT ![i].phase = phase]

\* The other stages keep their phase, and every stage its name and definition.
LEMMA SetStagePhaseFact ==
    ASSUME NEW stages \in Stages, NEW i \in StageIds, NEW phase \in Phases \ {""}
    PROVE  LET w == SetStagePhase(stages, i, phase) IN
           /\ w \in Stages
           /\ \A j \in StageIds : /\ w[j].phase = IF j = i THEN phase ELSE stages[j].phase
                                  /\ w[j].named = stages[j].named /\ w[j].def = stages[j].def
<1>. DEFINE s == [stages[i] EXCEPT !.phase = phase]
<1>1. stages[i] \in StageStatuses /\ SetStagePhase(stages, i, phase) = [stages EXCEPT ![i] = s]
    BY DEF Stages, SetStagePhase
<1>2. s \in StageStatuses /\ s.phase = phase /\ s.named = stages[i].named /\ s.def = stages[i].def
    BY <1>1 DEF StageStatuses
<1>. HIDE DEF s
<1>. QED BY <1>1, <1>2 DEF Stages

\* The stage's AgentRun is recorded.
NameStage(stages, i) == [stages EXCEPT ![i].named = TRUE, ![i].phase = "Pending"]

\* The other stages are left alone.
LEMMA NameStageFact ==
    ASSUME NEW stages \in Stages, NEW i \in StageIds
    PROVE  LET w == NameStage(stages, i) IN
           /\ w \in Stages
           /\ \A j \in StageIds : /\ w[j].phase = IF j = i THEN "Pending" ELSE stages[j].phase
                                  /\ w[j].named = IF j = i THEN TRUE ELSE stages[j].named
                                  /\ w[j].def = stages[j].def
<1>. DEFINE s == [stages[i] EXCEPT !.named = TRUE, !.phase = "Pending"]
<1>1. stages[i] \in StageStatuses /\ NameStage(stages, i) = [stages EXCEPT ![i] = s]
    BY DEF Stages, NameStage
<1>2. s \in StageStatuses /\ s.phase = "Pending" /\ s.named = TRUE /\ s.def = stages[i].def
    BY <1>1 DEF StageStatuses, Phases
<1>. HIDE DEF s
<1>. QED BY <1>1, <1>2 DEF Stages

\* A run without a status.
LEMMA NewRunFact ==
    ASSUME NEW u \in 0..MaxUid
    PROVE  /\ NewRun(u) \in Runs /\ NewRun(u).uid = u /\ NewRun(u).phase = ""
           /\ \A i \in StageIds : /\ NewRun(u).stages[i].phase = "Pending"
                                  /\ NewRun(u).stages[i].named = FALSE
                                  /\ NewRun(u).stages[i].def = 0
BY ConstantsAssumption DEF NewRun, PendingStages, Runs, StageStatuses, Phases, Reasons

\* No run.
LEMMA NoRunFact ==
    /\ NoRun \in Runs /\ NoRun.uid = 0 /\ NoRun.phase = ""
    /\ \A i \in StageIds : /\ NoRun.stages[i].phase = "Pending"
                           /\ NoRun.stages[i].named = FALSE
                           /\ NoRun.stages[i].def = 0
<1>1. 0 \in 0..MaxUid
    BY ConstantsAssumption
<1>. QED BY <1>1, NewRunFact DEF NoRun

\* The plan of a reconcile is the cached status, but for a snapshot taken now.
LEMMA PlanFact ==
    ASSUME TypeOK
    PROVE  /\ Plan \in Stages
           /\ \A i \in StageIds :
                /\ Plan[i].phase = runSeen.stages[i].phase /\ Plan[i].named = runSeen.stages[i].named
                /\ runSeen.stages[i].def # 0 => Plan[i].def = runSeen.stages[i].def
<1>1. CASE runSeen.stages = PendingStages(0)
  <2>1. workflowSeen.version \in 0..MaxVersion
      BY ConstantsAssumption DEF TypeOK, Workflows, Versions
  <2>2. Plan = PendingStages(workflowSeen.version)
      BY <1>1 DEF Plan
  <2>3. PendingStages(workflowSeen.version) \in Stages
      BY <2>1 DEF PendingStages, Stages, StageStatuses, Phases
  <2>4. \A version, i : i \in StageIds =>
          PendingStages(version)[i] = [phase |-> "Pending", named |-> FALSE, def |-> version]
      BY DEF PendingStages
  <2>5. \A i \in StageIds :
          /\ Plan[i] = [phase |-> "Pending", named |-> FALSE, def |-> workflowSeen.version]
          /\ runSeen.stages[i] = [phase |-> "Pending", named |-> FALSE, def |-> 0]
      BY <1>1, <2>2, <2>4
  <2>6. \A i \in StageIds : /\ Plan[i].phase = runSeen.stages[i].phase
                             /\ runSeen.stages[i].def = 0
      BY <2>5
  <2>7. \A i \in StageIds : Plan[i].named = FALSE /\ runSeen.stages[i].named = FALSE
      BY <1>1, <2>2 DEF PendingStages
  <2>. QED BY <2>2, <2>3, <2>6, <2>7
<1>2. CASE runSeen.stages # PendingStages(0)
    BY <1>2 DEF Plan, TypeOK, Runs, Stages
<1>. QED BY <1>1, <1>2

\* findCurrentStageIndex: the first stage that has not succeeded, or one past
\* the last.
LEMMA CurrentFact ==
    ASSUME NEW stages \in Stages, NEW k, k = FindCurrentStageIndex(stages)
    PROVE  /\ k \in 1..(NumStages + 1)
           /\ k \in StageIds => stages[k].phase # "Succeeded"
           /\ \A j \in 1..(k - 1) : stages[j].phase = "Succeeded"
<1>. DEFINE T == {i \in 1..(NumStages + 1) : i \in StageIds => stages[i].phase # "Succeeded"}
<1>1. T \subseteq Nat /\ NumStages + 1 \in T
    BY ConstantsAssumption DEF StageIds
<1>2. PICK m \in T : \A y \in T : m <= y
  <2>. HIDE DEF T
  <2>. QED BY <1>1, LeastNatural
<1>3. m \in 1..(NumStages + 1) /\ (m \in StageIds => stages[m].phase # "Succeeded")
    OBVIOUS
<1>4. ASSUME NEW j \in 1..(m - 1) PROVE stages[j].phase = "Succeeded"
  <2>1. j \in 1..(NumStages + 1) /\ j < m
      BY <1>3, ConstantsAssumption
  <2>2. j \notin T
      BY <1>2, <1>3, <2>1, ConstantsAssumption
  <2>. QED BY <2>1, <2>2
<1>. HIDE DEF T
<1>5. \E i \in 1..(NumStages + 1) :
        /\ i \in StageIds => stages[i].phase # "Succeeded"
        /\ \A j \in 1..(i - 1) : stages[j].phase = "Succeeded"
    BY <1>3, <1>4
<1>. QED BY <1>5 DEF FindCurrentStageIndex

\* A patch leaves each field as one of the versions it combines has it.
LEMMA PatchFact ==
    ASSUME TypeOK, NEW c \in Runs, NEW ok \in BOOLEAN, NEW requeue \in BOOLEAN,
           PatchRunStatus(c, ok, requeue)
    PROVE  /\ run' \in Runs /\ runSeen' \in Runs /\ queued' \in BOOLEAN
           /\ run'.uid = run.uid
           /\ \/ run'.phase \in {c.phase, run.phase}
              \/ run'.phase = "Pending" /\ (run.phase = "" \/ c.phase = "")
           /\ run'.stages = run.stages \/ (run'.stages = c.stages /\ run.uid # 0)
           /\ runSeen' = runSeen \/ runSeen' = run'
           /\ ReadsOwnWrites => UNCHANGED <<run, runSeen>> \/ runSeen' = run'
           /\ run.uid = 0 => run' = run
<1>. DEFINE m == MergePatch(runSeen, c, run)
<1>1. /\ m \in Runs /\ m.uid = run.uid
      /\ \/ m.phase \in {c.phase, run.phase}
         \/ m.phase = "Pending" /\ (run.phase = "" \/ c.phase = "")
      /\ m.stages \in {c.stages, run.stages}
    BY DEF MergePatch, Merged, TypeOK, Runs, Phases
<1>2. \/ UNCHANGED <<run, runSeen>> /\ queued' \in BOOLEAN
      \/ /\ run' = m /\ runSeen' = (IF ReadsOwnWrites THEN m ELSE runSeen)
         /\ queued' \in BOOLEAN /\ run.uid # 0
    BY ConstantsAssumption DEF PatchRunStatus, Publish
<1>. HIDE DEF m
<1>. QED BY <1>1, <1>2 DEF TypeOK

-----------------------------------------------------------------------------
(* What a reconcile of a live run does.                                      *)

\* A status made from the cached one: it claims success of a stage, and of the
\* run, only on what the caches show; it forgets neither a recorded AgentRun
\* nor a snapshot.
Derived(c) ==
    /\ c \in Runs /\ c.phase \in {runSeen.phase, "Running", "Failed", "Succeeded"}
    /\ c.phase = "Succeeded" => \A i \in StageIds : runSeen.stages[i].phase = "Succeeded"
    /\ \A i \in StageIds :
         /\ c.stages[i].phase = "Succeeded" =>
              runSeen.stages[i].phase = "Succeeded" \/ childSeen[i].state = "Succeeded"
         /\ runSeen.stages[i].named => c.stages[i].named
         /\ runSeen.stages[i].def # 0 => c.stages[i].def = runSeen.stages[i].def

\* The AgentRun of stage i is created, all earlier stages having succeeded.
Creates(i) ==
    /\ \A j \in 1..(i - 1) : runSeen.stages[j].phase = "Succeeded"
    /\ runSeen.stages[i].phase # "Succeeded" /\ ~runSeen.stages[i].named
    /\ child[i].state = "absent"
    /\ child' = [child EXCEPT ![i] = [owner |-> runSeen.uid, owned |-> TRUE, state |-> ""]]

\* An AgentRun is recorded only for the stage it was created for, or whose
\* AgentRun the cache shows as this run's.
NamesOwn(c) ==
    \A i \in StageIds : c.stages[i].named /\ ~runSeen.stages[i].named =>
        Creates(i) \/ (UNCHANGED child /\ child[i].state # "absent" /\ IsOwnedBy(i))

\* Every way through Reconcile that patches the status of a live run.
Advances ==
    /\ Live
    /\ \E c \in Runs, done \in BOOLEAN, again \in BOOLEAN :
         PatchRunStatus(c, done, again) /\ Derived(c) /\ NamesOwn(c)
    /\ UNCHANGED child \/ \E i \in StageIds : Creates(i)
    /\ UNCHANGED <<timer, elapsed, uids, workflow, workflowSeen, agentSeen, childSeen, succeeded>>

\* The summary of Reconcile that the invariants are proved from.
LEMMA ReconcileFact ==
    ASSUME TypeOK, NEW ok \in BOOLEAN, Reconcile(ok)
    PROVE  ReconcileMissing(ok) \/ ReconcileTTL(ok) \/ Advances
<1>. SUFFICES ASSUME ~ReconcileMissing(ok), ~ReconcileTTL(ok) PROVE Advances
    OBVIOUS
<1>0. /\ runSeen \in Runs /\ runSeen.stages \in Stages /\ runSeen.phase \in Phases
      /\ \A i \in StageIds : runSeen.stages[i] \in StageStatuses
      /\ childSeen \in [StageIds -> Children]
    BY DEF TypeOK, Runs, Stages
<1>r. /\ "Running" \in Phases \ {""} /\ "Failed" \in Phases \ {""}
      /\ "Succeeded" \in Phases \ {""} /\ "Pending" \in Phases \ {""}
      /\ "WorkflowNotFound" \in Reasons /\ "WorkflowNotReady" \in Reasons /\ "Succeeded" \in Reasons
      /\ "AgentRunCreationFailed" \in Reasons /\ "StageRunning" \in Reasons
    BY DEF Phases, Reasons
<1>p. /\ Plan \in Stages
      /\ \A i \in StageIds :
           /\ Plan[i].phase = runSeen.stages[i].phase /\ Plan[i].named = runSeen.stages[i].named
           /\ runSeen.stages[i].def # 0 => Plan[i].def = runSeen.stages[i].def
    BY PlanFact
<1>i. \A i \in StageIds : i = FindCurrentStageIndex(Plan) =>
        /\ runSeen.stages[i].phase # "Succeeded"
        /\ \A j \in 1..(i - 1) : j \in StageIds /\ runSeen.stages[j].phase = "Succeeded"
  <2>1. ASSUME NEW i \in StageIds, i = FindCurrentStageIndex(Plan)
        PROVE  /\ runSeen.stages[i].phase # "Succeeded"
               /\ \A j \in 1..(i - 1) : j \in StageIds /\ runSeen.stages[j].phase = "Succeeded"
    <3>1. Plan[i].phase # "Succeeded" /\ \A j \in 1..(i - 1) : Plan[j].phase = "Succeeded"
        BY <1>p, <2>1, CurrentFact
    <3>2. \A j \in 1..(i - 1) : j \in StageIds
        BY ConstantsAssumption DEF StageIds
    <3>. QED BY <1>p, <3>1, <3>2
  <2>. QED BY <2>1
\* The statuses that differ from the cached one in the run's phase and reason,
\* or in the plan as well.
<1>a. ASSUME NEW stages \in Stages, NEW phase \in {runSeen.phase, "Running", "Failed"},
             NEW reason \in Reasons,
             \A i \in StageIds :
               /\ stages[i].phase = "Succeeded" =>
                    runSeen.stages[i].phase = "Succeeded" \/ childSeen[i].state = "Succeeded"
               /\ runSeen.stages[i].named => stages[i].named
               /\ runSeen.stages[i].def # 0 => stages[i].def = runSeen.stages[i].def,
             Live
      PROVE  LET c == SetStatus(runSeen, stages, phase, reason)
             IN  c \in Runs /\ c.stages = stages /\ Derived(c)
  <2>0. phase \in Phases
      BY <1>0, <1>r
  <2>. DEFINE c == SetStatus(runSeen, stages, phase, reason)
  <2>1. c \in Runs /\ c.stages = stages /\ c.phase = phase
      BY <1>0, <2>0, SetStatusFact
  <2>. HIDE DEF c
  <2>2. phase # "Succeeded"
      BY <1>a DEF Live, IsTerminalPhase
  <2>3. Derived(c)
      BY <1>a, <2>1, <2>2 DEF Derived
  <2>. QED BY <2>1, <2>3 DEF c
<1>1. CASE ReconcileWorkflowNotFound(ok)
  <2>. DEFINE c == SetStatus(runSeen, runSeen.stages, "Failed", "WorkflowNotFound")
  <2>1. c = [runSeen EXCEPT !.phase = "Failed", !.reason = "WorkflowNotFound"]
      BY <1>0 DEF Runs, SetStatus
  <2>2. Live /\ PatchRunStatus(c, ok, FALSE) /\ UNCHANGED child
      BY <1>1, <2>1 DEF ReconcileWorkflowNotFound
  <2>3. c \in Runs /\ c.stages = runSeen.stages /\ Derived(c)
      BY <1>0, <1>r, <1>a, <2>2
  <2>. HIDE DEF c
  <2>4. NamesOwn(c)
      BY <2>3 DEF NamesOwn
  <2>. QED BY <1>1, <2>2, <2>3, <2>4 DEF Advances, ReconcileWorkflowNotFound
<1>2. CASE ReconcileWorkflowNotReady(ok)
  <2>. DEFINE c == SetStatus(runSeen, runSeen.stages, runSeen.phase, "WorkflowNotReady")
  <2>1. c = [runSeen EXCEPT !.reason = "WorkflowNotReady"]
      BY <1>0 DEF Runs, SetStatus
  <2>2. Live /\ PatchRunStatus(c, ok, FALSE) /\ UNCHANGED child
      BY <1>2, <2>1 DEF ReconcileWorkflowNotReady
  <2>3. c \in Runs /\ c.stages = runSeen.stages /\ Derived(c)
      BY <1>0, <1>r, <1>a, <2>2
  <2>. HIDE DEF c
  <2>4. NamesOwn(c)
      BY <2>3 DEF NamesOwn
  <2>. QED BY <1>2, <2>2, <2>3, <2>4 DEF Advances, ReconcileWorkflowNotReady
<1>3. CASE ReconcileComplete(ok)
  <2>. DEFINE c == SetStatus(runSeen, Plan, "Succeeded", "Succeeded")
  <2>1. Live /\ PatchRunStatus(c, ok, FALSE) /\ UNCHANGED child
      BY <1>3 DEF ReconcileComplete, SetStatus
  <2>2. c \in Runs /\ c.stages = Plan /\ c.phase = "Succeeded"
      BY <1>0, <1>r, <1>p, SetStatusFact
  <2>3. \A i \in StageIds : runSeen.stages[i].phase = "Succeeded"
    <3>1. \A j \in 1..NumStages : Plan[j].phase = "Succeeded"
      <4>1. NumStages + 1 = FindCurrentStageIndex(Plan)
          BY <1>3 DEF ReconcileComplete
      <4>2. \A j \in 1..((NumStages + 1) - 1) : Plan[j].phase = "Succeeded"
          BY <1>p, <4>1, CurrentFact
      <4>. QED BY <4>2, ConstantsAssumption
    <3>. QED BY <1>p, <3>1 DEF StageIds
  <2>. HIDE DEF c
  <2>4. Derived(c) /\ NamesOwn(c)
      BY <1>p, <2>2, <2>3 DEF Derived, NamesOwn
  <2>. QED BY <1>3, <2>1, <2>2, <2>4 DEF Advances, ReconcileComplete
<1>4. CASE ReconcileInvalid(ok) \/ ReconcileChildMissing(ok)
  <2>1. PICK i \in StageIds, reason \in Reasons :
          /\ Live
          /\ PatchRunStatus([runSeen EXCEPT !.stages = [Plan EXCEPT ![i].phase = "Failed"],
                                            !.phase = "Failed", !.reason = reason], ok, FALSE)
      BY <1>4 DEF ReconcileInvalid, ReconcileChildMissing, NeedsRun, WatchesRun, Reasons
  <2>. DEFINE stages == SetStagePhase(Plan, i, "Failed")
              c == SetStatus(runSeen, stages, "Failed", reason)
  <2>2. /\ stages \in Stages
        /\ \A j \in StageIds : /\ stages[j].phase = IF j = i THEN "Failed" ELSE Plan[j].phase
                               /\ stages[j].named = Plan[j].named /\ stages[j].def = Plan[j].def
    <3>1. Plan \in Stages /\ "Failed" \in Phases \ {""}
        BY <1>r, <1>p
    <3>. QED BY <3>1, SetStagePhaseFact
  <2>3. PatchRunStatus(c, ok, FALSE)
      BY <2>1 DEF SetStatus, SetStagePhase
  <2>. HIDE DEF stages
  <2>4. c \in Runs /\ c.stages = stages /\ Derived(c)
    <3>1. \A j \in StageIds :
            /\ stages[j].phase = "Succeeded" =>
                 runSeen.stages[j].phase = "Succeeded" \/ childSeen[j].state = "Succeeded"
            /\ runSeen.stages[j].named => stages[j].named
            /\ runSeen.stages[j].def # 0 => stages[j].def = runSeen.stages[j].def
        BY <1>p, <2>2
    <3>. QED BY <1>a, <2>1, <2>2, <3>1
  <2>. HIDE DEF c
  <2>5. NamesOwn(c)
      BY <1>p, <2>2, <2>4 DEF NamesOwn
  <2>. QED BY <1>4, <2>1, <2>3, <2>4, <2>5 DEF Advances, ReconcileInvalid, ReconcileChildMissing
<1>5. CASE ReconcileCreate(ok)
  <2>1. PICK i \in StageIds :
          /\ NeedsRun(i)
          /\ \/ /\ child[i].state = "absent"
                /\ child' = [child EXCEPT ![i] = [owner |-> runSeen.uid, owned |-> TRUE, state |-> ""]]
             \/ child[i].state # "absent" /\ IsOwnedBy(i) /\ UNCHANGED child
          /\ PatchRunStatus(WithRunNamed(i), ok, FALSE)
      BY <1>5 DEF ReconcileCreate
  <2>. DEFINE stages == NameStage(Plan, i)
              c == SetStatus(runSeen, stages, "Running", "StageRunning")
  <2>2. /\ stages \in Stages
        /\ \A j \in StageIds : /\ stages[j].phase = IF j = i THEN "Pending" ELSE Plan[j].phase
                               /\ stages[j].named = IF j = i THEN TRUE ELSE Plan[j].named
                               /\ stages[j].def = Plan[j].def
      BY <1>p, NameStageFact
  <2>3. PatchRunStatus(c, ok, FALSE)
      BY <2>1 DEF WithRunNamed, SetStatus, NameStage
  <2>. HIDE DEF stages
  <2>4. Live /\ ~runSeen.stages[i].named /\ i = FindCurrentStageIndex(Plan)
      BY <1>p, <2>1 DEF NeedsRun
  <2>5. c \in Runs /\ c.stages = stages /\ Derived(c)
    <3>1. \A j \in StageIds :
            /\ stages[j].phase = "Succeeded" =>
                 runSeen.stages[j].phase = "Succeeded" \/ childSeen[j].state = "Succeeded"
            /\ runSeen.stages[j].named => stages[j].named
            /\ runSeen.stages[j].def # 0 => stages[j].def = runSeen.stages[j].def
        BY <1>p, <2>2
    <3>. QED BY <1>r, <1>a, <2>2, <2>4, <3>1
  <2>. HIDE DEF c
  <2>6. Creates(i) \/ (UNCHANGED child /\ child[i].state # "absent" /\ IsOwnedBy(i))
      BY <1>i, <2>1, <2>4 DEF Creates
  <2>7. NamesOwn(c)
      BY <1>p, <2>2, <2>5, <2>6 DEF NamesOwn
  <2>. QED BY <1>5, <2>3, <2>4, <2>5, <2>6, <2>7 DEF Advances, ReconcileCreate
<1>6. CASE ReconcileCreateFails(ok)
  <2>1. PICK patched \in BOOLEAN :
          /\ Live /\ UNCHANGED child
          /\ PatchRunStatus([runSeen EXCEPT !.stages = Plan, !.phase = "Running",
                                            !.reason = "AgentRunCreationFailed"], patched, TRUE)
      BY <1>6 DEF ReconcileCreateFails, NeedsRun
  <2>. DEFINE c == SetStatus(runSeen, Plan, "Running", "AgentRunCreationFailed")
  <2>2. c \in Runs /\ c.stages = Plan /\ Derived(c)
      BY <1>r, <1>a, <1>p, <2>1
  <2>3. PatchRunStatus(c, patched, TRUE)
      BY <2>1 DEF SetStatus
  <2>. HIDE DEF c
  <2>4. NamesOwn(c)
      BY <1>p, <2>2 DEF NamesOwn
  <2>. QED BY <1>6, <2>1, <2>2, <2>3, <2>4 DEF Advances, ReconcileCreateFails
<1>7. CASE ReconcileStage(ok)
  <2>1. PICK i \in StageIds, phase \in {"Running", "Failed"}, reason \in Reasons :
          /\ Live /\ childSeen[i].state # "absent"
          /\ PatchRunStatus(WithMirror(i, phase, reason), ok, FALSE)
      BY <1>7 DEF ReconcileStage, WatchesRun, Reasons
  <2>. DEFINE stages == IF childSeen[i].state = "" THEN Plan
                        ELSE SetStagePhase(Plan, i, childSeen[i].state)
              c == SetStatus(runSeen, stages, phase, reason)
  <2>2. /\ stages \in Stages
        /\ \A j \in StageIds :
             /\ stages[j].phase = "Succeeded" => Plan[j].phase = "Succeeded" \/ childSeen[j].state = "Succeeded"
             /\ stages[j].named = Plan[j].named /\ stages[j].def = Plan[j].def
    <3>1. CASE childSeen[i].state = ""
        BY <1>p, <3>1
    <3>2. CASE childSeen[i].state # ""
      <4>1. childSeen[i].state \in Phases \ {""}
          BY <1>0, <2>1, <3>2 DEF Children, ChildStates
      <4>. DEFINE w == SetStagePhase(Plan, i, childSeen[i].state)
      <4>2. /\ w \in Stages
            /\ \A j \in StageIds :
                 /\ w[j].phase = IF j = i THEN childSeen[i].state ELSE Plan[j].phase
                 /\ w[j].named = Plan[j].named /\ w[j].def = Plan[j].def
          BY <1>p, <4>1, SetStagePhaseFact
      <4>3. stages = w
          BY <3>2
      <4>. HIDE DEF w, stages
      <4>. QED BY <4>2, <4>3
    <3>. QED BY <3>1, <3>2
  <2>3. PatchRunStatus(c, ok, FALSE)
      BY <2>1 DEF WithMirror, SetStatus, SetStagePhase
  <2>. HIDE DEF stages
  <2>4. c \in Runs /\ c.stages = stages /\ Derived(c)
      BY <1>a, <1>p, <2>1, <2>2
  <2>. HIDE DEF c
  <2>5. NamesOwn(c)
      BY <1>p, <2>2, <2>4 DEF NamesOwn
  <2>. QED BY <1>7, <2>1, <2>3, <2>4, <2>5 DEF Advances, ReconcileStage
<1>. QED BY <1>1, <1>2, <1>3, <1>4, <1>5, <1>6, <1>7 DEF Reconcile

-----------------------------------------------------------------------------
(* Types.                                                                    *)

\* A stage run's state is set, and nothing else of it.
LEMMA SetStateFact ==
    ASSUME NEW c \in Children, NEW state \in ChildStates
    PROVE  LET d == [c EXCEPT !.state = state]
           IN  d \in Children /\ d.owner = c.owner /\ d.owned = c.owned /\ d.state = state
BY DEF Children

\* A stage run loses its owner reference, and nothing else.
LEMMA DropOwnedFact ==
    ASSUME NEW c \in Children
    PROVE  LET d == [c EXCEPT !.owned = FALSE]
           IN  d \in Children /\ d.owner = c.owner /\ d.owned = FALSE /\ d.state = c.state
BY DEF Children

\* A stage run that is not there.
LEMMA NoChildFact == NoChild \in Children /\ NoChild.state = "absent" /\ NoChild.owned = FALSE
BY ConstantsAssumption DEF NoChild, Children, ChildStates

\* What one step does to the stage run of stage i, but for its creation: it
\* stays, goes, loses its owner or moves on.
ChildMoves(i) ==
    \/ child'[i] = child[i]
    \/ /\ child'[i] = NoChild
       /\ \/ Faults \cap {"deleteChild", "childTTL"} # {}
          \/ run.uid = 0 /\ run' = run
          \/ child[i].owner # run.uid /\ run' = run
    \/ child'[i].state = child[i].state /\ child'[i].owner = child[i].owner
    \/ /\ child[i].state # "absent" /\ ~IsTerminalPhase(child[i].state)
       /\ child'[i].state # "absent" /\ child'[i].owner = child[i].owner
       /\ child'[i].state = "Succeeded" => i \in succeeded'[child[i].owner]

\* Every step but a reconcile of a live run.
Quiet ==
    /\ \/ run' = run /\ uids' = uids
       \/ run' = NoRun /\ run.uid # 0 /\ UNCHANGED <<uids, child, childSeen, succeeded>>
       \/ /\ "user" \in Faults /\ run.uid = 0 /\ uids < MaxUid
          /\ run' = NewRun(uids + 1) /\ uids' = uids + 1
          /\ UNCHANGED <<runSeen, child, childSeen, succeeded>>
    /\ runSeen' = runSeen \/ runSeen' = run'
    /\ ReadsOwnWrites /\ "user" \notin Faults => UNCHANGED <<run, runSeen>> \/ runSeen' = run'
    /\ \A i \in StageIds :
         /\ ChildMoves(i)
         /\ childSeen'[i] = childSeen[i] \/ childSeen'[i] = child'[i]
         /\ \A u \in 0..MaxUid :
              /\ i \in succeeded[u] => i \in succeeded'[u]
              /\ i \in succeeded'[u] =>
                   i \in succeeded[u] \/ (child'[i].state = "Succeeded" /\ child'[i].owner = u)

\* The stage runs after one of them changed.
LEMMA ChildUpdateFact ==
    ASSUME TypeOK, NEW i \in StageIds, NEW c \in Children, child' = [child EXCEPT ![i] = c]
    PROVE  /\ child' \in [StageIds -> Children] /\ child'[i] = c
           /\ \A j \in StageIds : j # i => child'[j] = child[j]
BY DEF TypeOK

\* The sweep and the TTL of a finished run.
LEMMA QuietReconcileFact ==
    ASSUME TypeOK, NEW ok \in BOOLEAN, ReconcileMissing(ok) \/ ReconcileTTL(ok)
    PROVE  TypeOK' /\ Quiet
<1>1. CASE ReconcileMissing(ok)
  <2>1. child' \in [StageIds -> Children] /\ queued' \in BOOLEAN
      BY <1>1, NoChildFact DEF ReconcileMissing, TypeOK
  <2>2. \A i \in StageIds : \/ child'[i] = child[i]
                            \/ child'[i] = NoChild /\ run.uid = 0
      BY <1>1 DEF ReconcileMissing
  <2>3. UNCHANGED <<run, runSeen, timer, elapsed, uids, workflow, workflowSeen, agentSeen, childSeen,
                  succeeded>>
      BY <1>1 DEF ReconcileMissing
  <2>4. TypeOK'
      BY <2>1, <2>3 DEF TypeOK
  <2>5. \A i \in StageIds : ChildMoves(i)
      BY <2>2, <2>3 DEF ChildMoves
  <2>. QED BY <2>3, <2>4, <2>5 DEF Quiet
<1>2. CASE ReconcileTTL(ok)
  <2>1. UNCHANGED <<elapsed, uids, workflow, workflowSeen, agentSeen, child, childSeen, succeeded>>
      BY <1>2 DEF ReconcileTTL
  <2>2. timer' \in BOOLEAN /\ queued' \in BOOLEAN
      BY <1>2, ConstantsAssumption DEF ReconcileTTL, Publish, TypeOK
  <2>3. \/ UNCHANGED <<run, runSeen>>
        \/ run' = NoRun /\ run.uid # 0 /\ runSeen' = IF ReadsOwnWrites THEN NoRun ELSE runSeen
      BY <1>2 DEF ReconcileTTL, Publish
  <2>4. NoRun \in Runs
      BY NoRunFact
  <2>5. TypeOK'
      BY <2>1, <2>2, <2>3, <2>4 DEF TypeOK
  <2>6. \A i \in StageIds : ChildMoves(i)
      BY <2>1 DEF ChildMoves
  <2>. QED BY <2>1, <2>3, <2>5, <2>6 DEF Quiet
<1>. QED BY <1>1, <1>2

\* The watches, the timer and a restart of the manager.
LEMMA ManagerFact ==
    ASSUME TypeOK, Manager
    PROVE  TypeOK' /\ Quiet
<1>1. UNCHANGED <<run, uids, workflow, child, succeeded>>
    BY DEF Manager, DeliverRun, SyncWorkflow, SyncChild, Elapse, Wake, Restart
<1>2. \A i \in StageIds : ChildMoves(i)
    BY <1>1 DEF ChildMoves
<1>3. /\ runSeen' = runSeen \/ runSeen' = run'
      /\ queued' \in BOOLEAN /\ timer' \in BOOLEAN
      /\ workflowSeen' \in Workflows
    BY DEF Manager, DeliverRun, SyncWorkflow, SyncChild, Elapse, Wake, Restart, TypeOK
<1>4. /\ childSeen' \in [StageIds -> Children]
      /\ \A i \in StageIds : childSeen'[i] = childSeen[i] \/ childSeen'[i] = child'[i]
  <2>1. CASE SyncChild
      BY <1>1, <2>1 DEF SyncChild, TypeOK
  <2>2. CASE ~SyncChild
      BY <1>1, <2>2 DEF Manager, DeliverRun, SyncWorkflow, Elapse, Wake, Restart, TypeOK
  <2>. QED BY <2>1, <2>2
<1>5. elapsed' \subseteq 0..MaxUid /\ UNCHANGED agentSeen
  <2>1. run.uid \in 0..MaxUid /\ runSeen.uid \in 0..MaxUid
      BY DEF TypeOK, Runs
  <2>. QED BY <2>1 DEF Manager, DeliverRun, SyncWorkflow, SyncChild, Elapse, Wake, Restart, TypeOK
<1>6. TypeOK'
    BY <1>1, <1>3, <1>4, <1>5 DEF TypeOK
<1>. QED BY <1>1, <1>2, <1>3, <1>4, <1>6 DEF Quiet

\* The other actors.
LEMMA EnvironmentFact ==
    ASSUME TypeOK, Environment
    PROVE  TypeOK' /\ Quiet
<1>0. \A i \in StageIds : child[i] \in Children
    BY DEF TypeOK
<1>1. CASE WorkflowChange
  <2>1. UNCHANGED <<controllerVars, run, uids, child, succeeded>>
      BY <1>1 DEF WorkflowChange
  <2>2. workflow' \in Workflows
      BY <1>1, ConstantsAssumption DEF WorkflowChange, TypeOK, Workflows, Versions
  <2>3. TypeOK'
      BY <2>1, <2>2 DEF TypeOK, controllerVars
  <2>. QED BY <2>1, <2>3 DEF Quiet, ChildMoves, controllerVars
<1>2. CASE ChildStep
  <2>1. PICK i \in StageIds, state \in {"Pending", "Running", "Succeeded", "Failed"} :
          /\ child[i].state # "absent" /\ ~IsTerminalPhase(child[i].state)
          /\ child' = [child EXCEPT ![i] = [child[i] EXCEPT !.state = state]]
          /\ succeeded' = IF state = "Succeeded"
                          THEN [succeeded EXCEPT ![child[i].owner] = @ \cup {i}] ELSE succeeded
      BY <1>2 DEF ChildStep, IsTerminalPhase
  <2>2. UNCHANGED <<controllerVars, run, uids, workflow>>
      BY <1>2 DEF ChildStep
  <2>3. PICK c \in Children : /\ c = [child[i] EXCEPT !.state = state]
                              /\ c.owner = child[i].owner /\ c.state = state
    <3>1. state \in ChildStates /\ child[i] \in Children
        BY <1>0 DEF ChildStates, Phases
    <3>. QED BY <3>1, SetStateFact
  <2>4. /\ child' \in [StageIds -> Children] /\ child'[i] = c
        /\ \A j \in StageIds : j # i => child'[j] = child[j]
      BY <2>1, <2>3, ChildUpdateFact
  <2>5. child[i].owner \in 0..MaxUid /\ succeeded \in [0..MaxUid -> SUBSET StageIds]
      BY <1>0 DEF Children, TypeOK
  <2>6. /\ succeeded' \in [0..MaxUid -> SUBSET StageIds]
        /\ \A u \in 0..MaxUid :
             succeeded'[u] = IF state = "Succeeded" /\ u = child[i].owner
                             THEN succeeded[u] \cup {i} ELSE succeeded[u]
      BY <2>1, <2>5
  <2>7. TypeOK'
      BY <2>1, <2>2, <2>4, <2>6 DEF TypeOK, controllerVars
  <2>8. \A j \in StageIds, u \in 0..MaxUid :
          /\ j \in succeeded[u] => j \in succeeded'[u]
          /\ j \in succeeded'[u] =>
               j \in succeeded[u] \/ (child'[j].state = "Succeeded" /\ child'[j].owner = u)
    <3>. SUFFICES ASSUME NEW j \in StageIds, NEW u \in 0..MaxUid
                  PROVE  /\ j \in succeeded[u] => j \in succeeded'[u]
                         /\ j \in succeeded'[u] =>
                              j \in succeeded[u] \/ (child'[j].state = "Succeeded" /\ child'[j].owner = u)
        OBVIOUS
    <3>1. CASE state = "Succeeded" /\ u = child[i].owner
      <4>1. succeeded'[u] = succeeded[u] \cup {i}
          BY <2>6, <3>1
      <4>2. child'[i].state = "Succeeded" /\ child'[i].owner = u
          BY <2>3, <2>4, <3>1
      <4>. QED BY <4>1, <4>2
    <3>2. CASE ~(state = "Succeeded" /\ u = child[i].owner)
        BY <2>6, <3>2
    <3>. QED BY <3>1, <3>2
  <2>9. \A j \in StageIds : ChildMoves(j)
      BY <2>1, <2>3, <2>4, <2>5, <2>6 DEF ChildMoves
  <2>. QED BY <2>2, <2>7, <2>8, <2>9 DEF Quiet, controllerVars
<1>3. CASE ChildExpires \/ ChildDelete \/ Collect
  <2>1. UNCHANGED <<controllerVars, run, uids, workflow, succeeded>>
      BY <1>3 DEF ChildExpires, ChildDelete, Collect
  <2>2. PICK i \in StageIds :
          /\ child' = [child EXCEPT ![i] = NoChild]
          /\ Faults \cap {"deleteChild", "childTTL"} # {} \/ child[i].owner # run.uid
      BY <1>3 DEF ChildExpires, ChildDelete, Collect
  <2>3. /\ child' \in [StageIds -> Children] /\ child'[i] = NoChild
        /\ \A j \in StageIds : j # i => child'[j] = child[j]
      BY <2>2, ChildUpdateFact, NoChildFact
  <2>4. TypeOK'
      BY <2>1, <2>3 DEF TypeOK, controllerVars
  <2>5. \A j \in StageIds : ChildMoves(j)
      BY <2>1, <2>2, <2>3 DEF ChildMoves
  <2>. QED BY <2>1, <2>4, <2>5 DEF Quiet, controllerVars
<1>4. CASE DropOwner
  <2>1. UNCHANGED <<controllerVars, run, uids, workflow, succeeded>>
      BY <1>4 DEF DropOwner
  <2>2. PICK i \in StageIds : child[i].owned /\ child' = [child EXCEPT ![i] = [child[i] EXCEPT !.owned = FALSE]]
      BY <1>4 DEF DropOwner
  <2>3. PICK c \in Children : /\ c = [child[i] EXCEPT !.owned = FALSE]
                              /\ c.owner = child[i].owner /\ c.state = child[i].state
      BY <1>0, DropOwnedFact
  <2>4. /\ child' \in [StageIds -> Children] /\ child'[i] = c
        /\ \A j \in StageIds : j # i => child'[j] = child[j]
      BY <2>2, <2>3, ChildUpdateFact
  <2>5. TypeOK'
      BY <2>1, <2>4 DEF TypeOK, controllerVars
  <2>6. \A j \in StageIds : ChildMoves(j)
      BY <2>3, <2>4 DEF ChildMoves
  <2>. QED BY <2>1, <2>5, <2>6 DEF Quiet, controllerVars
<1>5. CASE UserDelete
  <2>1. /\ UNCHANGED <<controllerVars, uids, workflow, child, succeeded>>
        /\ run' = NoRun /\ run.uid # 0 /\ "user" \in Faults
      BY <1>5 DEF UserDelete
  <2>2. NoRun \in Runs
      BY NoRunFact
  <2>3. TypeOK'
      BY <2>1, <2>2 DEF TypeOK, controllerVars
  <2>. QED BY <2>1, <2>3 DEF Quiet, ChildMoves, controllerVars
<1>6. CASE UserCreate
  <2>1. /\ UNCHANGED <<controllerVars, workflow, child, succeeded>>
        /\ "user" \in Faults /\ run.uid = 0 /\ uids < MaxUid
        /\ run' = NewRun(uids + 1) /\ uids' = uids + 1
      BY <1>6 DEF UserCreate
  <2>2. uids + 1 \in 1..MaxUid /\ uids + 1 \in 0..MaxUid
      BY <2>1, ConstantsAssumption DEF TypeOK
  <2>3. NewRun(uids + 1) \in Runs
      BY <2>2, NewRunFact
  <2>4. TypeOK'
      BY <2>1, <2>2, <2>3 DEF TypeOK, controllerVars
  <2>. QED BY <2>1, <2>4 DEF Quiet, ChildMoves, controllerVars
<1>7. CASE AgentChange
  <2>1. /\ agentSeen' = ~agentSeen
        /\ UNCHANGED <<runSeen, queued, timer, elapsed, workflowSeen, childSeen, run, uids, workflow,
                       child, succeeded>>
      BY <1>7 DEF AgentChange
  <2>2. TypeOK'
      BY <2>1 DEF TypeOK
  <2>. QED BY <2>1, <2>2 DEF Quiet, ChildMoves
<1>. QED BY <1>1, <1>2, <1>3, <1>4, <1>5, <1>6, <1>7 DEF Environment

\* A reconcile of a live run keeps the types.
LEMMA AdvancesType ==
    ASSUME TypeOK, Advances
    PROVE  TypeOK'
<1>1. PICK c \in Runs, done \in BOOLEAN, again \in BOOLEAN : PatchRunStatus(c, done, again)
    BY DEF Advances
<1>2. run' \in Runs /\ runSeen' \in Runs /\ queued' \in BOOLEAN
    BY <1>1, PatchFact
<1>3. child' \in [StageIds -> Children]
  <2>1. ASSUME NEW i \in StageIds, Creates(i) PROVE child' \in [StageIds -> Children]
    <3>1. [owner |-> runSeen.uid, owned |-> TRUE, state |-> ""] \in Children
        BY DEF TypeOK, Runs, Children, ChildStates, Phases
    <3>. QED BY <2>1, <3>1 DEF Creates, TypeOK
  <2>. QED BY <2>1 DEF Advances, TypeOK
<1>. QED BY <1>2, <1>3 DEF Advances, TypeOK

\* The summary of Next that everything below is proved from.
LEMMA NextFact ==
    ASSUME TypeOK, Next
    PROVE  TypeOK' /\ (Quiet \/ Advances)
<1>1. ASSUME NEW ok \in BOOLEAN, Reconcile(ok) PROVE TypeOK' /\ (Quiet \/ Advances)
    BY <1>1, ReconcileFact, QuietReconcileFact, AdvancesType
<1>2. Reconcile(TRUE) \/ Reconcile(FALSE) \/ Manager \/ Environment
    BY DEF Next
<1>. QED BY <1>1, <1>2, ManagerFact, EnvironmentFact

\* Type correctness, for every number of stages, versions and runs.
THEOREM TypeCorrect == Spec => []TypeOK
<1>1. Init => TypeOK
  <2>. SUFFICES ASSUME Init PROVE TypeOK
      OBVIOUS
  <2>1. 1 \in 0..MaxUid /\ 1 \in 1..MaxUid /\ 1 \in Versions
      BY ConstantsAssumption DEF Versions
  <2>2. run \in Runs /\ runSeen \in Runs
      BY <2>1, NewRunFact DEF Init
  <2>3. workflow \in Workflows /\ workflowSeen \in Workflows
      BY <2>1 DEF Init, Workflows
  <2>4. child \in [StageIds -> Children] /\ childSeen \in [StageIds -> Children]
      BY NoChildFact DEF Init
  <2>5. succeeded \in [0..MaxUid -> SUBSET StageIds] /\ agentSeen \in BOOLEAN
      BY DEF Init
  <2>. QED BY <2>1, <2>2, <2>3, <2>4, <2>5 DEF Init, TypeOK
<1>2. TypeOK /\ [Next]_vars => TypeOK'
  <2>1. CASE Next
      BY <2>1, NextFact
  <2>2. CASE UNCHANGED vars
      BY <2>2 DEF TypeOK, vars
  <2>. QED BY <2>1, <2>2
<1>. QED BY <1>1, <1>2, PTL DEF Spec

-----------------------------------------------------------------------------
(* Ownership, whatever the cache shows.                                      *)

\* Earlier stages are stages.
LEMMA EarlierFact == ASSUME NEW i \in StageIds, NEW j \in 1..(i - 1) PROVE j \in StageIds
BY ConstantsAssumption DEF StageIds

\* The run a user creates.
LEMMA CreatedFact ==
    ASSUME TypeOK, uids < MaxUid
    PROVE  LET v == NewRun(uids + 1)
           IN  /\ v.uid = uids + 1 /\ v.phase = ""
               /\ \A i \in StageIds : /\ v.stages[i].phase = "Pending"
                                      /\ v.stages[i].named = FALSE /\ v.stages[i].def = 0
<1>1. uids + 1 \in 0..MaxUid
    BY ConstantsAssumption DEF TypeOK
<1>. QED BY <1>1, NewRunFact

\* A step that is no reconcile of a live run leaves the run alone, deletes it
\* or creates it.
LEMMA QuietRun ==
    ASSUME TypeOK, Quiet
    PROVE  \/ run' = run
           \/ /\ run'.uid # run.uid /\ run'.phase = ""
              /\ \A i \in StageIds : /\ run'.stages[i].phase = "Pending"
                                     /\ run'.stages[i].named = FALSE /\ run'.stages[i].def = 0
<1>1. CASE run' = NoRun /\ run.uid # 0
    BY <1>1, NoRunFact
<1>2. CASE uids < MaxUid /\ run.uid = 0 /\ run' = NewRun(uids + 1)
  <2>1. uids + 1 # 0
      BY ConstantsAssumption DEF TypeOK
  <2>. QED BY <1>2, <2>1, CreatedFact
<1>. QED BY <1>1, <1>2 DEF Quiet

\* Uids only grow, and a version of a later run, or of a stage run of a later
\* run, is never followed by one of an earlier run.  No stage has succeeded for
\* a run that was never created.
Ordered ==
    /\ run.uid \in {0, uids} /\ runSeen.uid <= uids
    /\ \A i \in StageIds :
         /\ child[i].owner <= uids /\ childSeen[i].owner <= uids
         /\ runSeen.uid # 0 => child[i].owner <= runSeen.uid /\ childSeen[i].owner <= runSeen.uid
         /\ Exists(i) => childSeen[i].owner <= child[i].owner /\ child[i].owner # 0
    /\ \A u \in 0..MaxUid : succeeded[u] # {} => u \in 1..uids

\* The AgentRuns the cached version of this run records, this run records.
Remembered ==
    run.uid # 0 /\ runSeen.uid = run.uid =>
        \A i \in StageIds : runSeen.stages[i].named => run.stages[i].named

\* The ranges of what the ordering compares.
LEMMA UidTypes ==
    ASSUME TypeOK
    PROVE  /\ uids \in Nat \ {0} /\ run.uid \in Nat /\ runSeen.uid \in Nat
           /\ \A i \in StageIds : child[i].owner \in Nat /\ childSeen[i].owner \in Nat
BY ConstantsAssumption DEF TypeOK, Runs, Children

\* No stage has succeeded for no run.
LEMMA NobodysStages == ASSUME TypeOK, Ordered PROVE succeeded[0] = {}
<1>1. 0 \in 0..MaxUid /\ 0 \notin 1..uids
    BY ConstantsAssumption DEF TypeOK
<1>. QED BY <1>1 DEF Ordered

\* The order of uids survives deletions, re-creations and watch events.
LEMMA QuietOrdered ==
    ASSUME TypeOK, TypeOK', Ordered, Remembered, Quiet
    PROVE  Ordered' /\ Remembered'
<1>0. NoRun.uid = 0 /\ NoChild.owner = 0 /\ NoChild.state = "absent"
    BY NoRunFact, NoChildFact DEF NoChild
<1>1. CASE run' = run /\ uids' = uids
  <2>1. runSeen' = runSeen \/ runSeen' = run
      BY <1>1 DEF Quiet
  <2>2. ASSUME NEW i \in StageIds
        PROVE  /\ child'[i].owner <= uids /\ childSeen'[i].owner <= uids
               /\ runSeen'.uid # 0 =>
                    child'[i].owner <= runSeen'.uid /\ childSeen'[i].owner <= runSeen'.uid
               /\ child'[i].state # "absent" =>
                    childSeen'[i].owner <= child'[i].owner /\ child'[i].owner # 0
    <3>1. \/ child'[i].owner = child[i].owner /\ (child'[i].state # "absent" => Exists(i))
          \/ child'[i].owner = 0 /\ child'[i].state = "absent"
        BY <1>0 DEF Quiet, ChildMoves, Exists
    <3>2. childSeen'[i] = childSeen[i] \/ childSeen'[i] = child'[i]
        BY DEF Quiet
    <3>3. child'[i].owner <= uids /\ childSeen'[i].owner <= uids
        BY <3>1, <3>2, UidTypes DEF Ordered
    <3>4. child'[i].state # "absent" =>
            childSeen'[i].owner <= child'[i].owner /\ child'[i].owner # 0
        BY <3>1, <3>2, UidTypes DEF Ordered
    <3>5. runSeen'.uid # 0 =>
            child'[i].owner <= runSeen'.uid /\ childSeen'[i].owner <= runSeen'.uid
        BY <2>1, <3>1, <3>2, <3>3, UidTypes DEF Ordered
    <3>. QED BY <3>3, <3>4, <3>5
  <2>3. ASSUME NEW u \in 0..MaxUid, succeeded'[u] # {} PROVE u \in 1..uids
    <3>1. PICK i \in StageIds : i \in succeeded'[u]
        BY <2>3 DEF TypeOK
    <3>2. CASE i \in succeeded[u]
        BY <3>2 DEF Ordered
    <3>3. CASE child'[i].state = "Succeeded" /\ child'[i].owner = u
        BY <2>2, <3>3, UidTypes
    <3>. QED BY <3>1, <3>2, <3>3 DEF Quiet
  <2>4. Ordered'
      BY <1>1, <2>1, <2>2, <2>3, UidTypes DEF Ordered, Exists
  <2>5. Remembered'
      BY <1>1, <2>1 DEF Remembered
  <2>. QED BY <2>4, <2>5
<1>2. CASE run' = NoRun /\ run.uid # 0 /\ UNCHANGED <<uids, child, childSeen, succeeded>>
  <2>1. runSeen' = runSeen \/ runSeen' = NoRun
      BY <1>2 DEF Quiet
  <2>. QED BY <1>0, <1>2, <2>1, UidTypes DEF Ordered, Remembered, Exists
<1>3. CASE /\ run.uid = 0 /\ uids < MaxUid
           /\ run' = NewRun(uids + 1) /\ uids' = uids + 1
           /\ UNCHANGED <<runSeen, child, childSeen, succeeded>>
  <2>1. run'.uid = uids + 1
      BY <1>3, CreatedFact
  <2>. QED BY <1>3, <2>1, UidTypes DEF Ordered, Remembered, Exists
<1>. QED BY <1>1, <1>2, <1>3 DEF Quiet

\* It survives a reconcile that starts from a version of an earlier run: the
\* patch carries no uid, the stage run it creates has the uid it read.
LEMMA AdvancesOrdered ==
    ASSUME TypeOK, TypeOK', Ordered, Remembered, Advances
    PROVE  Ordered' /\ Remembered'
<1>1. PICK c \in Runs, done \in BOOLEAN, again \in BOOLEAN :
        PatchRunStatus(c, done, again) /\ Derived(c)
    BY DEF Advances
<1>2. UNCHANGED <<uids, childSeen, succeeded>> /\ runSeen.uid # 0
    BY DEF Advances, Live, Reconciling
<1>3. /\ run'.uid = run.uid /\ (run.uid = 0 => run' = run)
      /\ run'.stages = run.stages \/ run'.stages = c.stages
      /\ runSeen' = runSeen \/ runSeen' = run'
    BY <1>1, PatchFact
<1>4. \A i \in StageIds : runSeen.stages[i].named => c.stages[i].named
    BY <1>1 DEF Derived
<1>5. Remembered'
    BY <1>3, <1>4 DEF Remembered
<1>6. ASSUME NEW i \in StageIds
      PROVE  /\ child'[i].owner <= uids /\ child'[i].owner <= runSeen.uid
             /\ child'[i].state # "absent" =>
                  childSeen[i].owner <= child'[i].owner /\ child'[i].owner # 0
  <2>1. child'[i] = child[i] \/ child'[i].owner = runSeen.uid
    <3>1. ASSUME NEW j \in StageIds, Creates(j)
          PROVE  child'[i] = child[i] \/ child'[i].owner = runSeen.uid
        BY <3>1 DEF Creates, TypeOK
    <3>. QED BY <3>1 DEF Advances
  <2>2. CASE child'[i] = child[i]
      BY <1>2, <2>2 DEF Ordered, Exists
  <2>3. CASE child'[i].owner = runSeen.uid
      BY <1>2, <2>3, UidTypes DEF Ordered
  <2>. QED BY <2>1, <2>2, <2>3
<1>7. Ordered'
  <2>1. CASE runSeen' = runSeen
      BY <1>2, <1>3, <1>6, <2>1 DEF Ordered, Exists
  <2>2. CASE runSeen' = run'
      BY <1>2, <1>3, <1>6, <2>2, UidTypes DEF Ordered, Exists
  <2>. QED BY <1>3, <2>1, <2>2
<1>. QED BY <1>5, <1>7

\* The order of uids, and the memory of recorded stage runs, are invariants.
THEOREM OrderedKept == Spec => [](Ordered /\ Remembered)
<1>1. Init => Ordered /\ Remembered
  <2>. SUFFICES ASSUME Init PROVE Ordered /\ Remembered
      OBVIOUS
  <2>1. run.uid = 1 /\ runSeen = run /\ uids = 1
    <3>1. 1 \in 0..MaxUid
        BY ConstantsAssumption
    <3>. QED BY <3>1, NewRunFact DEF Init
  <2>2. \A i \in StageIds : child[i].owner = 0 /\ childSeen[i].owner = 0 /\ child[i].state = "absent"
      BY DEF Init, NoChild
  <2>3. \A u \in 0..MaxUid : succeeded[u] = {}
      BY DEF Init
  <2>. QED BY <2>1, <2>2, <2>3 DEF Ordered, Remembered, Exists
<1>2. TypeOK /\ TypeOK' /\ Ordered /\ Remembered /\ [Next]_vars => Ordered' /\ Remembered'
  <2>1. CASE Next
      BY <2>1, NextFact, QuietOrdered, AdvancesOrdered
  <2>2. CASE UNCHANGED vars
      BY <2>2 DEF Ordered, Remembered, Exists, vars
  <2>. QED BY <2>1, <2>2
<1>. QED BY <1>1, <1>2, TypeCorrect, PTL DEF Spec

\* An AgentRun is recorded for a stage only if it belongs to this run, however
\* late the caches are and whatever objects of the same name came before.
THEOREM AdoptionIsSound == Spec => AdoptsOnlyOwn
<1>. DEFINE A == \A i \in StageIds :
                   /\ run'.uid = run.uid /\ runSeen.uid = run.uid
                   /\ ~run.stages[i].named /\ run'.stages[i].named
                   => child'[i].owner = run.uid
<1>1. TypeOK /\ Ordered /\ Remembered /\ [Next]_vars => [A]_vars
  <2>. SUFFICES ASSUME TypeOK, Ordered, Remembered, [Next]_vars,
                       NEW i \in StageIds, run'.uid = run.uid, runSeen.uid = run.uid,
                       ~run.stages[i].named, run'.stages[i].named
                PROVE  child'[i].owner = run.uid
      OBVIOUS
  <2>1. CASE Next
    <3>1. Advances
      <4>1. ASSUME Quiet PROVE FALSE
        <5>1. run' = run \/ run'.stages[i].named = FALSE
            BY <4>1, QuietRun
        <5>. QED BY <5>1
      <4>. QED BY <2>1, <4>1, NextFact
    <3>2. PICK c \in Runs, done \in BOOLEAN, again \in BOOLEAN :
            PatchRunStatus(c, done, again) /\ NamesOwn(c)
        BY <3>1 DEF Advances
    <3>3. c.stages[i].named /\ run.uid # 0
        BY <3>2, PatchFact
    <3>4. ~runSeen.stages[i].named
        BY <3>3 DEF Remembered
    <3>5. Creates(i) \/ (UNCHANGED child /\ child[i].state # "absent" /\ IsOwnedBy(i))
        BY <3>2, <3>3, <3>4 DEF NamesOwn
    <3>6. CASE Creates(i)
        BY <3>6 DEF Creates, TypeOK
    <3>7. CASE UNCHANGED child /\ child[i].state # "absent" /\ IsOwnedBy(i)
        BY <3>3, <3>7, UidTypes DEF IsOwnedBy, Ordered, Exists
    <3>. QED BY <3>5, <3>6, <3>7
  <2>2. CASE UNCHANGED vars
      BY <2>2 DEF vars
  <2>. QED BY <2>1, <2>2
<1>. QED BY <1>1, TypeCorrect, OrderedKept, PTL DEF Spec, AdoptsOnlyOwn

-----------------------------------------------------------------------------
(* Stages succeed in order, whatever goes wrong around the reconciler.       *)

\* A status claims success only of stages with an AgentRun that succeeded, for
\* this run or for one it replaced.
Claims(v) ==
    /\ \A i \in StageIds : v.stages[i].phase = "Succeeded" => SucceededBy(v.uid, i)
    /\ v.phase = "Succeeded" => \A i \in StageIds : SucceededBy(v.uid, i)

\* What both versions of the run and of every stage run say is backed by the
\* stage runs' history.
Backed ==
    /\ Claims(run) /\ Claims(runSeen)
    /\ \A i \in StageIds :
         /\ child[i].state = "Succeeded" => i \in succeeded[child[i].owner]
         /\ childSeen[i].state = "Succeeded" => i \in succeeded[childSeen[i].owner]
    /\ StagesInOrder

\* What succeeded for a run or its predecessors did so for a later one as well.
LEMMA SucceededByGrows ==
    ASSUME NEW u \in Nat, NEW w \in Nat, u <= w, NEW i, SucceededBy(u, i)
    PROVE  SucceededBy(w, i)
BY DEF SucceededBy

\* What succeeded stays so.
LEMMA SucceededByStays ==
    ASSUME Quiet, NEW u \in 0..MaxUid, NEW i \in StageIds, SucceededBy(u, i)
    PROVE  SucceededBy(u, i)'
<1>1. PICK w \in 1..u : i \in succeeded[w]
    BY DEF SucceededBy
<1>2. w \in 0..MaxUid
    BY ConstantsAssumption
<1>3. i \in succeeded'[w]
    BY <1>1, <1>2 DEF Quiet
<1>. QED BY <1>3 DEF SucceededBy

\* Backed survives what is no reconcile of a live run: a stage run only ever
\* succeeds where it is remembered as having succeeded, and the caches copy.
LEMMA QuietBacked ==
    ASSUME TypeOK, Backed, Quiet
    PROVE  Backed'
<1>0. /\ run.uid \in 0..MaxUid /\ runSeen.uid \in 0..MaxUid
      /\ \A i \in StageIds : child[i].owner \in 0..MaxUid /\ childSeen[i].owner \in 0..MaxUid
    BY DEF TypeOK, Runs, Children
<1>1. \/ run' = run
      \/ run'.phase = "" /\ \A i \in StageIds : run'.stages[i].phase = "Pending"
    BY QuietRun
<1>2. Claims(run)'
  <2>1. CASE run' = run
      BY <1>0, <2>1, SucceededByStays DEF Backed, Claims
  <2>2. CASE run'.phase = "" /\ \A i \in StageIds : run'.stages[i].phase = "Pending"
      BY <2>2 DEF Claims
  <2>. QED BY <1>1, <2>1, <2>2
<1>3. Claims(runSeen)'
  <2>1. CASE runSeen' = runSeen
      BY <1>0, <2>1, SucceededByStays DEF Backed, Claims
  <2>2. CASE runSeen' = run'
      BY <1>2, <2>2 DEF Claims
  <2>. QED BY <2>1, <2>2 DEF Quiet
<1>4. ASSUME NEW i \in StageIds
      PROVE  /\ child'[i].state = "Succeeded" => i \in succeeded'[child'[i].owner]
             /\ childSeen'[i].state = "Succeeded" => i \in succeeded'[childSeen'[i].owner]
             /\ child'[i].state # "absent" =>
                  child[i].state # "absent" /\ child'[i].owner = child[i].owner
  <2>1. \A u \in 0..MaxUid : i \in succeeded[u] => i \in succeeded'[u]
      BY DEF Quiet
  <2>2. ChildMoves(i) /\ (childSeen'[i] = childSeen[i] \/ childSeen'[i] = child'[i])
      BY DEF Quiet
  <2>3. child'[i].state # "absent" =>
          child[i].state # "absent" /\ child'[i].owner = child[i].owner
      BY <2>2, NoChildFact DEF ChildMoves
  <2>4. child'[i].state = "Succeeded" => i \in succeeded'[child'[i].owner]
      BY <1>0, <2>1, <2>2, NoChildFact DEF ChildMoves, Backed
  <2>5. childSeen'[i].state = "Succeeded" => i \in succeeded'[childSeen'[i].owner]
      BY <1>0, <2>1, <2>2, <2>4 DEF Backed
  <2>. QED BY <2>3, <2>4, <2>5
<1>5. StagesInOrder'
  <2>. SUFFICES ASSUME NEW i \in StageIds, child'[i].state # "absent", NEW j \in 1..(i - 1)
                PROVE  SucceededBy(child[i].owner, j)'
      BY <1>4 DEF StagesInOrder, Exists, SucceededBy
  <2>1. SucceededBy(child[i].owner, j) /\ j \in StageIds
      BY <1>4, EarlierFact DEF Backed, StagesInOrder, Exists
  <2>2. \E w \in 1..(child[i].owner) : j \in succeeded'[w]
      BY <1>0, <2>1, SucceededByStays DEF SucceededBy
  <2>3. child'[i].owner = child[i].owner
      BY <1>4
  <2>. QED BY <2>2, <2>3 DEF SucceededBy
<1>. QED BY <1>2, <1>3, <1>4, <1>5 DEF Backed

\* Backed survives a reconcile: a stage run is created only when the copy read
\* says that the earlier stages succeeded, and Backed says that it is right.
\* What the copy of an earlier run claims, it claims of the run it is patched
\* onto, which has its predecessor's successes behind it.
LEMMA AdvancesBacked ==
    ASSUME TypeOK, Ordered, Backed, Advances
    PROVE  Backed'
<1>1. PICK c \in Runs, done \in BOOLEAN, again \in BOOLEAN :
        PatchRunStatus(c, done, again) /\ Derived(c)
    BY DEF Advances
<1>2. UNCHANGED <<childSeen, succeeded>> /\ runSeen.uid # 0
    BY DEF Advances, Live, Reconciling
<1>3. /\ \A i \in StageIds : c.stages[i].phase = "Succeeded" => SucceededBy(runSeen.uid, i)
      /\ c.phase = "Succeeded" => \A i \in StageIds : SucceededBy(runSeen.uid, i)
  <2>1. ASSUME NEW i \in StageIds, childSeen[i].state = "Succeeded" PROVE SucceededBy(runSeen.uid, i)
    <3>1. i \in succeeded[childSeen[i].owner] /\ childSeen[i].owner \in 0..MaxUid
        BY <2>1 DEF Backed, TypeOK, Children
    <3>2. childSeen[i].owner \in 1..uids /\ childSeen[i].owner <= runSeen.uid
        BY <1>2, <3>1 DEF Ordered
    <3>3. childSeen[i].owner \in 1..(runSeen.uid)
        BY <3>2, UidTypes
    <3>. QED BY <3>1, <3>3 DEF SucceededBy
  <2>. QED BY <1>1, <2>1 DEF Derived, Backed, Claims
<1>4. /\ \/ run'.phase \in {c.phase, run.phase}
         \/ run'.phase = "Pending" /\ (run.phase = "" \/ c.phase = "")
      /\ run'.stages = run.stages \/ (run'.stages = c.stages /\ run.uid # 0)
      /\ run'.uid = run.uid /\ (run.uid = 0 => run' = run)
      /\ runSeen' = runSeen \/ runSeen' = run'
    BY <1>1, PatchFact
<1>5. run.uid # 0 => \A i \in StageIds : SucceededBy(runSeen.uid, i) => SucceededBy(run.uid, i)
  <2>1. run.uid # 0 => runSeen.uid <= run.uid
      BY UidTypes DEF Ordered
  <2>. QED BY <2>1, UidTypes, SucceededByGrows
<1>6. Claims(run)
    BY DEF Backed
<1>7. Claims(run)'
  <2>1. CASE run.uid = 0
      BY <1>2, <1>4, <1>6, <2>1 DEF Claims, SucceededBy
  <2>2. CASE run.uid # 0
    <3>1. \A i \in StageIds : run'.stages[i].phase = "Succeeded" => SucceededBy(run.uid, i)
        BY <1>3, <1>4, <1>5, <1>6, <2>2 DEF Claims
    <3>2. run'.phase = "Succeeded" => \A i \in StageIds : SucceededBy(run.uid, i)
        BY <1>3, <1>4, <1>5, <1>6, <2>2 DEF Claims
    <3>. QED BY <1>2, <1>4, <3>1, <3>2 DEF Claims, SucceededBy
  <2>. QED BY <2>1, <2>2
<1>8. Claims(runSeen)'
  <2>1. CASE runSeen' = runSeen
      BY <1>2, <2>1 DEF Backed, Claims, SucceededBy
  <2>2. CASE runSeen' = run'
      BY <1>7, <2>2 DEF Claims, SucceededBy
  <2>. QED BY <1>4, <2>1, <2>2
<1>9. CASE UNCHANGED child
    BY <1>2, <1>7, <1>8, <1>9 DEF Backed, StagesInOrder, Exists, SucceededBy
<1>10. ASSUME NEW i \in StageIds, Creates(i) PROVE Backed'
  <2>1. /\ child'[i].state = "" /\ child'[i].owner = runSeen.uid
        /\ \A j \in StageIds : j # i => child'[j] = child[j]
      BY <1>10 DEF Creates, TypeOK
  <2>2. \A j \in 1..(i - 1) : SucceededBy(runSeen.uid, j)
      BY <1>10, EarlierFact DEF Creates, Backed, Claims
  <2>3. StagesInOrder'
    <3>. SUFFICES ASSUME NEW k \in StageIds, child'[k].state # "absent", NEW j \in 1..(k - 1)
                  PROVE  \E u \in 1..(child'[k].owner) : j \in succeeded[u]
        BY <1>2 DEF StagesInOrder, Exists, SucceededBy
    <3>1. CASE k = i
        BY <2>1, <2>2, <3>1 DEF SucceededBy
    <3>2. CASE k # i
      <4>1. child'[k] = child[k] /\ Exists(k)
          BY <2>1, <3>2 DEF Exists
      <4>2. SucceededBy(child[k].owner, j)
          BY <4>1 DEF Backed, StagesInOrder
      <4>. QED BY <4>1, <4>2 DEF SucceededBy
    <3>. QED BY <3>1, <3>2
  <2>. QED BY <1>2, <1>7, <1>8, <2>1, <2>3 DEF Backed
<1>. QED BY <1>9, <1>10 DEF Advances

\* Whatever any copy claims of a stage is true of the run it shows or of one
\* before it, an invariant however stale the caches are.
THEOREM BackedKept == Spec => []Backed
<1>1. Init => Backed
  <2>. SUFFICES ASSUME Init PROVE Backed
      OBVIOUS
  <2>1. 1 \in 0..MaxUid
      BY ConstantsAssumption
  <2>2. Claims(run) /\ Claims(runSeen)
      BY <2>1, NewRunFact DEF Init, Claims
  <2>. QED BY <2>2, NoChildFact DEF Init, Backed, StagesInOrder, Exists
<1>2. TypeOK /\ Ordered /\ Backed /\ [Next]_vars => Backed'
  <2>1. CASE Next
      BY <2>1, NextFact, QuietBacked, AdvancesBacked
  <2>2. CASE UNCHANGED vars
      BY <2>2 DEF Backed, Claims, StagesInOrder, Exists, SucceededBy, vars
  <2>. QED BY <2>1, <2>2
<1>. QED BY <1>1, <1>2, TypeCorrect, OrderedKept, PTL DEF Spec

\* A stage's AgentRun exists only after every earlier stage has succeeded, for
\* the workflow run that created it or for one of the name before it.
THEOREM StagesRunInOrder == Spec => []StagesInOrder
<1>1. Backed => StagesInOrder
    BY DEF Backed
<1>. QED BY <1>1, BackedKept, PTL

\* "All stages completed successfully": the first workflow run of a name succeeds
\* only if an AgentRun that this very object created succeeded for each stage,
\* however stale the copies are that its status is computed from, whatever is
\* deleted or expires and whatever else goes wrong.
THEOREM SuccessIsEarned == Spec => []SuccessMeansAllStages
<1>1. TypeOK /\ Backed => SuccessMeansAllStages
  <2>. SUFFICES ASSUME TypeOK, Backed, run.phase = "Succeeded", run.uid = 1
                PROVE  succeeded[run.uid] = StageIds
      BY DEF SuccessMeansAllStages
  <2>1. \A i \in StageIds : SucceededBy(run.uid, i)
      BY DEF Backed, Claims
  <2>2. 1 \in 0..MaxUid /\ succeeded[1] \subseteq StageIds
      BY ConstantsAssumption DEF TypeOK
  <2>3. \A u \in 1..1 : u = 1
      OBVIOUS
  <2>4. \A i \in StageIds : i \in succeeded[1]
      BY <2>1, <2>3 DEF SucceededBy
  <2>. QED BY <2>2, <2>4
<1>. QED BY <1>1, TypeCorrect, BackedKept, PTL

\* The name is used once, or users leave the run alone.
OneObject == MaxUid = 1 \/ "user" \notin Faults

\* One run has been created.
OneUid == uids = 1

\* Where the name is not used again there is one run.
LEMMA OneRun == ASSUME OneObject PROVE Spec => []OneUid
<1>1. Init => OneUid
    BY DEF Init, OneUid
<1>2. TypeOK /\ OneUid /\ [Next]_vars => OneUid'
  <2>1. ASSUME TypeOK, OneUid, Quiet PROVE OneUid'
      BY <2>1 DEF Quiet, OneObject, OneUid
  <2>2. ASSUME OneUid, Advances PROVE OneUid'
      BY <2>2 DEF Advances, OneUid
  <2>3. CASE Next
      BY <2>1, <2>2, <2>3, NextFact
  <2>4. CASE UNCHANGED vars
      BY <2>4 DEF vars, OneUid
  <2>. QED BY <2>3, <2>4
<1>. QED BY <1>1, <1>2, TypeCorrect, PTL DEF Spec

\* Where the name is not used again, the run in question is the first.
LEMMA SuccessIsOwned == ASSUME OneObject PROVE Spec => []SuccessIsOwn
<1>1. TypeOK /\ Ordered /\ Backed /\ OneUid /\ SuccessMeansAllStages => SuccessIsOwn
  <2>. SUFFICES ASSUME TypeOK, Ordered, Backed, OneUid, SuccessMeansAllStages,
                       run.phase = "Succeeded"
                PROVE  succeeded[run.uid] = StageIds
      BY DEF SuccessIsOwn
  <2>1. SucceededBy(run.uid, 1)
      BY ConstantsAssumption DEF Backed, Claims, StageIds
  <2>2. run.uid = 1
      BY <2>1 DEF SucceededBy, Ordered, OneUid
  <2>. QED BY <2>2 DEF SuccessMeansAllStages
<1>. QED BY <1>1, TypeCorrect, OrderedKept, BackedKept, OneRun, SuccessIsEarned, PTL

-----------------------------------------------------------------------------
(* A stage is not run twice.                                                 *)

\* Nobody but the sweep of a run that is gone, and the garbage collector,
\* removes stage runs.
ChildrenLeft == Faults \cap {"deleteChild", "childTTL"} = {}

\* The AgentRun of a stage that succeeded for this run is still there, in the
\* way of another.
Stays ==
    run.uid # 0 => \A i \in StageIds : i \in succeeded[run.uid] =>
                     child[i].state = "Succeeded" /\ child[i].owner = run.uid

\* A stage run that succeeded goes only with its workflow run.
LEMMA StaysStep ==
    ASSUME ChildrenLeft, TypeOK, Ordered, Stays, Quiet \/ Advances
    PROVE  Stays'
<1>. SUFFICES ASSUME run'.uid # 0, NEW i \in StageIds, i \in succeeded'[run'.uid]
              PROVE  child'[i].state = "Succeeded" /\ child'[i].owner = run'.uid
    BY DEF Stays
<1>0. run.uid \in 0..MaxUid
    BY DEF TypeOK, Runs
<1>1. CASE Quiet /\ run' = run
  <2>1. i \in succeeded[run.uid] \/ (child'[i].state = "Succeeded" /\ child'[i].owner = run.uid)
      BY <1>0, <1>1 DEF Quiet
  <2>2. ChildMoves(i)
      BY <1>1 DEF Quiet
  <2>. QED BY <1>1, <2>1, <2>2 DEF Stays, ChildMoves, ChildrenLeft, IsTerminalPhase
<1>2. CASE Quiet /\ run' # run
  <2>1. run' # NoRun
      BY NoRunFact
  <2>2. uids < MaxUid /\ run' = NewRun(uids + 1) /\ succeeded' = succeeded
      BY <1>2, <2>1 DEF Quiet
  <2>3. run'.uid = uids + 1
      BY <2>2, CreatedFact
  <2>4. uids + 1 \in 0..MaxUid /\ uids \in Nat
      BY <2>2, ConstantsAssumption DEF TypeOK
  <2>5. uids + 1 \in 1..uids
      BY <2>2, <2>3, <2>4 DEF Ordered
  <2>. QED BY <2>4, <2>5
<1>3. CASE Advances
  <2>1. PICK c \in Runs, done \in BOOLEAN, again \in BOOLEAN : PatchRunStatus(c, done, again)
      BY <1>3 DEF Advances
  <2>2. run'.uid = run.uid /\ succeeded' = succeeded
      BY <1>3, <2>1, PatchFact DEF Advances
  <2>3. child[i].state = "Succeeded" /\ child[i].owner = run.uid
      BY <2>2 DEF Stays
  <2>4. child'[i] = child[i]
    <3>1. ASSUME NEW j \in StageIds, Creates(j) PROVE child'[i] = child[i]
        BY <2>3, <3>1 DEF Creates, TypeOK
    <3>. QED BY <1>3, <3>1 DEF Advances
  <2>. QED BY <2>2, <2>3, <2>4
<1>. QED BY <1>1, <1>2, <1>3

\* A stage that succeeded is not run again for the same workflow run, also by a
\* reconcile that has not seen, or did not get to record, the AgentRun it
\* created.
THEOREM StagesRunOnce == ASSUME ChildrenLeft PROVE Spec => StageNotRepeated
<1>. DEFINE A == \A i \in StageIds :
                   /\ child[i].state # "" /\ child'[i].state = "" /\ child'[i].owner = run.uid
                   => i \notin succeeded[run.uid]
<1>1. Init => Stays
  <2>. SUFFICES ASSUME Init PROVE Stays
      OBVIOUS
  <2>1. 1 \in 0..MaxUid
      BY ConstantsAssumption
  <2>2. run.uid = 1 /\ succeeded[1] = {}
      BY <2>1, NewRunFact DEF Init
  <2>. QED BY <2>2 DEF Stays
<1>2. TypeOK /\ Ordered /\ Stays /\ [Next]_vars => Stays'
  <2>1. CASE Next
      BY <2>1, NextFact, StaysStep
  <2>2. CASE UNCHANGED vars
      BY <2>2 DEF Stays, vars
  <2>. QED BY <2>1, <2>2
<1>3. TypeOK /\ Ordered /\ Stays /\ [Next]_vars => [A]_vars
  <2>. SUFFICES ASSUME TypeOK, Ordered, Stays, Next, NEW i \in StageIds,
                       child[i].state # "", child'[i].state = "", child'[i].owner = run.uid,
                       i \in succeeded[run.uid]
                PROVE  FALSE
      BY DEF vars
  <2>1. run.uid \in 0..MaxUid
      BY DEF TypeOK, Runs
  <2>2. run.uid # 0
    <3>1. succeeded[run.uid] # {}
        OBVIOUS
    <3>. QED BY <3>1, NobodysStages
  <2>3. child[i].state = "Succeeded"
      BY <2>2 DEF Stays
  <2>4. CASE Quiet
      BY <2>3, <2>4, NoChildFact DEF Quiet, ChildMoves, IsTerminalPhase
  <2>5. CASE Advances
    <3>1. ASSUME NEW j \in StageIds, Creates(j) PROVE FALSE
        BY <2>3, <3>1 DEF Creates, TypeOK
    <3>. QED BY <2>3, <2>5, <3>1 DEF Advances
  <2>. QED BY <2>4, <2>5, NextFact
<1>. QED BY <1>1, <1>2, <1>3, TypeCorrect, OrderedKept, PTL DEF Spec, StageNotRepeated

-----------------------------------------------------------------------------
(* A reconciler that reads its own writes.                                   *)

\* The cached version is the server's, unless the run was deleted or replaced
\* since and the new one has no status yet.
Mirror ==
    \/ runSeen = run
    \/ "user" \in Faults /\ run = NewRun(run.uid) /\ (MaxUid = 1 => run.uid = 0)

\* A reconcile that reads its own writes leaves the cache equal to the server;
\* only the user moves the server away from it.
LEMMA MirrorStep ==
    ASSUME ReadsOwnWrites, TypeOK, Mirror, Quiet \/ Advances
    PROVE  Mirror'
<1>1. CASE Quiet
  <2>1. CASE run' = run /\ uids' = uids
      BY <1>1, <2>1 DEF Quiet, Mirror
  <2>2. CASE run' = NoRun /\ run.uid # 0
    <3>1. run' = NewRun(run'.uid) /\ run'.uid = 0
        BY <2>2, NoRunFact DEF NoRun
    <3>2. "user" \in Faults \/ runSeen' = run'
      <4>1. run' # run
          BY <2>2, <3>1
      <4>. QED BY <1>1, <4>1 DEF Quiet
    <3>. QED BY <3>1, <3>2 DEF Mirror
  <2>3. CASE "user" \in Faults /\ uids < MaxUid /\ run' = NewRun(uids + 1)
    <3>1. run'.uid = uids + 1
        BY <2>3, CreatedFact
    <3>2. MaxUid # 1
        BY <2>3 DEF TypeOK
    <3>. QED BY <2>3, <3>1, <3>2 DEF Mirror
  <2>. QED BY <1>1, <2>1, <2>2, <2>3 DEF Quiet
<1>2. CASE Advances
  <2>1. PICK c \in Runs, done \in BOOLEAN, again \in BOOLEAN : PatchRunStatus(c, done, again)
      BY <1>2 DEF Advances
  <2>2. UNCHANGED <<run, runSeen>> \/ runSeen' = run'
      BY <2>1, PatchFact
  <2>. QED BY <2>2 DEF Mirror
<1>. QED BY <1>1, <1>2

\* Mirror is an invariant of a reconciler that reads its own writes.
THEOREM MirrorKept == ASSUME ReadsOwnWrites PROVE Spec => []Mirror
<1>1. Init => Mirror
    BY DEF Init, Mirror
<1>2. TypeOK /\ Mirror /\ [Next]_vars => Mirror'
  <2>1. CASE Next
      BY <2>1, NextFact, MirrorStep
  <2>2. CASE UNCHANGED vars
      BY <2>2 DEF Mirror, vars
  <2>. QED BY <2>1, <2>2
<1>. QED BY <1>1, <1>2, TypeCorrect, PTL DEF Spec

\* A run with a phase, or with a snapshot, is the run the cache shows.
LEMMA MirrorFact ==
    ASSUME TypeOK, Mirror
    PROVE  \/ runSeen = run
           \/ run.phase = "" /\ \A i \in StageIds : run.stages[i].def = 0
<1>1. run.uid \in 0..MaxUid
    BY DEF TypeOK, Runs
<1>2. NewRun(run.uid).phase = "" /\ \A i \in StageIds : NewRun(run.uid).stages[i].def = 0
    BY <1>1, NewRunFact
<1>. QED BY <1>2, Zenon DEF Mirror

\* The stages of a workflow run keep the definition they were started from,
\* however its AgentWorkflow is edited.
THEOREM SnapshotKept == ASSUME ReadsOwnWrites PROVE Spec => SnapshotStable
<1>. DEFINE A == \A i \in StageIds : run.stages[i].def # 0 /\ run'.uid = run.uid
                                       => run'.stages[i].def = run.stages[i].def
<1>1. TypeOK /\ Mirror /\ [Next]_vars => [A]_vars
  <2>. SUFFICES ASSUME TypeOK, Mirror, [Next]_vars,
                       NEW i \in StageIds, run.stages[i].def # 0, run'.uid = run.uid
                PROVE  run'.stages[i].def = run.stages[i].def
      OBVIOUS
  <2>1. CASE Quiet
      BY <2>1, QuietRun
  <2>2. CASE Advances
    <3>1. PICK c \in Runs, done \in BOOLEAN, again \in BOOLEAN :
            PatchRunStatus(c, done, again) /\ Derived(c)
        BY <2>2 DEF Advances
    <3>2. run'.stages = run.stages \/ run'.stages = c.stages
        BY <3>1, PatchFact
    <3>3. c.stages[i].def = run.stages[i].def
        BY <3>1, MirrorFact DEF Derived
    <3>. QED BY <3>2, <3>3
  <2>3. CASE UNCHANGED vars
      BY <2>3 DEF vars
  <2>. QED BY <2>1, <2>2, <2>3, NextFact
<1>. QED BY <1>1, TypeCorrect, MirrorKept, PTL DEF Spec, SnapshotStable

-----------------------------------------------------------------------------
(* The abstract life of a run.                                               *)

\* The run starts without a phase.
LEMMA InitFact == ASSUME Init PROVE run.uid # 0 /\ run.phase = ""
<1>1. 1 \in 0..MaxUid
    BY ConstantsAssumption
<1>2. NewRun(1).uid = 1 /\ NewRun(1).phase = ""
    BY <1>1, NewRunFact
<1>3. run.uid = 1
    BY <1>2 DEF Init
<1>4. run.phase = ""
    BY <1>2 DEF Init
<1>5. run.uid # 0
    BY <1>3
<1>. QED BY <1>4, <1>5

\* Every step is a step of the abstract life, or none.
LEMMA RefinementStep ==
    ASSUME OneObject, TypeOK, TypeOK', Mirror, SuccessIsOwn', Quiet \/ Advances
    PROVE  Lifecycle!Next \/ UNCHANGED Lifecycle!lifecycleVars
<1>0. run.phase \in Phases /\ run'.phase \in Phases
    BY DEF TypeOK, Runs
<1>1. CASE Quiet /\ run' = run
  <2>0. run.uid \in 0..MaxUid
      BY DEF TypeOK, Runs
  <2>1. succeeded[run.uid] = StageIds => succeeded'[run.uid] = StageIds
    <3>1. succeeded'[run.uid] \subseteq StageIds
        BY <2>0 DEF TypeOK
    <3>2. \A i \in StageIds : i \in succeeded[run.uid] => i \in succeeded'[run.uid]
        BY <1>1, <2>0 DEF Quiet
    <3>. QED BY <3>1, <3>2
  <2>2. CASE succeeded'[run.uid] = StageIds /\ run.uid # 0
      BY <1>1, <2>2 DEF Lifecycle!Next, Lifecycle!Work
  <2>3. CASE succeeded'[run.uid] # StageIds \/ run.uid = 0
      BY <1>1, <2>1, <2>3 DEF Lifecycle!lifecycleVars
  <2>. QED BY <2>2, <2>3
<1>2. CASE Quiet /\ run' # run
  <2>1. run' = NoRun /\ run.uid # 0
    <3>1. MaxUid = 1 => ~(uids < MaxUid)
        BY DEF TypeOK
    <3>. QED BY <1>2, <3>1 DEF Quiet, OneObject
  <2>2. run'.uid = 0
      BY <2>1, NoRunFact
  <2>. QED BY <1>0, <2>1, <2>2 DEF Lifecycle!Next, Lifecycle!Remove, Phases
<1>3. CASE Advances
  <2>1. PICK c \in Runs, done \in BOOLEAN, again \in BOOLEAN :
          PatchRunStatus(c, done, again) /\ Derived(c)
      BY <1>3 DEF Advances
  <2>2. succeeded' = succeeded /\ ~IsTerminalPhase(runSeen.phase)
      BY <1>3 DEF Advances, Live
  <2>3. /\ \/ run'.phase \in {c.phase, run.phase}
           \/ run'.phase = "Pending" /\ (run.phase = "" \/ c.phase = "")
        /\ run'.uid = run.uid /\ (run.uid = 0 => run' = run)
      BY <2>1, PatchFact
  <2>4. CASE run.uid = 0
      BY <2>2, <2>3, <2>4 DEF Lifecycle!lifecycleVars
  <2>5. CASE run.uid # 0
    <3>1. runSeen = run /\ run.phase \in {"", "Pending", "Running"}
      <4>1. runSeen = run
          BY <2>5 DEF Mirror, OneObject
      <4>. QED BY <1>0, <2>2, <4>1 DEF Phases, IsTerminalPhase
    <3>2. c.phase \in {run.phase, "Running", "Failed", "Succeeded"}
        BY <2>1, <3>1 DEF Derived
    <3>3. run'.phase = "Succeeded" => succeeded'[run'.uid] = StageIds
        BY DEF SuccessIsOwn
    <3>4. CASE run'.phase = "Succeeded"
        BY <2>2, <2>3, <2>5, <3>1, <3>3, <3>4 DEF Lifecycle!Next, Lifecycle!Succeed
    <3>5. CASE run'.phase = "Failed"
        BY <2>2, <2>3, <2>5, <3>1, <3>5 DEF Lifecycle!Next, Lifecycle!Fail
    <3>6. CASE run'.phase = "Running"
        BY <2>2, <2>3, <2>5, <3>1, <3>6 DEF Lifecycle!Next, Lifecycle!Start, Lifecycle!lifecycleVars
    <3>7. CASE run'.phase \in {"", "Pending"}
      <4>1. run.phase \in {"", "Pending"}
          BY <2>3, <3>1, <3>2, <3>7
      <4>. QED BY <2>2, <2>3, <2>5, <3>7, <4>1 DEF Lifecycle!lifecycleVars
    <3>. QED BY <1>0, <3>4, <3>5, <3>6, <3>7 DEF Phases
  <2>. QED BY <2>4, <2>5
<1>. QED BY <1>1, <1>2, <1>3

\* A workflow run keeps the promise of RunLifecycle, the one its own stage runs
\* keep towards it: the phase only moves forward, an outcome is final and
\* success is declared only once every stage has succeeded.
THEOREM Refinement == ASSUME ReadsOwnWrites, OneObject PROVE Spec => RefinesLifecycle
<1>1. Init => Lifecycle!Init
  <2>. SUFFICES ASSUME Init PROVE Lifecycle!Init
      OBVIOUS
  <2>1. run.uid # 0 /\ run.phase = ""
      BY InitFact
  <2>2. succeeded[run.uid] # StageIds
    <3>1. 1 \in StageIds /\ 1 \in 0..MaxUid
        BY ConstantsAssumption DEF StageIds
    <3>2. run.uid = 1
        BY <3>1, NewRunFact DEF Init
    <3>3. succeeded[1] = {}
        BY <3>1 DEF Init
    <3>. QED BY <3>1, <3>2, <3>3
  <2>3. (IF run.uid = 0 THEN "absent" ELSE IF run.phase = "" THEN "Pending" ELSE run.phase) = "Pending"
      BY <2>1, Zenon
  <2>4. ~(run.uid # 0 /\ succeeded[run.uid] = StageIds)
      BY <2>2
  <2>. QED BY <2>3, <2>4, Zenon DEF Lifecycle!Init
<1>2. TypeOK /\ TypeOK' /\ Mirror /\ SuccessIsOwn' /\ [Next]_vars
        => [Lifecycle!Next]_(Lifecycle!lifecycleVars)
  <2>. SUFFICES ASSUME TypeOK, TypeOK', Mirror, SuccessIsOwn', [Next]_vars
                PROVE  [Lifecycle!Next]_(Lifecycle!lifecycleVars)
      OBVIOUS
  <2>1. CASE Next
      BY <2>1, NextFact, RefinementStep
  <2>2. CASE UNCHANGED vars
      BY <2>2 DEF vars, Lifecycle!lifecycleVars
  <2>. QED BY <2>1, <2>2
<1>. QED BY <1>1, <1>2, TypeCorrect, MirrorKept, SuccessIsOwned, PTL
     DEF Spec, RefinesLifecycle, Lifecycle!Spec

-----------------------------------------------------------------------------
(* One stage at a time.                                                      *)

\* The assumptions under which a stage run that is gone was never at work
\* behind the reconciler's back.
Undisturbed ==
    /\ ReadsOwnWrites
    /\ Faults \cap {"user", "deleteChild", "childTTL"} = {}

\* The stage has had an AgentRun that succeeded.
Once(i) == \E u \in 0..MaxUid : i \in succeeded[u]

\* While the run exists its stage runs stay, as they ended.
InHand ==
    /\ runSeen = run
    /\ \A i \in StageIds :
         /\ Once(i) => child[i].state \in {"Succeeded", "absent"}
         /\ run.uid # 0 /\ Once(i) => child[i].state = "Succeeded"
         /\ run.uid # 0 /\ Exists(i) => child[i].owner = run.uid

\* Where nobody deletes stage runs, those that succeeded stay and no step
\* replaces one.
LEMMA InHandStep ==
    ASSUME Undisturbed, TypeOK, InHand, Quiet \/ Advances
    PROVE  InHand'
<1>1. CASE Quiet
  <2>1. runSeen' = run' /\ (run' = run \/ run' = NoRun)
      BY <1>1 DEF Undisturbed, Quiet, InHand
  <2>2. NoRun.uid = 0 /\ NoChild.state = "absent"
      BY NoRunFact, NoChildFact
  <2>3. ASSUME NEW i \in StageIds
        PROVE  /\ Once(i)' => child'[i].state \in {"Succeeded", "absent"}
               /\ run'.uid # 0 /\ Once(i)' => child'[i].state = "Succeeded"
               /\ run'.uid # 0 /\ child'[i].state # "absent" => child'[i].owner = run'.uid
    <3>1. Once(i)' => Once(i) \/ child'[i].state = "Succeeded"
        BY <1>1 DEF Quiet, Once
    <3>2. \/ child'[i] = child[i]
          \/ child'[i] = NoChild /\ (run.uid = 0 \/ child[i].owner # run.uid) /\ run' = run
          \/ child'[i].state = child[i].state /\ child'[i].owner = child[i].owner
          \/ /\ child[i].state # "absent" /\ ~IsTerminalPhase(child[i].state)
             /\ child'[i].state # "absent" /\ child'[i].owner = child[i].owner
      BY <1>1 DEF Undisturbed, Quiet, ChildMoves
    <3>. QED BY <2>1, <2>2, <3>1, <3>2 DEF InHand, Exists, IsTerminalPhase
  <2>. QED BY <2>1, <2>3 DEF InHand, Exists
<1>2. CASE Advances
  <2>1. PICK c \in Runs, done \in BOOLEAN, again \in BOOLEAN : PatchRunStatus(c, done, again)
      BY <1>2 DEF Advances
  <2>2. run'.uid = run.uid /\ runSeen' = run'
      BY <2>1, PatchFact DEF Undisturbed, InHand
  <2>3. succeeded' = succeeded /\ run.uid # 0
      BY <1>2 DEF Advances, Live, Reconciling, InHand
  <2>4. CASE UNCHANGED child
      BY <2>2, <2>3, <2>4 DEF InHand, Exists, Once
  <2>5. ASSUME NEW i \in StageIds, Creates(i) PROVE InHand'
    <3>1. /\ child[i].state = "absent" /\ child'[i].state = "" /\ child'[i].owner = run.uid
          /\ \A j \in StageIds : j # i => child'[j] = child[j]
        BY <2>5 DEF Creates, TypeOK, InHand
    <3>. QED BY <2>2, <2>3, <3>1 DEF InHand, Exists, Once
  <2>. QED BY <1>2, <2>4, <2>5 DEF Advances
<1>. QED BY <1>1, <1>2

\* InHand is an invariant where the run and its stage runs are left alone.
THEOREM InHandKept == ASSUME Undisturbed PROVE Spec => []InHand
<1>1. Init => InHand
    BY NoChildFact DEF Init, InHand, Exists, Once
<1>2. TypeOK /\ InHand /\ [Next]_vars => InHand'
  <2>1. CASE Next
      BY <2>1, NextFact, InHandStep
  <2>2. CASE UNCHANGED vars
      BY <2>2 DEF InHand, Exists, Once, vars
  <2>. QED BY <2>1, <2>2
<1>. QED BY <1>1, <1>2, TypeCorrect, PTL DEF Spec

\* No two stage runs of a workflow run are at work at the same time.
THEOREM StagesRunAlone == ASSUME Undisturbed PROVE Spec => []OneStageAtATime
<1>1. TypeOK /\ StagesInOrder /\ InHand => OneStageAtATime
  <2>. SUFFICES ASSUME TypeOK, StagesInOrder, InHand, NEW i \in StageIds, NEW j \in StageIds,
                       Active(i), Active(j), i < j
                PROVE  FALSE
      BY ConstantsAssumption DEF OneStageAtATime, StageIds
  <2>1. i \in 1..(j - 1)
      BY ConstantsAssumption DEF StageIds
  <2>2. SucceededBy(child[j].owner, i) /\ child[j].owner \in 0..MaxUid
      BY <2>1 DEF StagesInOrder, Active, TypeOK, Children
  <2>3. Once(i)
      BY <2>2, ConstantsAssumption DEF SucceededBy, Once
  <2>. QED BY <2>3 DEF InHand, Active, Exists, IsTerminalPhase
<1>. QED BY <1>1, TypeCorrect, StagesRunInOrder, InHandKept, PTL

=============================================================================
