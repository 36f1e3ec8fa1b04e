----------------------------- MODULE Readiness -----------------------------
(***************************************************************************)
(* The Agent and AgentWorkflow reconcilers (agent_controller.go,            *)
(* agentworkflow_controller.go) above the Gateway reconciler: an Agent is   *)
(* Ready when everything it refers to is, an AgentWorkflow when its stages' *)
(* Agents are.  All three run in one manager and read the same caches.  The *)
(* SkillCard an Agent refers to is only a readiness that changes.           *)
(***************************************************************************)
EXTENDS Gateway

VARIABLES
    agent,          \* the Agent at the API server
    agentSeen,      \* the Agent in the cache
    agentQueued,    \* its key is in the Agent reconciler's work queue
    skill,          \* readiness of the SkillCard at the API server
    skillSeen,      \* the SkillCard in the cache
    workflow,       \* Ready status of the AgentWorkflow at the API server
    workflowSeen,   \* the AgentWorkflow in the cache
    workflowQueued  \* its key is in the AgentWorkflow reconciler's work queue

readinessVars == <<agent, agentSeen, agentQueued, skill, skillSeen,
                   workflow, workflowSeen, workflowQueued>>
vars == <<gatewayVars, readinessVars>>

Statuses == {"None", "True", "False"}
Refs == {"Gateway", "SkillCard"}
Agents == [exists : BOOLEAN, refs : SUBSET Refs, ready : Statuses, gatewayConfigured : Statuses]
NoAgent == [exists |-> FALSE, refs |-> {}, ready |-> "None", gatewayConfigured |-> "None"]

Init ==
    /\ GatewayInit
    /\ agent = [exists |-> TRUE, refs |-> Refs, ready |-> "None", gatewayConfigured |-> "None"]
    /\ agentSeen = agent /\ agentQueued = TRUE
    /\ skill = "True" /\ skillSeen = "True"
    /\ workflow = "None" /\ workflowSeen = "None" /\ workflowQueued = TRUE

-----------------------------------------------------------------------------
\* checkRef: in the cache, with a Ready condition that is True.  Whether the
\* condition speaks for the current generation is not asked.
CheckRef(ref) ==
    CASE ref = "Gateway" -> gatewaySeen.generation # 0 /\ gatewaySeen.ready.status = "True"
      [] ref = "SkillCard" -> skillSeen = "True"

reconciled == <<gateway, gatewaySeen, gatewayQueued, secret, secretSeen, creds, jobs, jobsSeen,
                edits, probes>>

Status(ready) == IF ready THEN "True" ELSE "False"

\* AgentReconciler.Reconcile: always patches; the conditions are one list, which
\* travels whole, or not at all when it equals the cached copy's.
ReconcileAgent(ok) ==
    /\ agentQueued
    /\ LET ready == Status(\A ref \in agentSeen.refs : CheckRef(ref))
           configured == Status("Gateway" \in agentSeen.refs /\ CheckRef("Gateway"))
           patches == agentSeen.exists /\ agent.exists
           changes == ready # agentSeen.ready \/ configured # agentSeen.gatewayConfigured
       IN /\ agent' = IF ok /\ patches /\ changes
                      THEN [agent EXCEPT !.ready = ready, !.gatewayConfigured = configured]
                      ELSE agent
          /\ agentQueued' = (agentSeen.exists /\ ~(ok /\ patches))
    /\ UNCHANGED <<reconciled, agentSeen, skill, skillSeen, workflow, workflowSeen, workflowQueued>>

\* AgentWorkflowReconciler.Reconcile, for a workflow with this Agent's stage.
ReconcileWorkflow(ok) ==
    /\ workflowQueued
    /\ LET ready == Status(agentSeen.exists /\ agentSeen.ready = "True") IN
       workflow' = IF ok THEN Merged(workflowSeen, ready, workflow) ELSE workflow
    /\ workflowQueued' = ~ok
    /\ UNCHANGED <<reconciled, agent, agentSeen, agentQueued, skill, skillSeen, workflowSeen>>

\* Mutant: without the watches on what an Agent refers to.
EnqueuedByNothing(ref) == FALSE

\* findAgentsForResource, through the index over the cached Agents.
FindAgentsForResource(ref) == agentSeen.exists /\ ref \in agentSeen.refs

\* What a step of the Gateway's side means to the others: an event for the
\* Gateway also goes to the Agents that refer to it.
Relay ==
    /\ agentQueued' = (agentQueued \/ (gatewaySeen' # gatewaySeen /\ FindAgentsForResource("Gateway")))
    /\ UNCHANGED <<agent, agentSeen, skill, skillSeen, workflow, workflowSeen, workflowQueued>>

SyncSkill ==
    /\ skillSeen # skill
    /\ skillSeen' = skill
    /\ agentQueued' = (agentQueued \/ FindAgentsForResource("SkillCard"))
    /\ UNCHANGED <<gatewayVars, agent, agentSeen, skill, workflow, workflowSeen, workflowQueued>>

\* An Agent event goes to its own reconciler and, by findWorkflowsForAgent, to
\* the AgentWorkflows with a stage for it.
SyncAgent ==
    /\ agentSeen # agent
    /\ agentSeen' = agent
    /\ agentQueued' = TRUE
    /\ workflowQueued' = TRUE
    /\ UNCHANGED <<gatewayVars, agent, skill, skillSeen, workflow, workflowSeen>>

SyncWorkflow ==
    /\ workflowSeen # workflow
    /\ workflowSeen' = workflow
    /\ workflowQueued' = TRUE
    /\ UNCHANGED <<gatewayVars, agent, agentSeen, agentQueued, skill, skillSeen, workflow>>

Restart ==
    /\ RestartGateway
    /\ agentSeen' = agent /\ skillSeen' = skill /\ workflowSeen' = workflow
    /\ agentQueued' = TRUE /\ workflowQueued' = TRUE
    /\ UNCHANGED <<agent, skill, workflow>>

-----------------------------------------------------------------------------
(* What users change.                                                        *)

EditAgent ==
    /\ edits < MaxEdits /\ agent.exists
    /\ \E refs \in SUBSET Refs : agent' = [agent EXCEPT !.refs = refs]
    /\ edits' = edits + 1
    /\ UNCHANGED <<gateway, gatewaySeen, gatewayQueued, secret, secretSeen, creds, jobs, jobsSeen,
                   failures, probes, agentSeen, agentQueued, skill, skillSeen, workflow, workflowSeen,
                   workflowQueued>>

DeleteAgent ==
    /\ edits < MaxEdits /\ agent.exists
    /\ agent' = NoAgent
    /\ edits' = edits + 1
    /\ UNCHANGED <<gateway, gatewaySeen, gatewayQueued, secret, secretSeen, creds, jobs, jobsSeen,
                   failures, probes, agentSeen, agentQueued, skill, skillSeen, workflow, workflowSeen,
                   workflowQueued>>

EditSkill ==
    /\ edits < MaxEdits
    /\ skill' \in {"absent", "False", "True"} \ {skill}
    /\ edits' = edits + 1
    /\ UNCHANGED <<gateway, gatewaySeen, gatewayQueued, secret, secretSeen, creds, jobs, jobsSeen,
                   failures, probes, agent, agentSeen, agentQueued, skillSeen, workflow, workflowSeen,
                   workflowQueued>>

-----------------------------------------------------------------------------
GatewaySide ==
    /\ GatewayReconciler \/ SyncGateway \/ SyncSecret \/ SyncJob \/ ProbePod \/ GatewayUser
    /\ Relay

ReconcileFails == Failing /\ (ReconcileAgent(FALSE) \/ ReconcileWorkflow(FALSE))

AgentProgress == ReconcileAgent(TRUE) /\ UNCHANGED failures
WorkflowProgress == ReconcileWorkflow(TRUE) /\ UNCHANGED failures

Next ==
    \/ GatewaySide
    \/ AgentProgress \/ WorkflowProgress \/ ReconcileFails
    \/ SyncSkill \/ SyncAgent \/ SyncWorkflow \/ Restart
    \/ EditAgent \/ DeleteAgent \/ EditSkill

Spec == Init /\ [][Next]_vars

\* Each work queue drains and each informer delivers; a failed reconcile is
\* tried until one succeeds; a verification Job ends, at its deadline at the
\* latest.
Fairness ==
    /\ WF_vars(GatewayProgress /\ Relay) /\ WF_vars(AgentProgress) /\ WF_vars(WorkflowProgress)
    /\ WF_vars(SyncGateway /\ Relay) /\ WF_vars(SyncSecret /\ Relay) /\ WF_vars(SyncJob /\ Relay)
    /\ WF_vars(SyncSkill) /\ WF_vars(SyncAgent) /\ WF_vars(SyncWorkflow)
    /\ \A n \in JobNames : WF_vars(ProbeDeadline(n) /\ Relay)

FairSpec == Spec /\ Fairness

-----------------------------------------------------------------------------
(* Properties.                                                               *)

\* Every variable stays in its range.
TypeOK ==
    /\ GatewayTypeOK
    /\ agent \in Agents /\ agentSeen \in Agents
    /\ skill \in {"absent", "True", "False"} /\ skillSeen \in {"absent", "True", "False"}
    /\ workflow \in Statuses /\ workflowSeen \in Statuses
    /\ agentQueued \in BOOLEAN /\ workflowQueued \in BOOLEAN

\* Once users stop editing, a Gateway's status comes to speak for the spec and
\* the credential as they are, and stays: neither a rotation during a probe, a
\* Job deleted before a patch that failed, nor a stale cache leaves the verdict
\* of another generation or credential standing, or the Gateway on Verifying.
VerdictConverges == <>[](gateway.generation # 0 => UpToDate)

\* The readiness above a Gateway ends up agreeing with what it is derived from:
\* no event is missed between the index and the caches, and no update is lost to
\* a patch that was empty against a stale copy.
ReadinessConverges ==
    <>[](/\ agent.exists =>
              /\ agent.ready = Status(/\ "Gateway" \in agent.refs => gateway.ready.status = "True"
                                      /\ "SkillCard" \in agent.refs => skill = "True")
              /\ agent.gatewayConfigured =
                   Status("Gateway" \in agent.refs /\ gateway.ready.status = "True")
         /\ workflow = Status(agent.exists /\ agent.ready = "True"))

=============================================================================
