------------------------- MODULE MCAgentWorkflowRun -------------------------
(* The AgentWorkflowRun reconciler on small instances; the cfgs choose the   *)
(* bounds.                                                                   *)
EXTENDS AgentWorkflowRun
=============================================================================
