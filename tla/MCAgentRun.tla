----------------------------- MODULE MCAgentRun -----------------------------
(* The AgentRun reconciler on small instances; the cfgs choose the bounds.   *)
EXTENDS AgentRun
=============================================================================
