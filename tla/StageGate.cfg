CONSTANTS
    SinkSize = 1
    NativeMaxTurns = 1
    CostLimit = 1
    MaxCost = 2
    MaxFrames = 2
    HITLAsk = TRUE
    Configs <- ConfigsLast
    MaxCommits = 1
    AgentOps = {}
    ViewerChat = FALSE
    Faults = {}
SPECIFICATION Spec
INVARIANTS GateFailsRun
CHECK_DEADLOCK FALSE
