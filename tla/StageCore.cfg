CONSTANTS
    SinkSize = 1
    NativeMaxTurns = 1
    CostLimit = 1
    MaxCost = 2
    MaxFrames = 1
    HITLAsk = FALSE
    Configs <- ConfigsSmall
    MaxCommits = 2
    AgentOps = {"checkout", "rewrite"}
    ViewerChat = TRUE
    Faults = {"crash", "signal", "network", "revoke"}
SPECIFICATION Spec
INVARIANTS TypeOK ExitTellsTruth WorkPushed OnePushAtATime TokenRevoked
CHECK_DEADLOCK FALSE
