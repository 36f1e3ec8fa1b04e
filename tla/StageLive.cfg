CONSTANTS
    SinkSize = 1
    NativeMaxTurns = 2
    CostLimit = 1
    MaxCost = 2
    MaxFrames = 3
    HITLAsk = TRUE
    Configs <- ConfigsLast
    MaxCommits = 1
    AgentOps = {}
    ViewerChat = FALSE
    Faults = {"setup", "crash", "signal"}
SPECIFICATION FairSpec
INVARIANTS TurnsCounted
PROPERTIES StageExits
CHECK_DEADLOCK FALSE
