CONSTANTS
    NumStages = 2
    MaxVersion = 2
    BadVersions = {2}
    MaxUid = 1
    ReadsOwnWrites = TRUE
    HasTTL = TRUE
    Faults = {"workflow", "agent", "restart", "dropOwner", "apiError"}
SPECIFICATION FairSpec
INVARIANTS TypeOK OneStageAtATime
PROPERTIES StageNotRepeated SnapshotStable RefinesLifecycle EventuallyEnds ChildrenCollected
CHECK_DEADLOCK FALSE
