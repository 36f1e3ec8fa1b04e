CONSTANTS
    NumStages = 2
    MaxVersion = 1
    BadVersions = {}
    MaxUid = 2
    ReadsOwnWrites = FALSE
    HasTTL = FALSE
    Faults = {"user", "deleteChild", "childTTL", "apiError"}
SPECIFICATION Spec
INVARIANTS StagesInOrder SuccessMeansAllStages
PROPERTIES AdoptsOnlyOwn
CHECK_DEADLOCK FALSE
