CONSTANTS
    MaxGen = 3
    MaxCred = 3
    SkippedGens = {3}
    KeylessGens = {2}
    BadCreds = {3}
    FailureReasons = {"ConnectionFailed"}
    ReadsOwnWrites = TRUE
    Working <- WorkingPairs
    MaxEdits = 1
    MaxFailures = 1
    Faults = {"restart"}
SPECIFICATION FairSpec
INVARIANTS VerifiedWasProbed
PROPERTIES VerdictConverges ReadinessConverges
CHECK_DEADLOCK FALSE
