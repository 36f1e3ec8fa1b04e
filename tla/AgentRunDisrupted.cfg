CONSTANTS
    MaxUid = 2
    ReadsOwnWrites = TRUE
    MaxTime = 1
    Deadline = 0
    HasTTL = TRUE
    TTL = 0
    ExitCodes = {0}
    Blobs = {"none"}
    Faults = {"user", "deleteSandbox", "deletePod", "restart"}
SPECIFICATION Spec
INVARIANTS PhaseMatchesOutcome
PROPERTIES TerminalStable
CHECK_DEADLOCK FALSE
