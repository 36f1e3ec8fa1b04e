CONSTANTS
    MaxUid = 1
    ReadsOwnWrites = TRUE
    MaxTime = 2
    Deadline = 1
    HasTTL = TRUE
    TTL = 1
    ExitCodes = {0, 2}
    Blobs = {"none", "passed"}
    Faults = {"agent", "apiError"}
SPECIFICATION Spec
INVARIANTS ResultSound NoSpuriousNotFound
PROPERTIES DeletesOnlyExpired RefinesLifecycle
CHECK_DEADLOCK FALSE
