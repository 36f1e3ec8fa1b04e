CONSTANTS
    MaxUid = 1
    ReadsOwnWrites = TRUE
    MaxTime = 2
    Deadline = 1
    HasTTL = TRUE
    TTL = 1
    ExitCodes = {0}
    Blobs = {"none"}
    Faults = {"restart", "dropOwner", "apiError"}
SPECIFICATION FairSpec
PROPERTIES FinishedIsRecorded DeadlineEnforced ExpiredIsDeleted OrphansCollected
CHECK_DEADLOCK FALSE
