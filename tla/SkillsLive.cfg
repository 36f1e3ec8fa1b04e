CONSTANTS
    MaxGen = 4
    Cards = {"a", "b"}
    Holds <- HoldsSmall
    Listed <- ListedSmall
    SelfContained = {}
    CardSpecs = {"inline", "badInline"}
    Registry = {"Unknown"}
    SeesOwnJobs = TRUE
    MaxEdits = 1
    MaxFailures = 1
    Faults = {"forbidden", "jobFails", "restart", "deleteCollection"}
SPECIFICATION FairSpec
INVARIANTS TypeOK OneMaterializer
PROPERTIES ImageEnumerated ReadinessFollows
CHECK_DEADLOCK FALSE
