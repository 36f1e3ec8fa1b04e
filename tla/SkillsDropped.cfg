CONSTANTS
    MaxGen = 4
    Cards = {"a", "b"}
    Holds <- HoldsSmall
    Listed <- ListedSmall
    SelfContained = {}
    CardSpecs = {"inline", "badInline"}
    Registry = {"Unknown"}
    SeesOwnJobs = TRUE
    MaxEdits = 1
    MaxFailures = 0
    Faults = {}
SPECIFICATION FairSpec
PROPERTIES CardsDropped
CHECK_DEADLOCK FALSE
