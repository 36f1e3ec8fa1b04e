CONSTANTS
    Viewers = {v1, v2}
    Asks = {a1}
    Elicitations = {a1}
    QueueCap = 2
    NoViewer = NoViewer
SPECIFICATION FairSpec
INVARIANTS PendingIsAnswerable FailsClosed GateLatched
PROPERTIES FirstAnswerWins AsksReturn StopCompletes
CHECK_DEADLOCK FALSE
