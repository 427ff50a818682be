SPECIFICATION FairSpec
CONSTANTS
    Clients <- MCClients
    Requests <- MCRequests
    Workers = {w1, w2}
    QueueCapacity = 1
    NONE = NONE
INVARIANTS ResultOfOneModel FramesAccounted
PROPERTIES ResultsInOrder ClientAnswered
CHECK_DEADLOCK FALSE
