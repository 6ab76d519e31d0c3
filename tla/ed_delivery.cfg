SPECIFICATION Spec
CONSTANTS
    Events = {e1, e2}
    Workers = {w1, w2, w3}
    Readers = {r1}
    BatchLimit = 2
    FeedLimit = 1
    Replayable = {"pending", "sending", "accepted", "dead_letter"}
    Pruning = TRUE
    MaxTries = 2
    MaxFaults = 2
    MaxControls = 1
SYMMETRY Symmetry
CONSTRAINT FeedOrDelivery
CHECK_DEADLOCK FALSE
INVARIANTS PublishedInOrder FeedComplete AcceptedWasReceived
PROPERTIES OwnAttempt
