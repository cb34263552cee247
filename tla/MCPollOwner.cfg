CONSTANTS
    p1 = p1
    p2 = p2
    Partitions <- OnePartition
    Records <- OnlyTwo
    CommitBatch = 2
    MaxAttempts = 2
    Envelopes = 1
    Requirements = {TRUE, FALSE}
    Outcomes = {"safe", "retry"}
    Kinds = {"commit", "send", "poll", "Revoked", "lost", "Error", "Stop"}
    Cooperative = FALSE
    Disturbances = 2
SPECIFICATION LiveSpec
INVARIANTS
    AtLeastOnce
    PauseOwned
PROPERTIES
    EveryRecordSettles
    StopEnds
