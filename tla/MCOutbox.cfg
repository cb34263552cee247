CONSTANTS
    d1 = d1
    d2 = d2
    Backend = "pgsql"
    Rows = 2
    Aggregates = {"a"}
    Cap = 2
    Dispatchers <- TwoDispatchers
    Cleaner = cleaner
    Nobody = nobody
    Limit = 2
    MaxAttempts = 2
    ArchiveRequired = TRUE
    Faults = 1
    Revivals = 1
SPECIFICATION Spec
SYMMETRY Symmetry
INVARIANTS
    NothingLost
    PublishedInOrder
    LedgerExact
    OneStaleSend
    EffectOnce
PROPERTIES
    DeletesAreDue
