CONSTANTS
    d1 = d1
    d2 = d2
    Backend = "mysql"
    Rows = 2
    Aggregates = {"a"}
    Cap = 0
    Dispatchers <- TwoDispatchers
    Cleaner = cleaner
    Nobody = nobody
    Limit = 2
    MaxAttempts = 1
    ArchiveRequired = FALSE
    Faults = 1
    Revivals = 0
SPECIFICATION LiveSpec
PROPERTIES
    Delivered
