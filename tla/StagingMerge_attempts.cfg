\* Dead drivers, their orphaned jobs over several days, and rows deleted by hand.
SPECIFICATION FairSpec
CONSTANTS
    LastDay = 3
    MaxRetries = 1
    None = None
    Env = {"kill", "orphan", "linger", "cleanup"}
INVARIANTS
    TypeOK
    NoHole
    CompleteAtSignals
PROPERTIES
    AtomicUpsert
    Healed
CHECK_DEADLOCK FALSE
