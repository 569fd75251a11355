\* Every disturbance at once, but price revisions.
SPECIFICATION Spec
CONSTANTS
    LastDay = 3
    DaysPerWeek = 2
    Lookback = 1
    RsiPeriod = 1
    MaxRetries = 1
    Close = {c1}
    NoRow = NoRow
    Env = {"late", "outage", "ingest", "backfill", "stages", "cleanup", "abandon"}
INVARIANTS
    TypeOK
    OneRecursion
CHECK_DEADLOCK FALSE
