\* Daily runs, ingests by hand at any time, back-fills of any range, single stages.
SPECIFICATION Spec
CONSTANTS
    LastDay = 5
    DaysPerWeek = 2
    Lookback = 1
    RsiPeriod = 1
    MaxRetries = 1
    Close = {c1}
    NoRow = NoRow
    Env = {"late", "ingest", "backfill", "stages"}
INVARIANTS
    RsiFoldsSilver
    NoLookAhead
    SignalMatchesFeature
    WeeklyMatchesDaily
PROPERTY
    NoRepaint
CHECK_DEADLOCK FALSE
