\* Gaps, late bars, ingests before and after the launch's read, one split,
\* back-fills and ranges by hand.
SPECIFICATION FairSpec
CONSTANTS
    LastDay = 3
    DaysPerWeek = 2
    Lookback = 1
    SourceLookback = 1
    MaxSplits = 1
    NoRow = NoRow
    Env = {"gap", "backfill", "conform"}
INVARIANTS
    TypeOK
    RecentOnOneBasis
    RebaseRestores
PROPERTY
    BestBarReachesSilver
CHECK_DEADLOCK FALSE
