\* Late features, abandoned runs, back-fills and promotions.
SPECIFICATION Spec
CONSTANTS
    LastDay = 5
    DaysPerWeek = 2
    Lookback = 1
    DailyRsi = {1, 3}
    WeeklyRsi = {1, 2, 3}
    MaxPromotions = 1
    Params <- MCParams
    PipelinePeriod = 14
    Null = Null
    NoRow = NoRow
    Env = {"late", "abandon", "backfill", "promote"}
INVARIANTS
    TypeOK
    StandsOnItsTrend
    BackfillAgrees
CHECK_DEADLOCK FALSE
