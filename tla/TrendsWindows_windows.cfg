\* Refreshes for as long as weeks pass, one back-fill or range by hand beside them,
\* one request that fails or is answered without some or all of its weeks.
SPECIFICATION FairSpec
CONSTANTS
    LastWeek = 7
    WindowWeeks = 3
    OverlapWeeks = 1
    MinWeekly = 1
    MaxWeekly = 5
    MaxByHand = 1
    MaxFaults = 1
    Gaps <- MCGaps
    NoRow = NoRow
    Env = {"backfill", "range"}
INVARIANTS
    TypeOK
    WholeHistory
PROPERTIES
    RefreshUnifies
    NewestWeekLandsInYoungWindow
CHECK_DEADLOCK FALSE
