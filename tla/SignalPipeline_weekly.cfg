\* The weekly RSI against a full bootstrap, with no disturbance at all.
SPECIFICATION Spec
CONSTANTS
    LastDay = 4
    DaysPerWeek = 2
    Lookback = 1
    RsiPeriod = 1
    MaxRetries = 1
    Close = {c1, c2}
    NoRow = NoRow
    Env = {}
INVARIANT
    WeeklyRsiMatchesBootstrap
CHECK_DEADLOCK FALSE
