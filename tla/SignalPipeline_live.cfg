\* Daily runs and their re-launches, with late and revised candles: what holds
\* between runs, and what the daily run eventually achieves.
SPECIFICATION FairSpec
CONSTANTS
    LastDay = 3
    DaysPerWeek = 2
    Lookback = 1
    RsiPeriod = 1
    MaxRetries = 1
    Close = {c1, c2}
    NoRow = NoRow
    Env = {"late", "revise"}
INVARIANT
    SilverMatchesBronze
PROPERTIES
    LateCandleReachesSilver
    OnTimeCandleGetsSignal
CHECK_DEADLOCK FALSE
