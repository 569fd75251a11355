\* A split, with nothing else going wrong, against what is said of silver's level.
SPECIFICATION Spec
CONSTANTS
    LastDay = 4
    DaysPerWeek = 2
    Lookback = 1
    SourceLookback = 2
    MaxSplits = 1
    NoRow = NoRow
    Env = {}
INVARIANT
    CleanSplitAdjustedLevel
CHECK_DEADLOCK FALSE
