\* Every number of weeks and every configuration; week 7 is sealed.
SPECIFICATION Spec
CONSTANTS
    a = a
    b = b
    Symbol <- MCSymbol
    Book <- MCBook
    Configs <- MCConfigs
    MaxWeeks = 7
    HoldoutStart = 7
    VolFrom = 2
    PassiveFrom = 4
    RebalanceWeeks = 1
INVARIANTS
    TypeOK
    NoLeak
    PooledOnce
    NothingLost
    ChargedForItsTrades
CHECK_DEADLOCK FALSE
