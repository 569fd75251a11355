\* One context feed of each kind.
SPECIFICATION Spec
CONSTANTS
    LastDay = 3
    MaxValues = 3
    Lookback = 1
    ChunkSize = 1
    a = a
    b = b
    Symbol <- MCSymbol
    Feeds <- MCFeeds
INVARIANTS
    TypeOK
    AsOfUnambiguous
    UpToDate
PROPERTY
    NeverGoesBack
