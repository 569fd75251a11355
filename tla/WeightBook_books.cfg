\* Rows of two weeks, late legs, partial and cut runs, one promotion or revision.
SPECIFICATION Spec
CONSTANTS
    etf1 = etf1
    etf2 = etf2
    coin = coin
    Symbol <- MCSymbol
    Crypto <- MCCrypto
    Return <- MCReturn
    InvVol <- MCInvVol
    Params <- MCParams
    LastWeek = 2
    VolWarmUp = 2
    NoCap = NoCap
    NoRow = NoRow
    MaxUpsets = 1
    Env = {"promote", "revise"}
INVARIANTS
    TypeOK
    BooksSound
PROPERTIES
    StoredIsCurrent
    HistoryIsStable
CONSTRAINT OneFreeSymbol
CHECK_DEADLOCK FALSE
