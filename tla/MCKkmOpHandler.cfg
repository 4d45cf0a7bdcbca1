SPECIFICATION Spec
CONSTANTS
    k1 = k1
    k2 = k2
    d1 = d1
    Request = {r1, r2, r3}
    Answer = {r1, r2, r3}
    Key = {k1, k2}
    CacheKey = {k1, k2}
    NoKey = NoKey
    NoEntry = NoEntry
    Kkm = {d1}
    None = None
    Refused = Refused
    Message <- MCMessage
    CleanUpThreshold = 2
    MaxTime = 2
    ShortLife = 0
    LongLife = 1
SYMMETRY Symmetry
INVARIANTS
    TypeOK
    ReceiptOnce
    SameAnswer
    SessionHeldAtWork
CHECK_DEADLOCK FALSE
