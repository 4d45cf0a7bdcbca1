SPECIFICATION Spec
CONSTANTS
    k1 = k1
    k2 = k2
    d1 = d1
    Request = {r1, r2}
    Answer = {r1, r2}
    Key = {k1}
    CacheKey = {k1}
    NoKey = NoKey
    NoEntry = NoEntry
    Kkm = {d1}
    None = None
    Refused = Refused
    Message <- MCReceipt
    CleanUpThreshold = 3
    MaxTime = 0
    ShortLife = 0
    LongLife = 1
SYMMETRY Symmetry
INVARIANT OncePerKey
CHECK_DEADLOCK FALSE
