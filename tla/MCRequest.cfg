SPECIFICATION Spec
CONSTANTS
    Target <- MCTarget
    Wires <- MCWires
    Later <- MCLater
    BodyLimit = 2
    CacheKey <- MCFile
    Answer <- MCAnswer
    NoEntry = NoEntry
    CleanUpThreshold = 2
    MaxTime = 2
    File <- MCFile
    Directory = {"pages"}
    KnownType = {"page"}
    Version = {0, 1, 2}
    Unread = 9
    Size <- MCSize
    AtFirst <- MCAtFirst
    FileLimit = 2
    FileLife = 1
    Configs <- MCConfigs
    MaxBackdated = 1
INVARIANTS
    TypeOK
    PiecesDoNotMatter
    HandlerSeesWholeRequest
    StaleOnlyFromWindow
    LateReplaysBounded
PROPERTY
    WholeRequestAnswered
CHECK_DEADLOCK FALSE
