SPECIFICATION Spec
CONSTANTS
    Conn <- MCConn
    Nobody = Nobody
    ConcurrencyLimits = {1, 2}
    DelayedSockets = 1
INVARIANTS
    TypeOK
    WorkerOwnsRequest
    SlotsAccounted
PROPERTIES
    NothingAfterTimeout
    KeepsContract
    EveryoneLeaves
CHECK_DEADLOCK FALSE
