SPECIFICATION MCSpec
CONSTANTS
    s1 = s1
    s2 = s2
    p1 = p1
    p2 = p2
    Worker <- MCWorker
    Serial = {s1, s2}
    Param = {p1, p2}
    Absent = Absent
    Torn = Torn
    Nobody = Nobody
    MaxMoves = 1
INVARIANTS
    TypeOK
    RegistryMatchesFile
    OnNamedDevice
PROPERTY
    EveryRequestEnds
CHECK_DEADLOCK FALSE
