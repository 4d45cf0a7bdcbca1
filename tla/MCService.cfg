CONSTANTS
    Followed <- MCFollowed
    Controller = {c1, c2}
    c1 = c1
    c2 = c2
    Modulus = 8
    WaitHint = 3
    ControlTimeout = 4
    WorkTime = 2
    FirstHint = 1
    MaxDelay = 2
    MaxCheckPoint = 1
SPECIFICATION MCSpec
CHECK_DEADLOCK FALSE
INVARIANTS
    TypeOK
    FailureIsFinal
    SettingsAsWritten
PROPERTY
    CommandsEnd
