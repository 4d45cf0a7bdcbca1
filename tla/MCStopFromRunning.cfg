SPECIFICATION Spec
CONSTANTS
    Request = {r1}
    r1 = r1
    r2 = r2
    r3 = r3
    StartPolls = 2
    WaitPolls = 2
    PausePolls = 1
INVARIANT StopFromRunning
CHECK_DEADLOCK FALSE
