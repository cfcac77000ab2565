SPECIFICATION FairSpec
CONSTANTS
    Owner = owner
    Measurement = {m1}
    MaxErrorCount = 1
    Thread = {t1, t2}
    MaxPauses = 1
CHECK_DEADLOCK FALSE
INVARIANTS
    ErrorStopIsPaused
PROPERTIES
    StopReturns
    StoppedThreadsExit
