SPECIFICATION FairSpec
CONSTANTS
    Thread = {w1, w2, w3}
    Slow = TRUE
INVARIANTS
    MonitoringResumed
PROPERTIES
    StopIsObeyed
    DeleteReturns
CHECK_DEADLOCK FALSE
