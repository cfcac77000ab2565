SPECIFICATION FairSpec
CONSTANTS
    Client = {c1, c2}
    Channel = {0}
    NoTransmit = FALSE
    MaxCalls = 2
    MaxOpens = 2
CHECK_DEADLOCK FALSE
INVARIANTS
    AnsweredOnce
    MonitorIsReply
    HandleIsOpen
PROPERTIES
    QueuedIsAnswered
    ShutdownReturns
    ServiceSpec
