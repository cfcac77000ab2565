SPECIFICATION FairSpec
CONSTANTS
    ControlMin = 0
    ControlMax = 5
    ControlStep = 1
    MaxIter = 8
    TimeOut = 2
    Powers = {0, 1, 2}
    Metered <- MeterFunctions
INVARIANTS
    SuccessIsPeak
    NoRunaway
PROPERTY
    SearchReturns
