SPECIFICATION Spec
CONSTANTS
    Kinds = {"IV", "VErr", "SISCurr", "IFPower", "FineLO", "LOPA", "Deflux", "Heat", "Health"}
    Overlaps = {{"IV", "SISCurr"}, {"VErr", "FineLO"}, {"Health", "LOPA"}}
    MaxHeat = 1
INVARIANTS
    BiasRestored
    MonitorsResumed
PROPERTY
    HeatersGoOff
