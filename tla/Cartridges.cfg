\* One port that has STANDBY2 and one that has not, and firmware that allows
\* one of them ON, so that a command is refused, entered and left.
SPECIFICATION Spec
CONSTANTS
  Port = {2, 6}
  PowerLimit = 1
INVARIANTS
  ObservingIsEnabled
  CountIsRight
  RestartFindsPower
  PowerIsKnown
PROPERTIES
  ObservedIsSwitched
