SPECIFICATION SessionsSpec
CONSTANTS
  Callers = {c1}
  MaxSessions <- SessionBounds
  MaxConnected = 4
  Carts <- CartsFitted
  Subsystems = {"cryostat", "ifSwitch"}
INVARIANTS
  LiveHaveBus
  SessionIsServed
  EverythingIsReleased
  CallsFindObjects
CHECK_DEADLOCK FALSE
