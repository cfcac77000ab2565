SPECIFICATION Spec
CONSTANTS
  Senders = {s1, s2}
  Clients = {c1, c2}
  Nobody = Nobody
  MaxEvents = 4
  MaxSubscribers = 2
INVARIANTS
  NothingLost
PROPERTIES
  IsAChannel
