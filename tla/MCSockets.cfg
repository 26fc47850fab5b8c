\* Two connections of a user compete for a channel of one place.
CONSTANTS
  u1 = u1
  k1 = k1  k2 = k2  p1 = p1
  Users = {u1}
  Conns = {k1, k2, p1}
  ServerOf <- TwoAndOne
  UsersCap = 1
  None = None
SPECIFICATION FairSpec
\* The process exits and panics: the system stops.
CHECK_DEADLOCK FALSE
CONSTRAINT Running
INVARIANTS
  OnePlace
  ClosedByItsClient
  MapAgrees
  SocketsPanicForCause
PROPERTIES
  GetsToClient
