\* A stream and the App's loop create up to two clients of one or two users.
CONSTANTS
  u1 = u1
  u2 = u2
  g1 = g1
  c1 = c1
  c2 = c2
  App = App
  None = None
  Users <- TwoUsers
  Streams <- OneStream
  ClientIds <- TwoClients
  ShutdownCap = 1
SPECIFICATION FairSpec
\* The clients that can be created run out, and the process can panic.
CHECK_DEADLOCK FALSE
INVARIANTS
  RegisteredIsTracked
  OneLiveClient
  LiveIsRegistered
PROPERTIES
  ClosedLeaves
  CreatorsGoOn
