\* Liveness of calls, of Close and of subscriptions, with two connections
\* for one slot.
CONSTANTS
  owner = owner
  guest = guest
  k1 = k1
  k2 = k2
  k3 = k3
  s1 = s1
  None = None
  Callers <- OneCaller
  Owner = owner
  Conns <- TwoConns
  SlotOf <- MCSlotOf
  Subs <- OneSub
  Needs <- MCNeeds
SPECIFICATION FairSpec
\* Clients close, goroutines return and processes panic: the system stops.
CHECK_DEADLOCK FALSE
PROPERTIES
  CallsReturn
  ContextCloses
  EndNotifies
  ImplementsEndedLife
