\* One client, its streams, its connections and a subscriber.
CONSTANTS
  owner = owner
  guest = guest
  k1 = k1
  k2 = k2
  k3 = k3
  s1 = s1
  None = None
  Callers <- TwoCallers
  Owner = owner
  Conns <- ThreeConns
  SlotOf <- MCSlotOf
  Subs <- OneSub
  Needs <- MCNeeds
SYMMETRY ConnSymmetry
SPECIFICATION Spec
\* Clients close, goroutines return and processes panic: the system stops.
CHECK_DEADLOCK FALSE
INVARIANTS
  ClosedForCause
  NilActionNeedsReplacement
  LoopClosesAllConns
  CallHeldOnce
