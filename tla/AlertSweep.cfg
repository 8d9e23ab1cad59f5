SPECIFICATION FairSpec
CONSTANTS
  k1 = k1
  k2 = k2
  l1 = l1
  l2 = l2
  Sweeper = Sweeper
  Keys = {k1, k2}
  Loops = {l1, l2}
  Owner <- OwnTwo
  Immediate = {}
  Vanishing = {k1}
  TriggerNs = {2}
  ResolveMs = {2}
  CountCap = 2
  Faults = {"read", "store"}
  MaxChanges = 2
INVARIANTS
  OneOpenPerKey
  Hysteresis
  CreatedBeforeResolved
  EveryTransitionAnnounced
  AnnouncedTwiceAtMost
PROPERTIES
  DebouncedUnlessSwept
  ImplementsLifecycle
  FailureEndsOpen
  EndOfFailureEndsClosed
