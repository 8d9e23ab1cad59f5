SPECIFICATION Spec
CONSTANTS
  k1 = k1
  k2 = k2
  l1 = l1
  l2 = l2
  Sweeper = Sweeper
  Keys = {k1, k2}
  Loops = {l1, l2}
  Owner <- OwnTwo
  Immediate = {}
  Vanishing = {k1}
  TriggerNs = {2}
  ResolveMs = {1, 2}
  CountCap = 2
  Faults = {"touch", "create", "resolve", "read", "store", "crash"}
  MaxChanges = 2
INVARIANTS
  OneOpenPerKey
  AnnouncedTwiceAtMost
PROPERTIES
  DebouncedUnlessSwept
