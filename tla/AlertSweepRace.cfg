SPECIFICATION Spec
CONSTANTS
  k1 = k1
  k2 = k2
  l1 = l1
  l2 = l2
  Sweeper = Sweeper
  Keys = {k1}
  Loops = {l1}
  Owner <- OwnOne
  Immediate = {}
  Vanishing = {k1}
  TriggerNs = {2}
  ResolveMs = {2}
  CountCap = 2
  Faults = {}
  MaxChanges = 3
INVARIANT
  DebouncedSinceClosed
CHECK_DEADLOCK FALSE
