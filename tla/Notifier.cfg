SPECIFICATION FairSpec
CONSTANTS
  l1 = l1
  Loops = {l1}
  MaxRaised = 4
  BufferCap = 2
  QueueCap = 2
  Attempts = 2
  UrlChanges = TRUE
  Metrics = TRUE
INVARIANTS
  NothingLostWhileRunning
  DrainBounded
  QueuedIsAttempted
PROPERTIES
  OnlyLateOutOfOrder
  ShutdownEnds
