SPECIFICATION Spec
CONSTANTS
  l1 = l1
  Loops = {l1}
  MaxRaised = 1
  BufferCap = 2
  QueueCap = 2
  Attempts = 1
  UrlChanges = FALSE
  Metrics = FALSE
INVARIANT
  LastCycleDelivered
