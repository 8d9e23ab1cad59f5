SPECIFICATION Spec
CONSTANTS
  fast = fast
  slowest = slowest
  Collectors = {slowest}
  Intervals = {1, 8}
  Start <- Slowest
  Reconfig <- Downwards
  Every = 1
  MinStale = 6
  MinGrace = 2
  CycleTime = 0
  Sleeps = {2}
  MaxEvents = 1
PROPERTIES
  StillFailingNeverSwept
