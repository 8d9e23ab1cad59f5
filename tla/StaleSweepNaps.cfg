SPECIFICATION Spec
CONSTANTS
  fast = fast
  slowest = slowest
  Collectors = {slowest}
  Intervals = {2}
  Start <- Slowest
  Reconfig = {}
  Every = 1
  MinStale = 6
  MinGrace = 2
  CycleTime = 1
  Sleeps = {1, 6}
  MaxEvents = 3
PROPERTIES
  StillFailingNeverSwept
