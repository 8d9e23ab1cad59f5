SPECIFICATION Spec
CONSTANTS
  fast = fast
  slowest = slowest
  Collectors = {slowest}
  Intervals = {1}
  Start <- Slowest
  Reconfig = {}
  Every = 1
  MinStale = 6
  MinGrace = 2
  CycleTime = 4
  Sleeps = {1}
  MaxEvents = 0
PROPERTIES
  StillFailingNeverSwept
