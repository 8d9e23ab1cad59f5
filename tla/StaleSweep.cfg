SPECIFICATION FairSpec
CONSTANTS
  fast = fast
  slowest = slowest
  Collectors = {fast, slowest}
  Intervals = {1, 2}
  Start <- FastAndSlow
  Reconfig <- EitherWay
  Every = 2
  MinStale = 4
  MinGrace = 2
  CycleTime = 0
  Sleeps = {2, 12}
  MaxEvents = 3
PROPERTIES
  SweptOnlyInDoubt
  VanishedIsResolved
