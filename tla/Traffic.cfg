SPECIFICATION TrafficSpec
CHECK_DEADLOCK FALSE
CONSTANTS
  Keys = {"web", "local"}
  Loopback = {"local"}
  Apps = {"browser", "service"}
  Hidden = {"service"}
  Nobody = "(unidentified)"
  Multiplier = 2
  MinAverage = 1
  Window = 4
  MaxGap = 4
  Delays = {2}
  Jumps <- MCJumps
  Scale = 12
  MaxCycles = 4
  MaxEvents = 5
INVARIANTS
  AppNeverOvercharged
  EveryByteAccounted
PROPERTIES
  RatesAreReal
  SpikeNeedsHistory
