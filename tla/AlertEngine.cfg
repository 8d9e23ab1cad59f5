SPECIFICATION Spec
CONSTANTS
  k1 = k1
  k2 = k2
  l1 = l1
  l2 = l2
  Sweeper = Sweeper
  Keys = {k1, k2}
  Loops = {l1}
  Owner <- OwnOne
  Immediate = {k2}
  Vanishing = {}
  TriggerNs = {2, 3}
  ResolveMs = {2}
  CountCap = 3
  Faults = {"touch", "create", "resolve", "crash"}
  MaxChanges = 4
INVARIANTS
  TypeOK
  ScoreMatchesAlerts
