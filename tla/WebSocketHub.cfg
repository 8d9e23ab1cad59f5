CONSTANTS
  Clients = {a, b, c, foreign}
  Foreign = {foreign}
  Limits = {1, 2}
  Buffer = 1
SPECIFICATION FairSpec
INVARIANTS NothingLeaks
PROPERTIES AdmittedWithinLimit EveryHandlerEnds
