SPECIFICATION FairSpec
CHECK_DEADLOCK FALSE
CONSTANTS
  Order <- MCOrder
  Router <- MCRouter
  Targets = {"1.1.1.1", "8.8.8.8"}
  Domains = {"example.org"}
  PingCount = 2
  LossWarning = 10
  Faults = {"router", "isp", "1.1.1.1", "dns", "loss", "heavy loss", "drops", "load"}
  Overrides = {"none", "wlan0"}
  Pins = {"none", "10.0.1.1"}
  None = "none"
  Shutdown = TRUE
  MaxChanges = 1
INVARIANTS
  UnusedPortNeverReported
PROPERTIES
  NoFalseAlarm
  DiagnosisSettles
