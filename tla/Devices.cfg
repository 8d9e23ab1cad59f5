SPECIFICATION FairSpec
CONSTANTS
  IPs = {"10.0.0.7"}
  Devs = {"aa:01", "aa:02"}
  NameOf <- MCNameOf
  NoName = ""
  NoDev = "nobody"
  HostnameTTL = 2
  MissTTL = 1
  Fresh = 2
  StaleAfter = 3
  MaxCycle = 1
  MaxChanges = 2
PROPERTIES
  NameSettles
  NewDeviceAlertOnce
  NewDeviceAlertEnds
  RowsKeepKnowledge
