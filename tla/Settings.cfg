SPECIFICATION Spec
CONSTANTS
  a = a
  b = b
  info = info
  debug = debug
  p1 = p1
  p2 = p2
  home = home
  other = other
  Requests = {1, 2}
  Lists <- SomeLists
  Levels = {info, debug}
  Ports = {p1, p2}
  Paths = {home}
  Yaml <- YamlDoc
  PathChanges = FALSE
  MaxPosts = 2
INVARIANTS
  OnlyValidSettings
  LiveIsInUse
  LevelIsLive
PROPERTIES
  RestartDelivers
  RestartOnlyWhenAsked
