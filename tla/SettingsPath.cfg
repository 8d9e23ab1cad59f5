SPECIFICATION Spec
CONSTANTS
  a = a
  b = b
  info = info
  debug = debug
  p1 = p1
  p2 = p2
  home = home
  other = other
  Requests = {1}
  Lists <- SomeLists
  Levels = {info, debug}
  Ports = {p1}
  Paths = {home, other}
  Yaml <- YamlDoc
  PathChanges = TRUE
  MaxPosts = 2
PROPERTY
  RestartDelivers
