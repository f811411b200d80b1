CONSTANTS
  Jobs = {"logger", "cache", "http"}
  Handlers = {"logger", "db", "http"}
  Conns = {c1, c2}
  LogLevel = 0
SPECIFICATION FairSpec
PROPERTIES EveryComponentStops
CHECK_DEADLOCK FALSE
