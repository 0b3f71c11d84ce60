SPECIFICATION FairSpec
CONSTANTS
  r1 = r1
  r2 = r2
  both = both
  commit = commit
  Calls = {r1, r2}
  Targets = {both}
  FirstTarget = both
  CallKinds = {"Submit", "Lookup", "Close"}
  Capacity = 1
  Reconnects = TRUE
  MaxConnections = 2
  MaxEvents = 1
  Disturbances = {"ServerMisbehaves", "WriteTimeout", "HandleDrops"}
PROPERTIES
  CallsAreAnswered
  ClosedClientStops
