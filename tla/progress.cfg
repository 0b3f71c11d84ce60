SPECIFICATION FairSpec
CONSTANTS
  c1 = c1
  c2 = c2
  both = both
  commit = commit
  Connections = {c1}
  Local = {}
  Targets = {both}
  OwnTarget = both
  Scoped = {both}
  RequestKinds = {"Initialize", "SetTarget", "Submit", "Lookup"}
  FileChanges <- FirstChange
  Capacity = 1
  MaxRunning = 1
  MaxCommands = 3
  MaxChanges = 1
  Disturbances = {"Shutdown", "Heartbeat"}
PROPERTIES
  LookupReadsShownSnapshot
  RequestsAreAnswered
  ReservedReviewArrives
  SessionsConverge
  ShutdownClosesConnections
