SPECIFICATION Spec
CONSTANTS
  c1 = c1
  c2 = c2
  both = both
  commit = commit
  Connections = {c1}
  Local = {c1}
  Targets = {both, commit}
  OwnTarget = both
  Scoped = {both}
  RequestKinds = {"Initialize", "OldInitialize", "SetTarget", "Refresh", "Apply", "Submit", "Malformed"}
  FileChanges <- FirstChange
  Capacity = 1
  MaxRunning = 1
  MaxCommands = 3
  MaxChanges = 1
  Disturbances = {"WatcherStops", "Shutdown", "LoadFails"}
INVARIANTS
  SwitchIsShownBeforeItsAnswer
  RefreshIsShownBeforeItsAnswer
  ReviewIsOfShownTarget
PROPERTIES
  ReviewIsLostOnlyToDisruption
  AnswersFollowRequests
