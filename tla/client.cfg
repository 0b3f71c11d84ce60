SPECIFICATION Spec
CONSTANTS
  r1 = r1
  r2 = r2
  both = both
  commit = commit
  Calls = {r1, r2}
  Targets = {both, commit}
  FirstTarget = both
  CallKinds = {"SetTarget", "Apply", "Lookup", "Close"}
  Capacity = 1
  Reconnects = TRUE
  MaxConnections = 2
  MaxEvents = 1
  Disturbances = {"ServerDies", "Rejects", "HandleDrops", "Idle", "ServerFails", "WriteTimeout"}
SYMMETRY Callers
INVARIANTS
  EveryCallIsSomewhere
  CommandsRunOnce
  AnswersAreTheirOwn
  DisconnectedDidNotRun
  SwitchIsKept
