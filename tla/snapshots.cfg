SPECIFICATION Spec
CONSTANTS
  a = a
  b = b
  Absent = Absent
  Unavailable = Unavailable
  Contents = {a, b}
  PathCount = 2
  Beginnings <- SomeBeginnings
  Actions <- SomeActions
  Scopes = {"Unstaged", "Staged", "Both"}
  MaxTries = 2
  MaxLoads = 1
  MaxDisturbances = 2
  MaxFailures = 1
INVARIANTS
  SnapshotIsOfOneMoment
  OnlyChangesFailLoads
PROPERTIES
  ActionsTakeEffect
