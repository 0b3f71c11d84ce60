SPECIFICATION Spec
CONSTANTS
  None = None
  c1 = c1
  c2 = c2
  Calls = {c1, c2}
  Refresher = refresher
  Capacity = 1
  Locations = {"tracked", "ignored"}
  Registrations = {{"Change"}}
  MaxEdits = 1
  MaxSessions = 2
SYMMETRY Callers
INVARIANTS
  NoChangeIsLost
PROPERTIES
  RequestsReachOpenDocuments
CHECK_DEADLOCK FALSE
