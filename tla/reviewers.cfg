SPECIFICATION Spec
CONSTANTS
  c1 = c1
  c2 = c2
  both = both
  commit = commit
  Connections = {c1, c2}
  Local = {}
  Targets = {both}
  OwnTarget = both
  Scoped = {both}
  RequestKinds = {"Initialize", "Submit", "Cancel"}
  FileChanges <- FirstChange
  Capacity = 1
  MaxRunning = 1
  MaxCommands = 3
  MaxChanges = 0
  Disturbances = {"HangUp"}
SYMMETRY Reviewers
INVARIANTS
  OneReview
  AcknowledgedReviewIsKept
PROPERTIES
  ReviewIsDecidedOnce
CHECK_DEADLOCK FALSE
