SPECIFICATION FairSpec
CONSTANTS
  root = root
  a = a
  b = b
  both = both
  staged = staged
  Directories = {root, a}
  Root = root
  Parent <- Single
  Targets = {both, staged}
  Scoped = {both, staged}
  FirstTarget = both
  MaxEvents = 1
  MaxChanges = 2
  MaxEmitted = 1
  MaxRequests = 3
  MaxInputs = 3
  RequestKinds = {"SetTarget", "RefreshTarget", "Subscribe"}
  Disturbances = {"LoadFails", "Vanish", "Overflow", "Shutdown"}
INVARIANTS
  NoChangeIsForgotten
  RequestIsRetained
  StateIsOfItsTarget
PROPERTIES
  ChangesAreShown
CHECK_DEADLOCK FALSE
