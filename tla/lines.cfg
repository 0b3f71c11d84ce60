SPECIFICATION Spec
CONSTANTS
  p = p
  q = q
  old = old
  new = new
  both = both
  Paths = {p, q}
  Contents = {old, new}
  Targets = {both}
  Documents <- AllDocuments
  Lines = TRUE
  MaxDocuments = 3
  Disturbances = {"OtherArms"}
SYMMETRY Renamings
INVARIANTS
  LinesAreWhole
