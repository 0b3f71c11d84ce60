SPECIFICATION FairSpec
CONSTANTS
  None = None
  Documents <- OfWorkingTree
  NoDocument <- Empty
  JumpTargets <- Places
  Externals = {}
  SourceCounts = {1}
  MaxSnapshots = 3
  MaxCommands = 3
  MaxComments = 1
  Commands = {"Overlay","Select"}
PROPERTIES
  DocumentsDoNotGoBack
CHECK_DEADLOCK FALSE
