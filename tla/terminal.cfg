SPECIFICATION FairSpec
CONSTANTS
  None = None
  Documents <- Snapshots
  NoDocument <- Empty
  JumpTargets <- Places
  Externals = {}
  SourceCounts = {1}
  MaxSnapshots = 2
  MaxCommands = 3
  MaxComments = 1
  Commands = {"Select", "SelectFile", "SourceView", "Fold", "Comment", "Define", "History", "Overlay", "Emit"}
INVARIANTS
  TypeOK
  SelectionIsShown
  SourceViewHasFile
  ReferenceIsAwaited
  DraftIsOnItsLine
  CommentsAreOnTheirLines
PROPERTIES
  LateAnswersAreIgnored
  ReviewOutlivesDocuments
  ReferencesSettle
CHECK_DEADLOCK FALSE
