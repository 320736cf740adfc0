SPECIFICATION Spec
CONSTANTS
  Archives <- MCArchives
  Sources <- MCSources
  Selections <- MCSelections
  Trees <- MCTrees
  LimitSets <- MCLimits
  Bytes <- MCBytes
  All = All
  MaxInt <- MCMaxInt
  MaxCalls = 2
  MaxChanges = 1
INVARIANTS ExtractedIsArchive OnlyWantedTouched LinksStayInside NewDirectorySuffices LimitsExact
CHECK_DEADLOCK FALSE
