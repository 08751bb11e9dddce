CONSTANTS
  MergeText = 9
  AllowDuplicates = FALSE
  DepthLimit = 5
  WalkDepth = 16
  Names = {11, 12}
  Documents <- MCEdits
  Edits <- MCEdits
  MaxEdits = 2
SPECIFICATION Spec
INVARIANT NoFunkinessOnRoot
