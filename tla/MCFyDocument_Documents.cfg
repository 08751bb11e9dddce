CONSTANTS
  MergeText = 9
  AllowDuplicates = FALSE
  DepthLimit = 5
  WalkDepth = 16
  Names = {11, 12}
  Documents <- MCDocuments
  Edits <- MCEdits
  MaxEdits = 2
SPECIFICATION Spec
INVARIANTS TypeOK LoadedAsWritten ResolvesToMeaning PathIsPlace CloneResolvesAlike EditsKeepTrees StreamsMeaning
PROPERTIES InsertsOnlyThere
