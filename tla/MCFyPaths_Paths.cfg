CONSTANTS
  MergeText = 9
  AllowDuplicates = FALSE
  DepthLimit = 0
  WalkDepth = 16
  Names = {20, 21}
  KeyWord = 14
  SelectWord = 15
  MethodOf <- MCMethodOf
  NumberText <- MCNumberText
  Concat <- MCConcat
  Documents <- MCDocuments
  Expressions <- MCExpressions
  Routes <- MCRoutes
SPECIFICATION Spec
INVARIANTS TypeOK ExpressionsMeanIt PathsLeadBack PathsSeeMeaning
